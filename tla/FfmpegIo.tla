------------------------------ MODULE FfmpegIo ------------------------------
(***************************************************************************)
(* An Output that writes into a channel another thread's Input reads: the  *)
(* states of Output, the io callbacks read_packet and write_packet, and    *)
(* ChannelCompat, which turns chunks into a stream of bytes again.  Bytes  *)
(* are numbered in the order the muxer makes them.  The channel is one     *)
(* that keeps every chunk: the mpsc and crossbeam ones, and a broadcast    *)
(* channel whose receiver does not lag.                                    *)
(***************************************************************************)
EXTENDS Naturals, Sequences, FiniteSetsExt

CONSTANTS BufferSize,   \* InnerOptions.buffer_size
          Capacity,     \* chunks the channel holds
          MaxBytes      \* bound: bytes the muxer makes

VARIABLES output,   \* whether it is held, its state, the call into FFmpeg, the
                    \* io buffer, the bytes made, whether the io has failed
          channel,  \* the chunks sent and not received
          input     \* whether it is held, where it is in a read, the bytes
                    \* asked for, the bytes in hand, ChannelCompat.buffer, and
                    \* the bytes delivered

pipeVars == <<output, channel, input>>

PipeInit ==
    /\ output = [open |-> TRUE, state |-> "Uninitialized", fn |-> "none", buffer |-> <<>>, made |-> 0, error |-> FALSE]
    /\ channel = <<>>
    /\ input = [open |-> TRUE, state |-> "idle", want |-> 0, part |-> <<>>, buffer |-> <<>>, got |-> <<>>]

-----------------------------------------------------------------------------
(* write_header, write_trailer, write_interleaved_packet and write_packet  *)
(* refuse in the wrong state, without touching anything.                   *)
Allowed(fn) ==
    output.state = (IF fn = "write_header" THEN "Uninitialized" ELSE "HeaderWritten")

WriteCall(fn) ==
    /\ output.fn = "none" /\ output.open /\ Allowed(fn)
    /\ output' = [output EXCEPT !.fn = fn]
    /\ UNCHANGED <<channel, input>>

MuxBytes ==
    /\ output.fn # "none"
    /\ Len(output.buffer) < BufferSize /\ output.made < MaxBytes
    /\ output' = [output EXCEPT !.made = @ + 1, !.buffer = Append(@, output.made + 1)]
    /\ UNCHANGED <<channel, input>>

(* The io context hands its buffer to write_packet: ChannelCompat::write   *)
(* waits for room in the channel, and fails once the receiver is gone.     *)
WritePacket ==
    /\ output.fn # "none" /\ output.buffer # <<>>
    /\ \/ /\ input.open /\ Len(channel) < Capacity
          /\ channel' = Append(channel, output.buffer)
          /\ output' = [output EXCEPT !.buffer = <<>>]
       \/ /\ ~input.open
          /\ output' = [output EXCEPT !.buffer = <<>>, !.error = TRUE]
          /\ UNCHANGED channel
    /\ UNCHANGED input

(* A call returns; av_write_trailer leaves nothing in the io buffer.  An   *)
(* error, of the io context or of FFmpeg's own, keeps the state.           *)
WriteReturn ==
    /\ output.fn # "none"
    /\ \/ output' = [output EXCEPT !.fn = "none"]
       \/ /\ ~output.error
          /\ output.fn = "write_trailer" => output.buffer = <<>>
          /\ output' = [output EXCEPT !.fn = "none",
                                      !.state = CASE output.fn = "write_header" -> "HeaderWritten"
                                                  [] output.fn = "write_trailer" -> "TrailerWritten"
                                                  [] OTHER -> @]
    /\ UNCHANGED <<channel, input>>

DropOutput ==
    /\ output.fn = "none" /\ output.open
    /\ output' = [output EXCEPT !.open = FALSE]
    /\ UNCHANGED <<channel, input>>

-----------------------------------------------------------------------------
(* ChannelCompat::read into a buffer of n bytes: what is left over first,  *)
(* else a chunk the call waits for; after left-overs, whatever the channel *)
(* has at that moment.                                                     *)
Read(n) ==
    /\ input.open /\ input.state = "idle"
    /\ input' = IF Len(input.buffer) >= n
                THEN [input EXCEPT !.got = @ \o SubSeq(input.buffer, 1, n),
                                   !.buffer = SubSeq(@, n + 1, Len(@))]
                ELSE IF input.buffer = <<>>
                THEN [input EXCEPT !.state = "recv", !.want = n]
                ELSE [input EXCEPT !.state = "try_recv", !.want = n,
                                   !.part = input.buffer, !.buffer = <<>>]
    /\ UNCHANGED <<output, channel>>

(* copy_from_slice wants a chunk as long as the buffer: with a shorter one *)
(* it panics, inside a C callback.  channel_recv is None when the senders  *)
(* are gone; that of a broadcast receiver also when it lags, which is left *)
(* out here.                                                               *)
Recv ==
    /\ input.state = "recv"
    /\ \/ /\ channel # <<>>
          /\ channel' = Tail(channel)
          /\ LET data == Head(channel)
             IN  input' = IF Len(data) < input.want THEN [input EXCEPT !.state = "panicked"]
                          ELSE [input EXCEPT !.state = "idle",
                                             !.got = @ \o SubSeq(data, 1, input.want),
                                             !.buffer = SubSeq(data, input.want + 1, Len(data))]
       \/ /\ channel = <<>> /\ ~output.open
          /\ input' = [input EXCEPT !.state = "eof"]
          /\ UNCHANGED channel
    /\ UNCHANGED output

TryRecvLossy ==   \* mutant: what does not fit is dropped
    /\ input.state = "try_recv"
    /\ IF channel # <<>> /\ Len(input.part) < input.want
       THEN /\ channel' = Tail(channel)
            /\ input' = [input EXCEPT !.part = SubSeq(@ \o Head(channel), 1,
                             IF Len(@ \o Head(channel)) < input.want THEN Len(@ \o Head(channel))
                             ELSE input.want)]
       ELSE /\ input' = [input EXCEPT !.state = "idle", !.got = @ \o input.part, !.part = <<>>]
            /\ UNCHANGED channel
    /\ UNCHANGED output

TryRecv ==
    /\ input.state = "try_recv"
    /\ IF channel # <<>> /\ Len(input.part) < input.want
       THEN LET data == Head(channel)
                n == Min({Len(data), input.want - Len(input.part)})
            IN  /\ channel' = Tail(channel)
                /\ input' = [input EXCEPT !.part = @ \o SubSeq(data, 1, n),
                                          !.buffer = SubSeq(data, n + 1, Len(data))]
       ELSE /\ input' = [input EXCEPT !.state = "idle", !.got = @ \o input.part, !.part = <<>>]
            /\ UNCHANGED channel
    /\ UNCHANGED output

(* The application drops the Input, and with it the channel's receiver.    *)
DropInput ==
    /\ input.open /\ input.state \in {"idle", "eof"}
    /\ input' = [input EXCEPT !.open = FALSE]
    /\ UNCHANGED <<output, channel>>

PipeNext ==
    \/ \E fn \in {"write_header", "write_packet", "write_trailer"} : WriteCall(fn)
    \/ MuxBytes \/ WritePacket \/ WriteReturn \/ DropOutput
    \/ \E n \in 1..BufferSize : Read(n)
    \/ Recv \/ TryRecv \/ DropInput

PipeSpec == PipeInit /\ [][PipeNext]_pipeVars

-----------------------------------------------------------------------------
(* Over a channel that keeps every chunk, the reader sees the muxer's      *)
(* bytes, each once and in order, however the chunks and the reads cut the *)
(* stream and whenever try_recv finds the channel empty; and read_packet   *)
(* reports the end of the file only when the writer is gone and every byte *)
(* but the ones its io buffer still had was read, and if the trailer was   *)
(* written it had none.                                                    *)
PipeIsFaithful ==
    /\ \A i \in 1..Len(input.got) : input.got[i] = i
    /\ input.state = "eof" =>
          /\ ~output.open /\ input.buffer = <<>> /\ channel = <<>>
          /\ Len(input.got) = output.made - Len(output.buffer)
          /\ output.state = "TrailerWritten" => output.buffer = <<>>

(* "The wrapper allows for the channel to be used with the `Input` and     *)
(* `Output` structs" (channel.rs:6): reading does not panic.               *)
ReadNeverPanics == input.state # "panicked"
=============================================================================
