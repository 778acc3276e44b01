----------------------------- MODULE FfmpegHeap -----------------------------
(***************************************************************************)
(* What the ffmpeg crate owns.  Every C object is kept by a guard, a       *)
(* SmartPtr or SmartObject with a destructor; a function builds guards,    *)
(* hands objects over to FFmpeg, changes destructors, and may fail between *)
(* any two of these, when the guards it made are dropped, the last first.  *)
(* Each function of the crate is a table of such steps; the program calls  *)
(* them, and drops the values they return, in any order the borrow checker *)
(* allows.  What FFmpeg allocates, frees or refuses is a choice.           *)
(***************************************************************************)
EXTENDS Naturals, FiniteSets, SequencesExt

CONSTANTS MaxHeld,    \* bound: values the program holds at once
          MaxAlike,   \* bound: objects of a kind on the heap at once
          Programs    \* the sets of functions a program calls

VARIABLES heap,    \* slot -> object: whether it is allocated, the objects
                   \* that hold a reference to it, and the ones its callbacks
                   \* go through
          held,    \* the values the program holds: type and guards, in the
                   \* order Rust drops them
          call,    \* the function running: its step, its guards (a stack) and
                   \* the value it borrows
          faults,  \* what went wrong with the heap so far
          program  \* the functions this program calls; never changes

heapVars == <<heap, held, call, faults, program>>

(* Slots are kept apart by the kind of object in them. *)
ObjectKinds ==
    {"buffer", "text", "io", "box", "format", "stream", "dict", "shadow", "data", "file",
     "codec", "map", "frame", "packet", "graph", "filter", "inout", "name", "sws"}
Slots == ObjectKinds \X (1..MaxAlike)
Null0 == <<"null", 0>>
Nothing == [live |-> FALSE, refs |-> {}, via |-> {}]
Guard(name, ptr, drop) == [name |-> name, ptr |-> ptr, drop |-> drop]
NoCall == [fn |-> "none", pc |-> 0, guards |-> <<>>, self |-> 0]

-----------------------------------------------------------------------------
(* The kinds of object a destructor gives back: the object itself and what *)
(* FFmpeg keeps in it.  avformat_free_context leaves the opened file alone *)
(* and avio_context_free the buffer, which the crate's closures free.  One *)
(* heap stands for both allocators: avfilter_inout_free gives to av_free   *)
(* the name that CString::into_raw took from Rust's.                       *)
WithContext == {"format", "stream", "dict", "data"}

Frees == [av_free |-> {"buffer", "text"},
          io_free |-> {"io", "buffer"},
          box_drop |-> {"box"},
          free_context |-> WithContext,
          close_output |-> WithContext \union {"file"},
          close_input |-> WithContext \union {"file"},
          free_codec |-> {"codec", "map"},
          dict_free |-> {"dict"},
          frame_free |-> {"frame", "data", "map"},
          packet_free |-> {"packet", "data"},
          graph_free |-> {"graph", "filter"},
          inout_free |-> {"inout", "name"},
          sws_free |-> {"sws"},
          uninit |-> {"map"},
          noop |-> {}]

(* The steps a function is made of. *)
Wrap(name, kind, drop) == [op |-> "wrap", name |-> name, kind |-> kind, drop |-> drop]
NullPtr(name, drop) == [op |-> "null", name |-> name, drop |-> drop]
Box(name) == [op |-> "box", name |-> name]
Fill(name, kind, like) == [op |-> "fill", name |-> name, kind |-> kind, like |-> like]
Attach(kind, to) == [op |-> "attach", kind |-> kind, to |-> to]
Give(name, to) == [op |-> "give", name |-> name, to |-> to]
SetDestructor(name, drop) == [op |-> "set", name |-> name, drop |-> drop]
Struct(names) == [op |-> "struct", names |-> names]
Use(names) == [op |-> "use", names |-> names]
Open(name) == [op |-> "open", name |-> name]
Drop(name) == [op |-> "drop", name |-> name]
Discard(kind, of) == [op |-> "discard", kind |-> kind, of |-> of]
Swap(name, with) == [op |-> "swap", name |-> name, with |-> with]
Alias(from, to) == [op |-> "share", from |-> from, to |-> to]
Pass(from, to) == [op |-> "pass", from |-> from, to |-> to]
Absorb(name) == [op |-> "consume", name |-> name]
ReadStreams(to) == [op |-> "demux", to |-> to]
Link(name, to) == [op |-> "link", name |-> name, to |-> to]
Rename(name, as) == [op |-> "rename", name |-> name, as |-> as]
View(name, of) == [op |-> "view", name |-> name, of |-> of]

-----------------------------------------------------------------------------
(* The functions of the crate. *)

(* Inner::new: buffer, boxed reader or writer, io context, format context.  *)
InnerNew(write) ==
    <<Wrap("buffer", "buffer", "av_free"), Box("data"),
      Wrap("io", "io", "io_free"), Link("io", "data"), Give("buffer", "io")>>
    \o (IF write THEN <<NullPtr("context", "free_context"), Fill("context", "format", "")>>
                 ELSE <<Wrap("context", "format", "free_context")>>)
    \o <<Link("context", "io"), Struct(<<"data", "context", "io">>)>>

InnerEmpty == <<Box("data"), NullPtr("context", "free_context"), NullPtr("io", "noop"),
                Struct(<<"data", "context", "io">>)>>

OpenOutput == InnerEmpty \o <<Fill("context", "format", ""), Attach("file", "context"),
                              SetDestructor("context", "close_output")>>

CreateInputEarly ==   \* mutant: the context closes itself, after the reader is gone
    <<Open("context"), SetDestructor("context", "close_input"), NullPtr("wrapper", "noop"),
      Use(<<"context", "io", "data">>), ReadStreams("context")>>

(* create_input: once the context is open a wrapper around the whole Inner *)
(* closes it, before the fields of Inner are dropped.                      *)
CreateInput == <<Open("context"), NullPtr("wrapper", "close_input"),
                 SetDestructor("context", "noop"),
                 Use(<<"context", "io", "data">>), ReadStreams("context")>>

(* The settings' apply: refuse what is not set, then fill in the codec     *)
(* context; for audio that swaps the channel layout into it.               *)
ApplyVideo == <<Use(<<"codec">>)>>
ApplyAudio == <<Use(<<"codec">>), Swap("map", "codec"), Drop("map")>>

(* Encoder::new with the settings it consumes. *)
EncoderNew(audio) ==
    <<NullPtr("options", "dict_free"), Fill("options", "dict", "")>>
    \o (IF audio THEN <<Wrap("map", "map", "uninit")>> ELSE <<>>)
    \o <<Use(<<>>), Wrap("codec", "codec", "free_codec"), Attach("stream", "context"),
         NullPtr("copy", "dict_free"), Fill("copy", "dict", "options")>>
    \o (IF audio THEN ApplyAudio ELSE ApplyVideo)
    \o <<Drop("options"), Use(<<"codec", "copy">>), Use(<<"codec", "context">>)>>

DecoderNew == <<Use(<<"context">>), Wrap("codec", "codec", "free_codec"),
                Use(<<"codec", "context">>), Use(<<"codec">>)>>

Inout(list) == <<Use(<<>>), Wrap("inout", "inout", "inout_free"), Attach("name", "inout"),
                 Give(list, "inout"), Rename("inout", list)>>

ReceiveFrame == <<Wrap("frame", "frame", "frame_free"), Use(<<"codec">>), Attach("data", "frame")>>

ScalerNew == <<Wrap("sws", "sws", "sws_free"), Wrap("frame", "frame", "frame_free"),
               Attach("data", "frame")>>

Fn(borrows, takes, steps, gives, fields) ==
    [borrows |-> borrows, takes |-> takes, steps |-> steps, gives |-> gives, fields |-> fields]

InputFields == <<"wrapper", "data", "context", "io">>
OutputFields == <<"data", "context", "io">>

InputFns ==
    [input_new |-> Fn({}, {}, InnerNew(FALSE) \o CreateInput, "input", InputFields),
     input_open |-> Fn({}, {}, InnerEmpty \o CreateInput, "input", InputFields)]

OutputFns ==
    [output_new |-> Fn({}, {}, InnerNew(TRUE), "output", OutputFields),
     output_open |-> Fn({}, {}, OpenOutput, "output", OutputFields),
     into_inner |-> Fn({}, {"output"}, <<Drop("data")>>, "none", <<>>),
     set_metadata |-> Fn({"output"}, {"dict"},
                         <<Discard("dict", "context"), Give("dict", "context")>>, "none", <<>>)]

StreamFns ==
    [add_stream |-> Fn({"output"}, {}, <<Attach("stream", "context")>>, "none", <<>>),
     copy_stream |-> Fn({"output"}, {}, <<Attach("stream", "context"), Use(<<"context">>)>>, "none", <<>>)]

WriteFns ==
    [write_interleaved_packet |-> Fn({"output"}, {"packet"},
                         <<Use(<<>>), Pass("packet", "context"), Use(<<"context", "io", "data">>)>>, "none", <<>>)]

MetadataFns ==
    [metadata_mut |-> Fn({"input", "output"}, {},
                         <<View("view", "context"), Fill("view", "shadow", "")>>, "none", <<>>)]

EncoderFns ==
    [encoder_video |-> Fn({"output"}, {}, EncoderNew(FALSE), "encoder", <<"codec">>),
     encoder_audio |-> Fn({"output"}, {}, EncoderNew(TRUE), "encoder", <<"codec">>),
     encode_packet |-> Fn({"encoder"}, {}, <<Wrap("packet", "packet", "packet_free"),
                         Use(<<"codec">>), Attach("data", "packet")>>, "packet", <<"packet">>)]

DecoderFns ==
    [decoder_new |-> Fn({"input"}, {}, DecoderNew, "decoder", <<"codec">>),
     receive_frame |-> Fn({"decoder"}, {}, ReceiveFrame, "frame", <<"frame">>)]

FrameFns ==
    [frame_new |-> Fn({}, {}, <<Wrap("frame", "frame", "frame_free")>>, "frame", <<"frame">>),
     frame_clone |-> Fn({"frame"}, {}, <<Wrap("clone", "frame", "frame_free"),
                         Alias("frame", "clone"), Rename("clone", "frame")>>, "frame", <<"frame">>)]

LayoutFns ==
    [layout_new |-> Fn({}, {}, <<NullPtr("map", "uninit"), Use(<<"map">>)>>, "layout", <<"map">>),
     layout_wrap |-> Fn({}, {}, <<Wrap("map", "map", "uninit")>>, "layout", <<"map">>),
     set_channel_layout |-> Fn({"frame"}, {"layout"},
                         <<Use(<<"map">>), Swap("map", "frame")>>, "none", <<>>)]

PacketFns ==
    [packet_new |-> Fn({}, {}, <<Wrap("packet", "packet", "packet_free")>>, "packet", <<"packet">>),
     packet_clone |-> Fn({"packet"}, {}, <<Wrap("clone", "packet", "packet_free"),
                         Alias("packet", "clone"), Rename("clone", "packet")>>, "packet", <<"packet">>)]

PacketsFns ==
    [read_packet |-> Fn({"input"}, {}, <<Wrap("packet", "packet", "packet_free"),
                         Use(<<"context", "io", "data">>), Attach("data", "packet")>>, "packet", <<"packet">>)]

DictFns ==
    [dict_new |-> Fn({}, {}, <<NullPtr("dict", "dict_free")>>, "dict", <<"dict">>),
     dict_set |-> Fn({"dict"}, {}, <<Use(<<>>), Fill("dict", "dict", "")>>, "none", <<>>),
     dict_clone |-> Fn({"dict"}, {}, <<NullPtr("copy", "dict_free"), Fill("copy", "dict", "dict"),
                         Rename("copy", "dict")>>, "dict", <<"dict">>)]

GraphFns ==
    [graph_new |-> Fn({}, {}, <<Wrap("graph", "graph", "graph_free")>>, "graph", <<"graph">>),
     graph_add |-> Fn({"graph"}, {}, <<Use(<<>>), Attach("filter", "graph")>>, "none", <<>>),
     graph_dump |-> Fn({"graph"}, {}, <<Wrap("text", "text", "av_free"), Use(<<"text">>)>>, "none", <<>>)]

ParserFns ==
    [parser_new |-> Fn({"graph"}, {}, <<NullPtr("inputs", "inout_free"), NullPtr("outputs", "inout_free")>>,
                       "parser", <<"inputs", "outputs">>),
     parser_input |-> Fn({}, {"parser"}, Inout("inputs"), "parser", <<"inputs", "outputs">>),
     parser_output |-> Fn({}, {"parser"}, Inout("outputs"), "parser", <<"inputs", "outputs">>),
     parser_parse |-> Fn({}, {"parser"}, <<Absorb("inputs"), Absorb("outputs"), Use(<<>>)>>, "none", <<>>)]

ScalerFns ==
    [scaler_new |-> Fn({}, {}, ScalerNew, "scaler", <<"sws", "frame">>),
     scaler_process |-> Fn({"scaler"}, {}, <<Use(<<"sws", "frame">>)>>, "none", <<>>)]

Types == {"input", "output", "encoder", "decoder", "frame", "layout", "packet",
          "dict", "graph", "parser", "scaler"}
(* The end of a value's life. *)
DropFn == [drop |-> Fn({}, Types, <<>>, "none", <<>>)]

Fns == InputFns @@ OutputFns @@ StreamFns @@ WriteFns @@ MetadataFns @@ EncoderFns @@ DecoderFns
       @@ FrameFns @@ LayoutFns @@ PacketFns @@ PacketsFns @@ DictFns @@ GraphFns @@ ParserFns
       @@ ScalerFns @@ DropFn

-----------------------------------------------------------------------------
SelfGuards == IF call.self = 0 THEN <<>> ELSE held[call.self].guards
Named(name) == {g \in Range(call.guards) \union Range(SelfGuards) : g.name = name}
Ptr(name) == IF Named(name) = {} THEN Null0 ELSE (CHOOSE g \in Named(name) : TRUE).ptr
Dead(ptrs) == \E p \in ptrs \ {Null0} : ~heap[p].live

Of(kind) == {kind} \X (1..MaxAlike)
Room(kind) == \E i \in Of(kind) : heap[i] = Nothing
New(kind) == CHOOSE i \in Of(kind) : heap[i] = Nothing
Object(refs) == [live |-> TRUE, refs |-> refs, via |-> {}]
Children(p, kind) == {c \in Of(kind) : p \in heap[c].refs}

(* What goes when p goes: p, and what nothing else refers to any more, of  *)
(* the kinds the destructor gives back (lists and streams nest twice).     *)
Orphans(gone, kinds) ==
    gone \union {c \in Slots : /\ heap[c].refs # {}
                             /\ heap[c].refs \subseteq gone
                             /\ c[1] \in kinds}

Released(p, kinds) ==
    LET gone == Orphans(Orphans(Orphans({p}, kinds), kinds), kinds)
    IN  [i \in Slots |-> IF i \in gone THEN [heap[i] EXCEPT !.live = FALSE, !.refs = {}]
                         ELSE [heap[i] EXCEPT !.refs = @ \ gone]]

(* A slot is reused once it is freed and nothing points at it. *)
Swept(h, guards, values) ==
    LET pointed == {g.ptr : g \in Range(guards)}
                   \union UNION {{g.ptr : g \in Range(v.guards)} : v \in Range(values)}
                   \union UNION {h[i].refs \union h[i].via : i \in {j \in Slots : h[j].live}}
    IN  [i \in Slots |-> IF ~h[i].live /\ i \notin pointed THEN Nothing ELSE h[i]]

(* Dropping a guard runs its destructor: close_input works on the context  *)
(* of the Inner it wraps, and its callbacks may still be called.           *)
Target(g) == IF g.drop = "close_input" THEN Ptr("context") ELSE g.ptr

Chain(p) == {p} \union heap[p].via \union UNION {heap[q].via : q \in heap[p].via}

DropFaults(g) ==
    LET p == Target(g)
    IN  IF p = Null0 \/ g.drop = "noop" THEN {}
        ELSE (IF ~heap[p].live THEN {"double free"} ELSE {})
             \union (IF p[1] \notin Frees[g.drop] THEN {"wrong free"} ELSE {})
             \union (IF g.drop = "close_input" /\ Dead(Chain(p)) THEN {"use after free"} ELSE {})

DropHeap(g) ==
    IF Target(g) = Null0 \/ g.drop = "noop" THEN heap ELSE Released(Target(g), Frees[g.drop])

-----------------------------------------------------------------------------
Busy == call.fn # "none" /\ call.pc > 0
Now == Fns[call.fn].steps[call.pc]
Doing(op) == Busy /\ call.pc <= Len(Fns[call.fn].steps) /\ Now.op = op

Settle(h, c, values) ==
    /\ heap' = Swept(h, c.guards, values)
    /\ call' = c
    /\ held' = values

Next0(guards) == [call EXCEPT !.pc = @ + 1, !.guards = guards]
Goes(h, guards) == Settle(h, Next0(guards), held) /\ UNCHANGED faults
Failed == [call EXCEPT !.pc = 0]
Fails == Settle(heap, Failed, held) /\ UNCHANGED faults

Renamed(gs, name, g) == [i \in DOMAIN gs |-> IF gs[i].name = name THEN g ELSE gs[i]]
Less(gs, name) == SelectSeq(gs, LAMBDA g : g.name # name)
Pointing(gs, name, p) ==
    [i \in DOMAIN gs |-> IF gs[i].name = name THEN [gs[i] EXCEPT !.ptr = p] ELSE gs[i]]
ValuesPointing(name, p) ==
    [i \in DOMAIN held |-> IF i = call.self THEN [held[i] EXCEPT !.guards = Pointing(@, name, p)]
                           ELSE held[i]]

(* wrap_non_null(...)?: null is an early return. *)
DoWrap ==
    /\ Doing("wrap")
    /\ \/ Fails
       \/ /\ Room(Now.kind)
          /\ Goes([heap EXCEPT ![New(Now.kind)] = Object({})],
                  Append(call.guards, Guard(Now.name, New(Now.kind), Now.drop)))

DoNull == Doing("null") /\ Goes(heap, Append(call.guards, Guard(Now.name, Null0, Now.drop)))

(* Box::new does not return on failure. *)
DoBox ==
    /\ Doing("box")
    /\ Room("box")
    /\ Goes([heap EXCEPT ![New("box")] = Object({})],
            Append(call.guards, Guard(Now.name, New("box"), "box_drop")))

(* FFmpeg allocates through a guard's pointer, unless it points somewhere  *)
(* already or the thing it copies is null.                                 *)
DoFill ==
    /\ Doing("fill")
    /\ \/ Fails
       \/ /\ Ptr(Now.name) # Null0 \/ (Now.like # "" /\ Ptr(Now.like) = Null0)
          /\ Goes(heap, call.guards)
       \/ /\ Ptr(Now.name) = Null0 /\ (Now.like # "" => Ptr(Now.like) # Null0)
          /\ Room(Now.kind)
          /\ Settle([heap EXCEPT ![New(Now.kind)] = Object({})],
                    Next0(Pointing(call.guards, Now.name, New(Now.kind))),
                    ValuesPointing(Now.name, New(Now.kind)))
          /\ UNCHANGED faults

DoAttach ==
    /\ Doing("attach")
    /\ \/ Fails
       \/ /\ Room(Now.kind)
          /\ Goes([heap EXCEPT ![New(Now.kind)] = Object({Ptr(Now.to)})], call.guards)

(* The streams a demuxer finds, some of them with metadata. *)
DoDemux ==
    /\ Doing("demux")
    /\ Room("stream") /\ Room("dict")
    /\ LET found == [heap EXCEPT ![New("stream")] = Object({Ptr(Now.to)})]
       IN  \/ Goes(found, call.guards)
           \/ Goes([found EXCEPT ![New("dict")] = Object({New("stream")})], call.guards)

DoLink ==
    /\ Doing("link")
    /\ Goes([heap EXCEPT ![Ptr(Now.name)].via = {Ptr(Now.to)}], call.guards)

(* into_inner, and the pointer stored over the one that was in the object. *)
DoGive ==
    /\ Doing("give")
    /\ LET p == Ptr(Now.name)
           to == Ptr(Now.to)
       IN  Goes([i \in Slots |-> IF i = p THEN [heap[i] EXCEPT !.refs = {to}]
                                 ELSE IF i[1] = p[1] THEN [heap[i] EXCEPT !.refs = @ \ {to}]
                                 ELSE heap[i]],
                Less(call.guards, Now.name))

DoSet ==
    /\ Doing("set")
    /\ Goes(heap, Renamed(call.guards, Now.name, Guard(Now.name, Ptr(Now.name), Now.drop)))

(* The locals become the fields of a struct, dropped in declaration order. *)
DoStruct ==
    /\ Doing("struct")
    /\ Goes(heap, LET n == Len(Now.names)
                  IN  [i \in 1..n |-> CHOOSE g \in Named(Now.names[n + 1 - i]) : TRUE])

(* A call into FFmpeg that allocates nothing, or a check of the crate. *)
DoUse ==
    /\ Doing("use")
    /\ \/ Settle(heap, Next0(call.guards), held)
       \/ Settle(heap, Failed, held)
    /\ faults' = faults \union IF Dead({Ptr(n) : n \in Range(Now.names)}) THEN {"use after free"} ELSE {}

(* avformat_open_input frees the context it was given when it fails, and   *)
(* makes one, and opens the file, when it was given none.                  *)
DoOpen ==
    /\ Doing("open")
    /\ UNCHANGED faults
    /\ \/ /\ Ptr(Now.name) # Null0
          /\ \/ Settle(heap, Next0(call.guards), held)
             \/ Settle(Released(Ptr(Now.name), WithContext),
                       [Failed EXCEPT !.guards = Pointing(@, Now.name, Null0)], held)
       \/ /\ Ptr(Now.name) = Null0
          /\ \/ Settle(heap, Failed, held)
             \/ /\ Room("format") /\ Room("file")
                /\ Settle([heap EXCEPT ![New("format")] = Object({}),
                                       ![New("file")] = Object({New("format")})],
                          Next0(Pointing(call.guards, Now.name, New("format"))), held)

DoDrop ==
    /\ Doing("drop")
    /\ \E g \in {x \in Range(call.guards) : x.name = Now.name} :
          /\ Settle(DropHeap(g), Next0(Less(call.guards, Now.name)), held)
          /\ faults' = faults \union DropFaults(g)

(* Dictionary::from_ptr_owned of what the object holds, dropped at once. *)
DoDiscard ==
    /\ Doing("discard")
    /\ LET olds == Children(Ptr(Now.of), Now.kind)
       IN  Goes(IF olds = {} THEN heap ELSE Released(CHOOSE o \in olds : TRUE, {Now.kind}),
                call.guards)

(* mem::swap of a guard's layout with the one in the object. *)
DoSwap ==
    /\ Doing("swap")
    /\ LET o == Ptr(Now.with)
           mine == Ptr(Now.name)
           theirs == Children(o, "map")
           back == IF theirs = {} THEN Null0 ELSE CHOOSE c \in theirs : TRUE
       IN  Goes([i \in Slots |-> IF i = mine THEN [heap[i] EXCEPT !.refs = {o}]
                                 ELSE IF i = back THEN [heap[i] EXCEPT !.refs = {}] ELSE heap[i]],
                Pointing(call.guards, Now.name, back))

(* av_frame_clone, av_packet_clone: one more reference to the data. *)
DoShare ==
    /\ Doing("share")
    /\ Goes([i \in Slots |-> IF i \in Children(Ptr(Now.from), "data")
                             THEN [heap[i] EXCEPT !.refs = @ \union {Ptr(Now.to)}] ELSE heap[i]],
            call.guards)

(* The muxer takes the packet's reference: it queues the data or is done.  *)
DoPass ==
    /\ Doing("pass")
    /\ LET data == Children(Ptr(Now.from), "data")
           moved(refs) == [i \in Slots |->
               IF i \notin data THEN heap[i]
               ELSE LET left == (heap[i].refs \ {Ptr(Now.from)}) \union refs
                    IN  [heap[i] EXCEPT !.refs = left, !.live = left # {}]]
       IN  \/ Goes(moved({}), call.guards)
           \/ Goes(moved({Ptr(Now.to)}), call.guards)

(* avfilter_graph_parse_ptr takes what it links off the list. *)
DoConsume ==
    /\ Doing("consume")
    /\ \/ Goes(heap, call.guards)
       \/ /\ Ptr(Now.name) # Null0
          /\ Goes(Released(Ptr(Now.name), Frees["inout_free"]), Pointing(call.guards, Now.name, Null0))

DoRename ==
    /\ Doing("rename")
    /\ Goes(heap, Renamed(Less(call.guards, Now.as), Now.name,
                          [(CHOOSE g \in Range(call.guards) : g.name = Now.name) EXCEPT !.name = Now.as]))

(* Dictionary::from_ptr_ref of a stream's metadata, which may be null. *)
DoView ==
    /\ Doing("view")
    /\ \/ Fails
       \/ \E s \in Children(Ptr(Now.of), "stream") :
             LET dicts == Children(s, "dict")
             IN  Goes(heap, Append(call.guards,
                       Guard(Now.name, IF dicts = {} THEN Null0 ELSE CHOOSE d \in dicts : TRUE, "noop")))

-----------------------------------------------------------------------------
(* The program calls a function: it may borrow one value and gives another *)
(* away, whose guards become the function's own.                           *)
Lent(i) == held[i].type = "graph" /\ \E v \in Range(held) : v.type = "parser"

Begin ==
    /\ call = NoCall
    /\ \E f \in program : \E s, t \in 0..Len(held) :
          /\ s = 0 <=> Fns[f].borrows = {}
          /\ t = 0 <=> Fns[f].takes = {}
          /\ s # 0 => s # t /\ held[s].type \in Fns[f].borrows /\ ~Lent(s)
          /\ t # 0 => held[t].type \in Fns[f].takes /\ ~Lent(t)
          /\ Fns[f].gives # "none" => Len(held) - (IF t = 0 THEN 0 ELSE 1) < MaxHeld
          /\ held' = IF t = 0 THEN held ELSE RemoveAt(held, t)
          /\ call' = [fn |-> f, pc |-> 1,
                      guards |-> IF t = 0 THEN <<>> ELSE Reverse(held[t].guards),
                      self |-> IF t # 0 /\ s > t THEN s - 1 ELSE s]
    /\ UNCHANGED <<heap, faults>>

Returned ==
    /\ Busy /\ call.pc > Len(Fns[call.fn].steps)
    /\ LET fn == Fns[call.fn]
           kept == {g \in Range(call.guards) : g.name \in Range(fn.fields)}
           value == [type |-> fn.gives,
                     guards |-> [i \in DOMAIN fn.fields |-> CHOOSE g \in kept : g.name = fn.fields[i]]]
       IN  Settle(heap, [Failed EXCEPT !.guards = SelectSeq(@, LAMBDA g : g \notin kept)],
                  IF fn.gives = "none" THEN held ELSE Append(held, value))
    /\ UNCHANGED faults

(* SmartObject::drop, for the guards that are left, the last made first. *)
Unwind ==
    /\ call.fn # "none" /\ call.pc = 0 /\ call.guards # <<>>
    /\ LET g == Last(call.guards)
           left == Front(call.guards)
       IN  /\ Settle(DropHeap(g),
                     [call EXCEPT !.guards = IF g.drop = "close_input" THEN Pointing(left, "context", Null0)
                                             ELSE left], held)
           /\ faults' = faults \union DropFaults(g)

Leave ==
    /\ call.fn # "none" /\ call.pc = 0 /\ call.guards = <<>>
    /\ call' = NoCall
    /\ UNCHANGED <<heap, held, faults>>

HeapInit ==
    /\ heap = [i \in Slots |-> Nothing]
    /\ held = <<>>
    /\ call = NoCall
    /\ faults = {}
    /\ program \in Programs

HeapNext ==
    /\ \/ Begin \/ Returned \/ Unwind \/ Leave
       \/ DoWrap \/ DoNull \/ DoBox \/ DoFill \/ DoAttach \/ DoDemux \/ DoLink \/ DoGive
       \/ DoSet \/ DoStruct \/ DoUse \/ DoOpen \/ DoDrop \/ DoDiscard \/ DoSwap
       \/ DoShare \/ DoPass \/ DoConsume \/ DoRename \/ DoView
    /\ UNCHANGED program

HeapSpec == HeapInit /\ [][HeapNext]_heapVars

(* No destructor runs on a freed object or on one of another kind, nothing *)
(* freed is used, and when the program has dropped all its values nothing  *)
(* is left on the heap, whichever calls failed and where (SmartObject's    *)
(* Drop, Inner::new, create_input, open_output, Encoder::new...).  The one *)
(* exception the code makes is the dictionary av_dict_set allocates behind *)
(* metadata_mut of a stream without metadata: nobody owns it.              *)
HeapBalanced ==
    /\ faults = {}
    /\ call = NoCall /\ held = <<>> =>
          \A i \in DOMAIN heap : heap[i].live => i[1] = "shadow"
=============================================================================
