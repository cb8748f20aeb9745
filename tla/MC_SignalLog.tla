---------------------------- MODULE MC_SignalLog ----------------------------
(* signallogger's parts on small instances: the reading of a configuration, the
   values of signals under all masks, and the log.  A behaviour is of one of
   them, while the others have nothing to do.

   The archives for SignalLog have two files that follow one another and one
   after a gap; the packets of one trace with two signals and of another that is
   not configured.                                                          *)
EXTENDS SignalLog, SignalConfig, SignalMask

At(time, contents) == [time |-> time, values |-> contents]

(* From a time on: the last packet of the first file comes in time or after its
   end, and the second file may be empty. *)
Archive(t, late, c, second) ==
    <<[start |-> t, end |-> t + 4, packets |-> <<At(t + 1, c[1]), At(t + late, c[2])>>],
      [start |-> t + 4, end |-> t + 8, packets |-> second],
      [start |-> t + 10, end |-> t + 14,
       packets |-> <<At(t + 11, c[3]), At(t + 14, [a |-> 1])>>]>>

(* Every course of one signal, and some of two. *)
Alone(v) == [a |-> v]
One == {Archive(0, late, <<Alone(0), Alone(v), Alone(w)>>, <<At(6, Alone(x))>>) :
            late \in {3, 5}, v, w, x \in {0, 1}}
NoPacket == {Archive(0, 3, <<Alone(v), Alone(1), Alone(v)>>, <<>>) : v \in {0, 1}}
Two == {Archive(0, late, <<[a |-> 0, b |-> 0], [a |-> 1, b |-> 0], <<>>>>, <<At(6, [a |-> 1, b |-> 1])>>) :
            late \in {3, 5}}

(* The second file begins with a packet that the filter held back until then: a
   request, which is held back only when it repeats the one logged before it. *)
Early == {Archive(0, 2, <<Alone(0), Alone(v), Alone(1)>>, <<At(3, Alone(v)), At(6, Alone(w))>>) :
            v, w \in {0, 1}}

(* Times of which range_cmp takes the last for the first. *)
Swapped == {Archive(8, 3, <<Alone(0), Alone(v), Alone(1)>>, <<At(14, Alone(1))>>) : v \in {0, 1}}

MCArchives == One \cup NoPacket \cup Two \cup Early \cup Swapped

(* Bounds given or not; one signal, all of them, or what is refused. *)
MCRequests ==
    [start : {<<>>, <<-2>>, <<2>>}, end : {<<>>, <<7>>, <<14>>}, min : {<<>>, <<3>>},
     signals : {<<"a">>, <<Star>>}, bad : {{}}]
    \cup [start : {<<>>}, end : {<<7>>}, min : {<<>>, <<-1>>},
          signals : {<<>>, <<"a", "b">>, <<"a", Star>>}, bad : {{}, {"table"}}]

(* Blocks of four bytes of three bits. *)
MCBlocks == [1..4 -> {0, 1, 2, 5, 7}]
MCMasks == {m \in [offset : 0..11, width : 1..WordBits, signed : BOOLEAN] :
    m.offset + m.width <= 12}

NoLog == Init /\ archive \in Swapped /\ archive[1].packets[2].values = Alone(0)
NoMask == block = <<>> /\ mask = <<>> /\ stage = "none" /\ next = 0 /\ value = 0
NoConfig ==
    /\ status = "ok" /\ open = <<>> /\ traces = <<>>
    /\ trace = NoTrace /\ building = FALSE /\ text = FALSE
    /\ elements = <<>> /\ declared = <<>>

MCInit ==
    \/ Init /\ NoConfig /\ NoMask
    \/ ConfigInit /\ NoLog /\ NoMask
    \/ MaskInit /\ NoLog /\ NoConfig

(* The log goes on only in its own behaviours, where nothing is configured and
   no mask is applied. *)
MCNext ==
    \/ Next /\ NoConfig /\ NoMask /\ UNCHANGED <<configVars, maskVars>>
    \/ ConfigNext /\ UNCHANGED <<vars, maskVars>>
    \/ MaskNext /\ UNCHANGED <<vars, configVars>>

MCSpec == MCInit /\ [][MCNext]_<<vars, configVars, maskVars>>
=============================================================================
