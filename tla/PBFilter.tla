------------------------------ MODULE PBFilter ------------------------------
(* The packet filter of pblog's --filter option (src/sniffer/pbfilter.c,
   "Don't log repeated packets").  It remembers, for each key of addresses and
   SAPs, the last request and its response, and passes an exchange on only
   when one of the two has changed.  A response is known by the request just
   before it, so that a request that was held back is passed on late, together
   with the response that changed.

   pb_filter_input handles one packet at a time; its cases are the actions.
   Frames are records of the fields the code compares; the start delimiter,
   the length and the PDU are one value, pdu.  The packets passed on are kept
   in out, with their timestamps and the key they are filed under.          *)
EXTENDS Integers, Sequences

CONSTANTS
    Frames,     \* the frames that may appear on the bus
    MaxInputs   \* bound on the number of frames received

NoSap == 255                                        \* NO_SAP
NoKey == [src |-> 255, ssap |-> 255, dst |-> 255, dsap |-> 255]     \* NO_KEY

Kinds == {"token", "ack", "short", "request", "response"}

(* Only a request has an alternating bit; in a response these bits are the
   station type, which is compared and belongs to pdu. *)
ASSUME FramesAssumption ==
    \A f \in Frames :
        /\ f.kind \in Kinds
        /\ f.src \in 0..127 /\ f.dst \in 0..127
        /\ f.ssap \in (0..63) \cup {NoSap} /\ f.dsap \in (0..63) \cup {NoSap}
        /\ f.fc \in 0..15 /\ f.alt \in BOOLEAN
        /\ f.kind # "request" => ~f.alt
        /\ f = [kind |-> f.kind, src |-> f.src, dst |-> f.dst, ssap |-> f.ssap,
                dsap |-> f.dsap, fc |-> f.fc, alt |-> f.alt, pdu |-> f.pdu]

ASSUME InputsAssumption == MaxInputs \in Nat

(* get_key.  A request without SAPs is told apart by its function code; the
   fields of a response are reversed, so that it has the key of its request. *)
KeyOf(f) ==
    CASE f.kind = "request" /\ (f.ssap # NoSap \/ f.dsap # NoSap) ->
             [src |-> f.src, ssap |-> f.ssap, dst |-> f.dst, dsap |-> f.dsap]
      [] f.kind = "request" /\ ~(f.ssap # NoSap \/ f.dsap # NoSap) ->
             [src |-> f.src, ssap |-> 128 + f.fc, dst |-> f.dst, dsap |-> NoSap]
      [] OTHER ->
             [src |-> f.dst, ssap |-> f.dsap, dst |-> f.src, dsap |-> f.ssap]

HasKey(f) == f.kind \in {"request", "response"}
Keys == {KeyOf(f) : f \in {g \in Frames : HasKey(g)}}

(* The pdu of an SD2 telegram with fewer than three data bytes, which the framer
   lets pass.  Its function code is its checksum, its end delimiter or the byte
   behind it, so that it may be a request or a response.  packets_equal takes
   the size -1 to -3 for a huge one and reads on until it finds a difference, or
   until the program crashes, which is a behaviour that ends there. *)
Stub == "stub"

(* A NULL packet. *)
NoFrame == [kind |-> "none", src |-> 0, dst |-> 0, ssap |-> NoSap, dsap |-> NoSap,
            fc |-> 0, alt |-> FALSE, pdu |-> "none"]
None == [frame |-> NoFrame, ts |-> 0, key |-> NoKey]

VARIABLES
    trans,          \* filter->transactions
    lastReqKey,     \* filter->last_req_key
    lastReqOutput,  \* filter->last_req_output
    out,            \* what the output callback has been given
    now             \* the number of frames received, their timestamp

filterVars == <<trans, lastReqKey, lastReqOutput, out, now>>

Packet(f, k) == [frame |-> f, ts |-> now', key |-> k]

FilterInit ==
    /\ trans = [k \in Keys |-> [request |-> None, response |-> None]]
    /\ lastReqKey = NoKey
    /\ lastReqOutput = FALSE
    /\ out = <<>>
    /\ now = 0

(* packets_equal: everything but the timestamp, and for a request the
   alternating bit. *)
EqualWithAlt(p, f) == p # None /\ p.frame = f
Equal(p, f) ==
    /\ p # None /\ f.pdu # Stub
    /\ \/ p.frame = f
       \/ f.kind = "request" /\ [p.frame EXCEPT !.alt = f.alt] = f

AddressEq(k, l) == k.src = l.src /\ k.dst = l.dst      \* KEY_ADDRESS_EQ
KeyNoSap(k) == k.ssap = NoSap /\ k.dsap = NoSap         \* KEY_NO_SAP

(* A response without SAPs is taken for the answer to the last request between
   its addresses. *)
MatchKey(f) ==
    IF KeyNoSap(KeyOf(f)) /\ AddressEq(KeyOf(f), lastReqKey) THEN lastReqKey ELSE KeyOf(f)

Tick == now < MaxInputs /\ now' = now + 1

-----------------------------------------------------------------------------
(* SD4, and frames too short for their address extensions: nothing changes. *)
Ignored(f) ==
    /\ f.kind \in {"token", "short"}
    /\ Tick
    /\ UNCHANGED <<trans, lastReqKey, lastReqOutput, out>>

(* set_request: the stored request becomes this one, whether it differs or
   only its alternating bit and timestamp do. *)
SetRequestKeepTime(f, k) ==
    trans' = [trans EXCEPT ![k].request =
                IF @ # None /\ Equal(@, f) THEN [@ EXCEPT !.frame = f] ELSE Packet(f, k)]
SetRequest(f, k) == trans' = [trans EXCEPT ![k].request = Packet(f, k)]

(* A new request ends the wait for the response to the one before. *)
ReqOutputKept(changed) == lastReqOutput' = (lastReqOutput \/ changed)
ReqOutput(changed) == lastReqOutput' = changed

Request(f) ==
    /\ f.kind = "request"
    /\ Tick
    /\ LET k == MatchKey(f)
           changed == ~Equal(trans[k].request, f)
       IN  /\ SetRequest(f, k)
           /\ out' = IF changed THEN Append(out, Packet(f, k)) ELSE out
           /\ ReqOutput(changed)
           /\ lastReqKey' = k

(* The log after response p to the request of key k: the request is passed on
   with it if it was held back. *)
AnswerIfRequested(p, k, changed) ==
    IF lastReqOutput THEN Append(out, p) ELSE out
Answer(p, k, changed) ==
    CASE lastReqOutput -> Append(out, p)
      [] changed /\ ~lastReqOutput -> Append(Append(out, trans[k].request), p)
      [] ~changed /\ ~lastReqOutput -> out

(* A response, SD1 to SD3 or SC, to the request of key lastReqKey: it is
   filed, and passed on if it has changed or its request was passed on. *)
Accept(f) ==
    LET k == lastReqKey
        p == Packet(f, k)
        changed == ~Equal(trans[k].response, f)
    IN  /\ trans' = [trans EXCEPT ![k].response = p]
        /\ out' = Answer(p, k, changed)
        /\ lastReqOutput' = FALSE
        /\ lastReqKey' = NoKey

Response(f) ==
    /\ f.kind = "response"
    /\ MatchKey(f) = lastReqKey /\ trans[lastReqKey].request # None
    /\ Tick
    /\ Accept(f)

(* A response that does not match the last request is dropped, and the next
   one cannot match that request either. *)
ResponseMismatch(f) ==
    /\ f.kind = "response"
    /\ MatchKey(f) # lastReqKey
    /\ Tick
    /\ lastReqKey' = NoKey
    /\ UNCHANGED <<trans, lastReqOutput, out>>

Ack(f) ==
    /\ f.kind = "ack"
    /\ lastReqKey # NoKey /\ trans[lastReqKey].request # None
    /\ Tick
    /\ Accept(f)

AckUnexpected(f) ==
    /\ f.kind = "ack"
    /\ lastReqKey = NoKey
    /\ Tick
    /\ UNCHANGED <<trans, lastReqKey, lastReqOutput, out>>

FilterNext == \E f \in Frames :
    Ignored(f) \/ Request(f) \/ Response(f) \/ ResponseMismatch(f) \/ Ack(f) \/ AckUnexpected(f)

FilterSpec == FilterInit /\ [][FilterNext]_filterVars

-----------------------------------------------------------------------------
Packets == [frame : Frames, ts : 1..MaxInputs, key : Keys]

(* Every variable has its type; last_req_key is always the key of a known
   transaction, so that the lookups of its responses cannot fail. *)
FilterTypeOK ==
    /\ trans \in [Keys -> [request : Packets \cup {None}, response : Packets \cup {None}]]
    /\ lastReqKey \in Keys \cup {NoKey}
    /\ lastReqKey # NoKey => trans[lastReqKey].request # None
    /\ lastReqOutput \in BOOLEAN
    /\ out \in Seq(Packets)
    /\ now \in 0..MaxInputs

IsRequest(p) == p.frame.kind = "request"

(* Every response in the log stands directly after the request it answers. *)
ResponseAfterRequest ==
    \A i \in 1..Len(out) :
        ~IsRequest(out[i]) => /\ i > 1
                              /\ IsRequest(out[i - 1])
                              /\ out[i - 1].key = out[i].key

(* The timestamps in the log never decrease, although a request may be passed
   on late. *)
OutputInOrder ==
    \A i, j \in 1..Len(out) : i < j => out[i].ts <= out[j].ts

(* p differs from q at most in time and the alternating bit. *)
Alike(p, q) == [p.frame EXCEPT !.alt = FALSE] = [q.frame EXCEPT !.alt = FALSE]

(* q is of the same key and direction as p. *)
SamePlace(q, p) == q.key = p.key /\ IsRequest(q) = IsRequest(p)

(* p is like the last packet of its key and direction in the log. *)
LastLogged(p, log) ==
    \E i \in 1..Len(log) :
        /\ SamePlace(log[i], p) /\ Alike(log[i], p)
        /\ \A j \in (i + 1)..Len(log) : ~SamePlace(log[j], p)

(* Nothing that changed is missing from the log: for every key the last
   request and the last response logged are like the last ones on the bus. *)
LogComplete ==
    \A k \in Keys :
        /\ trans[k].request # None => LastLogged(trans[k].request, out)
        /\ trans[k].response # None => LastLogged(trans[k].response, out)

(* The answer logged with the request at i, if there is one. *)
LoggedAnswer(i) ==
    IF i < Len(out) /\ ~IsRequest(out[i + 1]) THEN <<[out[i + 1].frame EXCEPT !.alt = FALSE]>>
    ELSE <<>>

(* Is all of the exchange at i compared by what it is? *)
Whole(i) ==
    /\ out[i].frame.pdu # Stub
    /\ i < Len(out) => IsRequest(out[i + 1]) \/ out[i + 1].frame.pdu # Stub

(* "Don't log repeated packets": two consecutive exchanges of one key in the
   log differ in the request or in the response. *)
NoRepeat ==
    \A i, j \in 1..Len(out) :
        ( /\ i < j /\ IsRequest(out[i]) /\ IsRequest(out[j]) /\ out[i].key = out[j].key
          /\ \A l \in (i + 1)..(j - 1) : ~(IsRequest(out[l]) /\ out[l].key = out[i].key)
          /\ Whole(i) /\ Whole(j) )
        => ~Alike(out[i], out[j]) \/ LoggedAnswer(i) # LoggedAnswer(j)
=============================================================================
