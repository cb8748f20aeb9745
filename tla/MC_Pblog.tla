------------------------------ MODULE MC_Pblog ------------------------------
(* A small bus for Pblog: master 1 polls slave 2, without SAPs and with SAPs.
   Slave 2 may leave the SAPs out of its response, a response may be slave 3's,
   and one is too short to be compared.                                     *)
EXTENDS Pblog

Frame(kind, src, dst, ssap, dsap, alt, pdu) ==
    [kind |-> kind, src |-> src, dst |-> dst, ssap |-> ssap, dsap |-> dsap,
     fc |-> 12, alt |-> alt, pdu |-> pdu]

MCFrames ==
    { Frame(kind, 0, 0, NoSap, NoSap, FALSE, "none") : kind \in {"token", "ack"} }
    \cup { Frame("request", 1, 2, NoSap, NoSap, alt, "a") : alt \in BOOLEAN }
    \cup { Frame("request", 1, 2, 62, 60, FALSE, "a") }
    \cup { Frame("response", 2, 1, NoSap, NoSap, FALSE, pdu) : pdu \in {"a", "b", Stub} }
    \cup { Frame("response", 2, 1, 60, 62, FALSE, "a") }
    \cup { Frame("response", 3, 1, NoSap, NoSap, FALSE, "a") }
=============================================================================
