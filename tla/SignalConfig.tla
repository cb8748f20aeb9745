---------------------------- MODULE SignalConfig ----------------------------
(* The reading of the signal configuration (signal_extractor_config and its
   parsers in src/signallogger/signal_extractor.c).  GMarkup finds the elements
   of the document, which are properly nested, and calls the functions of the
   parser that was pushed last; the document may end anywhere, since
   g_markup_parse_context_end_parse is not called.

   A trace is its source and destination, a signal its id.  Attributes are good
   or not; of the text of a label only that there is one matters.  Definitions
   named after another one (NextTraceKept, ...) are that definition with a
   plausible mistake, used to show that a property depends on the code.     *)
EXTENDS Integers, SequencesExt

CONSTANTS
    Keys, Ids,      \* the addresses and ids that a document may have
    MaxSignals,     \* bound: signal elements in a trace element
    MaxTraces,      \* bound: trace elements in a document
    MaxDepth        \* bound: elements in one another

ASSUME ConfigAssumption == {MaxSignals, MaxTraces, MaxDepth} \subseteq Nat

NoTrace == "no trace"

ASSUME KeysAssumption == NoTrace \notin Keys

VARIABLES
    status,         \* "parsing", or how signal_extractor_config has ended
    open,           \* the elements that are open, outermost first
    traces,         \* se->traces: the signals of each trace, the last one first
    trace,          \* the addresses of state->trace
    building,       \* is state->signal, the first of the trace, not NULL?
    text,           \* state->text: is a text being collected?
    elements,       \* history: the addresses of the trace elements
    declared        \* history: the ids of the signal elements in each of them

state == <<trace, building, text>>
document == <<elements, declared>>
configVars == <<status, open, traces, state, document>>

(* g_new(SignalFilter, 1): without a label and, as offset, -1. *)
NewSignal(id) == [id |-> id, label |-> FALSE, mask |-> FALSE]

ConfigInit ==
    /\ status = "parsing"
    /\ open = <<>> /\ traces = <<>>
    /\ trace = NoTrace /\ building = FALSE /\ text = FALSE
    /\ elements = <<>> /\ declared = <<>>

Parsing == status = "parsing"
Enter(element) == Len(open) < MaxDepth /\ open' = Append(open, element)
Leave == open' = Front(open)

List == <<"signal-list">>
Trace == <<"signal-list", "trace">>
InSignal == Parsing /\ Len(open) >= 3

(* The signal that is being read, and the traces with another one for it. *)
Current == Head(traces[trace])
Become(s) == traces' = [traces EXCEPT ![trace] = <<s>> \o Tail(@)]

(* An unknown element, a bad attribute, or a read that fails: no more is read,
   and config returns FALSE. *)
Fail == status' = "failed" /\ text' = FALSE

Bad ==
    /\ Parsing /\ Fail
    /\ UNCHANGED <<open, traces, trace, building, document>>

-----------------------------------------------------------------------------
StartList ==
    /\ Parsing /\ open = <<>>
    /\ Enter("signal-list")
    /\ UNCHANGED <<status, traces, state, document>>

(* g_tree_insert destroys a trace with the same addresses. *)
StartTrace ==
    /\ Parsing /\ open = List /\ Len(elements) < MaxTraces
    /\ Enter("trace")
    /\ \E key \in Keys :
          /\ trace' = key
          /\ traces' = [k \in DOMAIN traces \cup {key} |-> IF k = key THEN <<>> ELSE traces[k]]
          /\ elements' = Append(elements, key)
    /\ declared' = Append(declared, <<>>)
    /\ UNCHANGED <<status, building, text>>

(* The new signal becomes the first of its trace. *)
PrependAlone(s, list) == <<s>>
Prepend(s, list) == <<s>> \o list
StartSignal ==
    /\ Parsing /\ open = Trace /\ Len(Last(declared)) < MaxSignals
    /\ Enter("signal")
    /\ \E id \in Ids :
          /\ traces' = [traces EXCEPT ![trace] = Prepend(NewSignal(id), @)]
          /\ declared' = [declared EXCEPT ![Len(elements)] = Append(@, id)]
    /\ building' = TRUE
    /\ UNCHANGED <<status, trace, text, elements>>

(* The elements of a signal, in the signal itself or in one another. *)
StartLabel ==
    /\ InSignal
    /\ IF Current.label THEN Fail /\ UNCHANGED open
       ELSE Enter("label") /\ text' = TRUE /\ UNCHANGED status
    /\ UNCHANGED <<traces, trace, building, document>>

(* The offset is negative for a number that does not fit in a gint. *)
StartMask ==
    /\ InSignal
    /\ Enter("mask")
    /\ \E fits \in BOOLEAN : Become([Current EXCEPT !.mask = fits])
    /\ UNCHANGED <<status, state, document>>

StartType ==
    /\ InSignal
    /\ Enter("type")
    /\ UNCHANGED <<status, traces, state, document>>

-----------------------------------------------------------------------------
(* signal_end: a label is what has been collected, if anything has. *)
LabelEnds == FALSE
EndInSignal ==
    /\ Parsing /\ Len(open) > 3
    /\ Leave
    /\ IF Last(open) = "label" THEN Become([Current EXCEPT !.label = text]) /\ text' = LabelEnds
       ELSE UNCHANGED <<traces, text>>
    /\ UNCHANGED <<status, trace, building, document>>

(* trace_end: the id serves as label; a mask there must be. *)
MissingNothing == FALSE
MissingMask == ~Current.mask
EndSignal ==
    /\ Parsing /\ Len(open) = 3
    /\ Leave
    /\ Become([Current EXCEPT !.label = TRUE])
    /\ IF MissingMask THEN Fail /\ UNCHANGED building
       ELSE building' = FALSE /\ UNCHANGED <<status, text>>
    /\ UNCHANGED <<trace, document>>

(* signal_list_end and document_end. *)
NextTraceKept == trace
NextTrace == NoTrace
EndTrace ==
    /\ Parsing /\ open = Trace
    /\ Leave
    /\ trace' = NextTrace
    /\ UNCHANGED <<status, traces, building, text, document>>

EndList ==
    /\ Parsing /\ open = List
    /\ Leave
    /\ UNCHANGED <<status, traces, state, document>>

(* The end of the document, wherever it is: text must be NULL then. *)
EndOfFile ==
    /\ Parsing
    /\ status' = IF text THEN "aborted" ELSE "ok"
    /\ UNCHANGED <<open, traces, state, document>>

-----------------------------------------------------------------------------
ConfigNext ==
    \/ Bad \/ StartList \/ StartTrace \/ StartSignal
    \/ StartLabel \/ StartMask \/ StartType
    \/ EndInSignal \/ EndSignal \/ EndTrace \/ EndList \/ EndOfFile

ConfigSpec == ConfigInit /\ [][ConfigNext]_configVars

-----------------------------------------------------------------------------
(* The assertions of signal_list_start and trace_start: when a trace may begin
   there is none, and when a signal may begin there is none but a trace. *)
AssertionsHold ==
    /\ Parsing /\ open = List => trace = NoTrace
    /\ Parsing /\ open = Trace => trace # NoTrace /\ ~building

(* A document that is complete gives signals that can be extracted and shown. *)
ConfigComplete ==
    status = "ok" /\ open = <<>> =>
        \A k \in DOMAIN traces : \A s \in ToSet(traces[k]) : s.label /\ s.mask

(* The signals of a trace are those of the last element with its addresses, in
   reverse: none is lost between the elements of the document and the tree. *)
LastElement(k) == CHOOSE n \in DOMAIN elements :
    elements[n] = k /\ \A m \in DOMAIN elements : elements[m] = k => m <= n
TracesDeclared ==
    /\ DOMAIN traces = ToSet(elements)
    /\ \A k \in DOMAIN traces :
          [n \in DOMAIN traces[k] |-> traces[k][n].id] = Reverse(declared[LastElement(k)])
=============================================================================
