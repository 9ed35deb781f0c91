---------------------------- MODULE PluginCalls ----------------------------
(***************************************************************************)
(* What a caller of a Plugin tool is promised, with or without an archive: *)
(* the Plugin runs the call at most once, and what the caller gets is      *)
(* exactly what that one run produced.  A caller whose request is          *)
(* cancelled or whose server stops gets nothing.                           *)
(***************************************************************************)
EXTENDS Naturals

CONSTANTS Call, Result, None

VARIABLES
    runs,       \* how often the Plugin was asked to run each call
    outcome,    \* what the run produced
    answer      \* what the caller got

vars == <<runs, outcome, answer>>

Init ==
    /\ runs = [c \in Call |-> 0]
    /\ outcome = [c \in Call |-> None]
    /\ answer = [c \in Call |-> None]

Run(c) ==
    /\ runs[c] = 0
    /\ runs' = [runs EXCEPT ![c] = 1]
    /\ UNCHANGED <<outcome, answer>>

Finish(c) ==
    /\ runs[c] = 1 /\ outcome[c] = None
    /\ \E r \in Result : outcome' = [outcome EXCEPT ![c] = r]
    /\ UNCHANGED <<runs, answer>>

Answer(c) ==
    /\ outcome[c] # None /\ answer[c] = None
    /\ answer' = [answer EXCEPT ![c] = outcome[c]]
    /\ UNCHANGED <<runs, outcome>>

Next == \E c \in Call : Run(c) \/ Finish(c) \/ Answer(c)

Spec == Init /\ [][Next]_vars

----------------------------------------------------------------------------
\* What a caller may rely on: the Plugin is not asked twice, it produces nothing
\* unless it is asked, and what the caller got is what it produced
\* (archive_adapter.py:69-79).
Promise ==
    /\ runs \in [Call -> {0, 1}]
    /\ outcome \in [Call -> Result \cup {None}]
    /\ answer \in [Call -> Result \cup {None}]
    /\ \A c \in Call : outcome[c] # None => runs[c] = 1
    /\ \A c \in Call : answer[c] # None => answer[c] = outcome[c]

=============================================================================
