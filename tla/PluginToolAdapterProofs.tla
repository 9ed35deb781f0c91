----------------------- MODULE PluginToolAdapterProofs -----------------------
(***************************************************************************)
(* Proofs about PluginToolAdapter, for any callers and any number of tries *)
(* of each.  What they rest on is which clause takes an exception: the     *)
(* first, and for a ProviderResultUnknown that is its own.                 *)
(***************************************************************************)
EXTENDS PluginToolAdapter, TLAPS

----------------------------------------------------------------------------
(* Clauses *)

LEMMA ClausesLength == Len(Clauses) = 15
    BY DEF Clauses

\* Some clause comes first among those that take an exception.
LEMMA FirstExists ==
    ASSUME NEW T \in SUBSET (1..15), T # {}
    PROVE  \E n \in T : \A m \in T : n =< m
<1> SUFFICES ASSUME \A n \in T : \E m \in T : m < n PROVE FALSE
    OBVIOUS
<1>1. 1 \notin T
    OBVIOUS
<1>2. 2 \notin T
    BY <1>1
<1>3. 3 \notin T
    BY <1>1, <1>2
<1>4. 4 \notin T
    BY <1>1, <1>2, <1>3
<1>5. 5 \notin T
    BY <1>1, <1>2, <1>3, <1>4
<1>6. 6 \notin T
    BY <1>1, <1>2, <1>3, <1>4, <1>5
<1>7. 7 \notin T
    BY <1>1, <1>2, <1>3, <1>4, <1>5, <1>6
<1>8. 8 \notin T
    BY <1>1, <1>2, <1>3, <1>4, <1>5, <1>6, <1>7
<1>9. 9 \notin T
    BY <1>1, <1>2, <1>3, <1>4, <1>5, <1>6, <1>7, <1>8
<1>10. 10 \notin T
    BY <1>1, <1>2, <1>3, <1>4, <1>5, <1>6, <1>7, <1>8, <1>9
<1>11. 11 \notin T
    BY <1>1, <1>2, <1>3, <1>4, <1>5, <1>6, <1>7, <1>8, <1>9,
       <1>10
<1>12. 12 \notin T
    BY <1>1, <1>2, <1>3, <1>4, <1>5, <1>6, <1>7, <1>8, <1>9,
       <1>10, <1>11
<1>13. 13 \notin T
    BY <1>1, <1>2, <1>3, <1>4, <1>5, <1>6, <1>7, <1>8, <1>9,
       <1>10, <1>11, <1>12
<1>14. 14 \notin T
    BY <1>1, <1>2, <1>3, <1>4, <1>5, <1>6, <1>7, <1>8, <1>9,
       <1>10, <1>11, <1>12, <1>13
<1>15. 15 \notin T
    BY <1>1, <1>2, <1>3, <1>4, <1>5, <1>6, <1>7, <1>8, <1>9,
       <1>10, <1>11, <1>12, <1>13, <1>14
<1>16. \A n \in 1..15 :
          n \in {1, 2, 3, 4, 5, 6, 7, 8, 9, 10, 11, 12, 13, 14, 15}
    OBVIOUS
<1>17. PICK n \in T : n \in 1..15
    OBVIOUS
<1> QED
    BY <1>17, <1>1, <1>2, <1>3, <1>4, <1>5, <1>6, <1>7, <1>8, <1>9,
       <1>10, <1>11, <1>12, <1>13, <1>14, <1>15, <1>16

\* Whatever a tool raises, some clause takes it.
LEMMA ClauseTyped ==
    ASSUME NEW e \in Exceptions
    PROVE  Clause(e)[1] \in Classes /\ Clause(e)[2] \in Codes
<1> DEFINE takes == {n \in 1..Len(Clauses) : Clauses[n][1] \in e}
           n == CHOOSE n \in takes : \A m \in takes : n =< m
<1>1. "Exception" \in e
    BY DEF Exceptions, PluginErrors
<1>2. Clauses[15] = <<"Exception", "INTERNAL_ERROR">>
    BY DEF Clauses
<1>3. takes \in SUBSET (1..15) /\ 15 \in takes
    BY <1>1, <1>2, ClausesLength
<1>4. \E k \in takes : \A m \in takes : k =< m
    BY <1>3, FirstExists
<1>5. n \in takes
    BY <1>4
<1>6. Clause(e) = Clauses[n]
    BY DEF Clause
<1> QED BY <1>5, <1>6 DEF Classes, Codes

\* A ProviderResultUnknown is told from all other errors, be it a ProviderError or
\* not.
LEMMA UnknownIsAmbiguous ==
    ASSUME NEW e \in Exceptions, "ProviderResultUnknown" \in e
    PROVE  Clause(e)[2] = "AMBIGUOUS_RESULT"
<1> DEFINE takes == {n \in 1..Len(Clauses) : Clauses[n][1] \in e}
<1>1. \E p \in {{}, {"ProviderError"}} :
          e = {"ProviderResultUnknown", "DramaPluginError", "Exception"} \cup p
    BY DEF Exceptions, PluginErrors
<1>2. \A n \in 1..7 : Clauses[n][1] \notin e
    <2>1. \A c \in e : c \in {"ProviderResultUnknown", "DramaPluginError",
                             "Exception", "ProviderError"}
        BY <1>1
    <2>2. Clauses[1][1] = "ToolNotFoundError"
        BY DEF Clauses
    <2>3. Clauses[2][1] = "ArgumentError"
        BY DEF Clauses
    <2>4. Clauses[3][1] = "RemoteServiceError"
        BY DEF Clauses
    <2>5. Clauses[4][1] = "ConfigurationError"
        BY DEF Clauses
    <2>6. Clauses[5][1] = "ContractValidationError"
        BY DEF Clauses
    <2>7. Clauses[6][1] = "RhythmAuthorityConflict"
        BY DEF Clauses
    <2>8. Clauses[7][1] = "ContextBuildError"
        BY DEF Clauses
    <2>9. \A n \in 1..7 : n \in {1, 2, 3, 4, 5, 6, 7}
        OBVIOUS
    <2> QED BY <2>1, <2>2, <2>3, <2>4, <2>5, <2>6, <2>7, <2>8, <2>9
<1>3. Clauses[8] = <<"ProviderResultUnknown", "AMBIGUOUS_RESULT">>
    BY DEF Clauses
<1>4. 8 \in takes
    BY <1>3, ClausesLength
<1>5. \A m \in takes : 8 =< m
    BY <1>2, ClausesLength
<1>6. (CHOOSE n \in takes : \A m \in takes : n =< m) = 8
    <2>1. \A n \in takes : (\A m \in takes : n =< m) => n = 8
        BY <1>4, <1>5, ClausesLength
    <2> QED BY <1>4, <1>5, <2>1
<1>7. Clause(e) = Clauses[8]
    BY <1>6 DEF Clause
<1> QED BY <1>3, <1>7

----------------------------------------------------------------------------
(* The inductive invariant *)

\* Before a tool runs, no more is paid than was tried before.
TriesInv ==
    \A c \in Call :
        /\ paid[c] =< tries[c]
        /\ pc[c] \in {"get", "validate", "coerce", "invoke"} =>
                paid[c] < tries[c]

\* Where a call is tells whether its work may have been paid for, and if so
\* whether the caller will hear that it must not try again, unless what the tool
\* returned was spoiled.
PaidInv ==
    \A c \in Truthful \ spoiled :
        /\ paid[c] =< 1
        /\ pc[c] \in {"get", "validate", "coerce", "invoke"} => paid[c] = 0
        /\ pc[c] = "render" => result[c] = "json"
        /\ pc[c] = "raised" /\ paid[c] = 1 =>
                "ProviderResultUnknown" \in raised[c]
        /\ pc[c] = "answered" /\ paid[c] = 1 =>
                answer[c].code \in {"OK", "AMBIGUOUS_RESULT"}

RaisedInv == \A c \in Call : pc[c] = "raised" => raised[c] # {}

IInv == TypeOK /\ TriesInv /\ RaisedInv /\ PaidInv

LEMMA InitIInv == Init => IInv
<1> SUFFICES ASSUME Init PROVE IInv
    OBVIOUS
<1>1. TypeOK
    BY ConstantsAssumption DEF Init, TypeOK
<1>2. TriesInv /\ RaisedInv
    BY DEF Init, TriesInv, RaisedInv
<1>3. PaidInv
    BY ConstantsAssumption DEF Init, PaidInv
<1> QED BY <1>1, <1>2, <1>3 DEF IInv

\* The exceptions call_tool raises itself are among those a tool may raise.
LEMMA OwnExceptions ==
    /\ {"ToolNotFoundError", "DramaPluginError", "Exception"} \in Exceptions
    /\ {"ArgumentError", "Exception"} \in Exceptions
    /\ \A e \in Exceptions : e # {}
    /\ [clause |-> "none", code |-> "OK"] \in [clause : Classes, code : Codes]
    BY DEF Exceptions, PluginErrors, Classes, Codes

LEMMA StepTypeOK == ASSUME IInv, Next PROVE TypeOK'
<1> USE ConstantsAssumption DEF IInv, TypeOK, TriesInv, RaisedInv
<1>1. ASSUME NEW c \in Call, CallTool(c) PROVE TypeOK'
    <2>1. CASE Get(c)
        BY <2>1, OwnExceptions DEF Get, Proceed, Raise
    <2>2. CASE Validate(c)
        BY <2>2, OwnExceptions DEF Validate, Proceed, Raise
    <2>3. CASE Coerce(c)
        BY <2>3, OwnExceptions DEF Coerce, Proceed, Raise
    <2>4. CASE ToolReturns(c)
        BY <2>4 DEF ToolReturns, Proceed, Raise
    <2>5. CASE ToolRaises(c)
        BY <2>5 DEF ToolRaises, Proceed, Raise
    <2>6. CASE Cancel(c)
        BY <2>6 DEF Cancel, Proceed, Raise
    <2>7. CASE Render(c)
        <3>1. CASE /\ Answered(c, "none", "OK")
                   /\ UNCHANGED raised
            <4>1. answer' \in [Call -> [clause : Classes, code : Codes] \cup {None}]
                BY <3>1, OwnExceptions DEF Answered
            <4>2. pc' = [pc EXCEPT ![c] = "answered"]
                BY <3>1 DEF Answered
            <4> QED BY <2>7, <3>1, <4>1, <4>2 DEF Render
        <3>2. CASE /\ Raise(c, {"ArgumentError", "Exception"})
                   /\ UNCHANGED answer
            BY <2>7, <3>2, OwnExceptions DEF Render, Raise
        <3> QED BY <2>7, <3>1, <3>2 DEF Render
    <2>8. CASE Except(c)
        BY <2>8, ClauseTyped DEF Except, Proceed, Raise, Answered
    <2> QED BY <1>1, <2>1, <2>2, <2>3, <2>4, <2>5, <2>6, <2>7, <2>8
            DEF CallTool
<1>2. ASSUME NEW c \in Call, Retry(c) PROVE TypeOK'
    BY <1>2 DEF Retry
<1> QED BY <1>1, <1>2 DEF Next

LEMMA StepTriesInv == ASSUME IInv, Next PROVE TriesInv'
<1> USE ConstantsAssumption DEF IInv, TypeOK, TriesInv
<1>1. ASSUME NEW c \in Call, CallTool(c) PROVE TriesInv'
    <2>1. CASE Get(c)
        BY <2>1 DEF Get, Proceed, Raise
    <2>2. CASE Validate(c)
        BY <2>2 DEF Validate, Proceed, Raise
    <2>3. CASE Coerce(c)
        BY <2>3 DEF Coerce, Proceed, Raise
    <2>4. CASE ToolReturns(c)
        BY <2>4 DEF ToolReturns, Proceed, Raise
    <2>5. CASE ToolRaises(c)
        BY <2>5 DEF ToolRaises, Proceed, Raise
    <2>6. CASE Cancel(c)
        BY <2>6 DEF Cancel, Proceed, Raise
    <2>7. CASE Render(c)
        BY <2>7 DEF Render, Proceed, Raise, Answered
    <2>8. CASE Except(c)
        BY <2>8 DEF Except, Proceed, Raise, Answered
    <2> QED BY <1>1, <2>1, <2>2, <2>3, <2>4, <2>5, <2>6, <2>7, <2>8
            DEF CallTool
<1>2. ASSUME NEW c \in Call, Retry(c) PROVE TriesInv'
    BY <1>2 DEF Retry
<1> QED BY <1>1, <1>2 DEF Next

LEMMA StepRaisedInv == ASSUME IInv, Next PROVE RaisedInv'
<1> USE ConstantsAssumption DEF IInv, TypeOK, RaisedInv
<1>1. ASSUME NEW c \in Call, CallTool(c) PROVE RaisedInv'
    <2>1. CASE Get(c)
        <3>1. CASE tool[c] = "known"
            BY <2>1, <3>1 DEF Get, Proceed
        <3>2. CASE tool[c] # "known"
            BY <2>1, <3>2 DEF Get, Raise
        <3> QED BY <3>1, <3>2
    <2>2. CASE Validate(c)
        BY <2>2, OwnExceptions DEF Validate, Proceed, Raise
    <2>3. CASE Coerce(c)
        BY <2>3, OwnExceptions DEF Coerce, Proceed, Raise
    <2>4. CASE ToolReturns(c)
        BY <2>4 DEF ToolReturns, Proceed, Raise
    <2>5. CASE ToolRaises(c)
        BY <2>5, OwnExceptions DEF ToolRaises, Proceed, Raise
    <2>6. CASE Cancel(c)
        BY <2>6 DEF Cancel, Proceed, Raise
    <2>7. CASE Render(c)
        BY <2>7, OwnExceptions DEF Render, Proceed, Raise, Answered
    <2>8. CASE Except(c)
        BY <2>8 DEF Except, Proceed, Raise, Answered
    <2> QED BY <1>1, <2>1, <2>2, <2>3, <2>4, <2>5, <2>6, <2>7, <2>8
            DEF CallTool
<1>2. ASSUME NEW c \in Call, Retry(c) PROVE RaisedInv'
    BY <1>2 DEF Retry
<1> QED BY <1>1, <1>2 DEF Next

LEMMA StepPaidInv == ASSUME IInv, Next PROVE PaidInv'
<1> USE ConstantsAssumption DEF IInv, TypeOK, PaidInv, RaisedInv
<1>1. ASSUME NEW c \in Call, CallTool(c) PROVE PaidInv'
    <2>1. CASE Get(c)
        BY <2>1 DEF Get, Proceed, Raise
    <2>2. CASE Validate(c)
        BY <2>2 DEF Validate, Proceed, Raise
    <2>3. CASE Coerce(c)
        BY <2>3 DEF Coerce, Proceed, Raise
    <2>4. CASE ToolReturns(c)
        BY <2>4 DEF ToolReturns, Proceed, Raise
    <2>5. CASE ToolRaises(c)
        BY <2>5 DEF ToolRaises, Proceed, Raise
    <2>6. CASE Cancel(c)
        BY <2>6 DEF Cancel, Proceed, Raise
    <2>7. CASE Render(c)
        BY <2>7 DEF Render, Proceed, Raise, Answered
    <2>8. CASE Except(c)
        BY <2>8, UnknownIsAmbiguous DEF Except, Proceed, Raise, Answered
    <2> QED BY <1>1, <2>1, <2>2, <2>3, <2>4, <2>5, <2>6, <2>7, <2>8
            DEF CallTool
<1>2. ASSUME NEW c \in Call, Retry(c) PROVE PaidInv'
    <2>1. /\ pc[c] = "answered"
          /\ answer[c].code \notin {"OK", "AMBIGUOUS_RESULT"}
          /\ pc' = [pc EXCEPT ![c] = "get"]
          /\ UNCHANGED <<raised, answer, paid, spoiled>>
          /\ \A d \in Call : d # c => result'[d] = result[d]
        BY <1>2 DEF Retry
    <2>2. c \in Truthful \ spoiled => paid[c] = 0
        <3> SUFFICES ASSUME c \in Truthful \ spoiled PROVE paid[c] = 0
            OBVIOUS
        <3>1. paid[c] # 1
            BY <2>1
        <3>2. paid[c] =< 1
            OBVIOUS
        <3>3. paid[c] \in Nat
            OBVIOUS
        <3> QED BY <3>1, <3>2, <3>3
    <2>3. \A d \in Call : pc'[d] = IF d = c THEN "get" ELSE pc[d]
        BY <2>1
    <2>4. ASSUME NEW d \in Truthful \ spoiled
          PROVE  /\ paid'[d] =< 1
                 /\ pc'[d] \in {"get", "validate", "coerce", "invoke"} => paid'[d] = 0
                 /\ pc'[d] = "render" => result'[d] = "json"
                 /\ pc'[d] = "raised" /\ paid'[d] = 1 =>
                        "ProviderResultUnknown" \in raised'[d]
                 /\ pc'[d] = "answered" /\ paid'[d] = 1 =>
                        answer'[d].code \in {"OK", "AMBIGUOUS_RESULT"}
        <3>1. CASE d = c
            BY <2>1, <2>2, <2>3, <3>1
        <3>2. CASE d # c
            BY <2>1, <2>3, <3>2
        <3> QED BY <3>1, <3>2
    <2> QED BY <2>1, <2>4
<1> QED BY <1>1, <1>2 DEF Next

----------------------------------------------------------------------------
(* The theorems *)

\* The invariant the other results rest on.
THEOREM IInvHolds == Spec => []IInv
<1>1. ASSUME IInv, [Next]_vars PROVE IInv'
    <2>1. CASE Next
        BY <1>1, <2>1, StepTypeOK, StepTriesInv, StepRaisedInv,
           StepPaidInv
           DEF IInv
    <2>2. CASE UNCHANGED vars
        BY <1>1, <2>2 DEF IInv, TypeOK, TriesInv, RaisedInv, PaidInv, vars
    <2> QED BY <1>1, <2>1, <2>2
<1> QED BY InitIInv, <1>1, PTL DEF Spec

\* Every variable keeps its type, and every exception finds its clause.
THEOREM TypeCorrect == Spec => []TypeOK
<1>1. IInv => TypeOK
    BY DEF IInv
<1> QED BY <1>1, IInvHolds, PTL

\* However often callers try again, a truthful tool's work is paid for once, unless
\* the tool returned what is not JSON: then the adapter's answer invites the caller
\* to pay again (adapter.py:88, 100-104).
THEOREM WorkIsPaidOnce == Spec => []PaidOnce
<1>1. IInv => PaidOnce
    BY DEF IInv, PaidInv, PaidOnce
<1> QED BY <1>1, IInvHolds, PTL

=============================================================================
