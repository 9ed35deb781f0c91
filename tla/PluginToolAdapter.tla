------------------------- MODULE PluginToolAdapter -------------------------
(***************************************************************************)
(* PluginToolAdapter.call_tool of adapter.py: a call is looked up, checked *)
(* against the schema and the signature of its tool, run by the Plugin and *)
(* rendered as JSON, and whatever is raised on the way becomes an error    *)
(* answer.  The clauses of the try statement are tried in order.           *)
(*                                                                         *)
(* A tool may submit work that has to be paid for.  A caller sends a call  *)
(* again when it is told that it failed, except after AMBIGUOUS_RESULT,    *)
(* which says that "paid retry is unsafe" (adapter.py:103).                *)
(*                                                                         *)
(* An exception is the set of the classes it belongs to.  The Plugin is    *)
(* not part of the repository: which of its errors are ProviderErrors is   *)
(* not decided here, and it is assumed that none of them belongs to the    *)
(* class of a clause it is not named in otherwise.                         *)
(***************************************************************************)
EXTENDS Naturals, Sequences, FiniteSets

CONSTANTS
    Call,           \* what callers want done, once
    None,           \* no answer, nothing raised
    MaxTries,       \* bound: how often a caller sends a call
    Truthful        \* the calls of tools that raise ProviderResultUnknown when
                    \* they fail with work submitted

ASSUME ConstantsAssumption ==
    /\ MaxTries \in Nat \ {0}
    /\ Truthful \subseteq Call

VARIABLES
    pc,             \* where each call is in call_tool
    tool,           \* whether the tool exists
    arguments,      \* how its arguments fit the tool
    result,         \* what the tool returned
    raised,         \* the exception on its way to the clauses
    answer,         \* what the caller was answered last
    tries,          \* how often the caller sent the call
    \* history, for the properties
    paid,           \* how often work was submitted for it
    spoiled         \* the calls whose tool did its work and returned no JSON

vars == <<pc, tool, arguments, result, raised, answer, tries, paid, spoiled>>

----------------------------------------------------------------------------
(* Exceptions *)

\* A slip: a clause for a class before those for the classes that derive from it.
ClausesReordered == <<
    <<"ToolNotFoundError", "NOT_FOUND">>,
    <<"ArgumentError", "INVALID_ARGUMENT">>,
    <<"RemoteServiceError", "REMOTE_CODE">>,
    <<"ProviderError", "PROVIDER_ERROR">>,
    <<"ProviderResultUnknown", "AMBIGUOUS_RESULT">>,
    <<"Exception", "INTERNAL_ERROR">> >>

\* The clauses of the try statement.  ArgumentError stands for ValidationError,
\* SchemaError, TypeError and ValueError; Rejected and Retryable for the two
\* tests on a SpeechProviderError.
Clauses == <<
    <<"ToolNotFoundError", "NOT_FOUND">>,
    <<"ArgumentError", "INVALID_ARGUMENT">>,
    <<"RemoteServiceError", "REMOTE_CODE">>,
    <<"ConfigurationError", "CONFIGURATION_ERROR">>,
    <<"ContractValidationError", "INVALID_ARGUMENT">>,
    <<"RhythmAuthorityConflict", "RHYTHM_AUTHORITY_CONFLICT">>,
    <<"ContextBuildError", "CONTEXT_ERROR">>,
    <<"ProviderResultUnknown", "AMBIGUOUS_RESULT">>,
    <<"Rejected", "PROVIDER_REJECTED">>,
    <<"Retryable", "TRANSIENT_RETRY_EXHAUSTED">>,
    <<"SpeechProviderError", "PROVIDER_ERROR">>,
    <<"ProviderError", "PROVIDER_ERROR">>,
    <<"RoleDubbingError", "ROLE_DUBBING_CODE">>,
    <<"DramaPluginError", "PLUGIN_ERROR">>,
    <<"Exception", "INTERNAL_ERROR">> >>

PluginErrors ==
    {"ToolNotFoundError", "RemoteServiceError", "ConfigurationError",
     "ContractValidationError", "RhythmAuthorityConflict", "ContextBuildError",
     "ProviderResultUnknown", "ProviderError", "RoleDubbingError"}

\* What a tool may raise.
Exceptions ==
    {{"Exception"}, {"ArgumentError", "Exception"},
     {"DramaPluginError", "Exception"}}
    \cup {{c, "DramaPluginError", "Exception"} \cup p :
            c \in PluginErrors, p \in {{}, {"ProviderError"}}}
    \cup {{"SpeechProviderError", "ProviderError", "DramaPluginError",
           "Exception"} \cup t : t \in SUBSET {"Rejected", "Retryable"}}

\* The first clause that takes e.
Clause(e) ==
    LET takes == {n \in 1..Len(Clauses) : Clauses[n][1] \in e}
    IN  Clauses[CHOOSE n \in takes : \A m \in takes : n =< m]

Answered(c, clause, code) ==
    /\ answer' = [answer EXCEPT ![c] = [clause |-> clause, code |-> code]]
    /\ pc' = [pc EXCEPT ![c] = "answered"]

Proceed(c, next) ==
    /\ pc' = [pc EXCEPT ![c] = next]
    /\ UNCHANGED raised

Raise(c, e) ==
    /\ raised' = [raised EXCEPT ![c] = e]
    /\ pc' = [pc EXCEPT ![c] = "raised"]

----------------------------------------------------------------------------
Init ==
    /\ pc = [c \in Call |-> "get"]
    /\ tool \in [Call -> {"known", "unknown"}]
    /\ arguments \in [Call -> {"fit", "schema", "types"}]
    /\ result = [c \in Call |-> "none"]
    /\ raised = [c \in Call |-> {}]
    /\ answer = [c \in Call |-> None]
    /\ tries = [c \in Call |-> 1]
    /\ paid = [c \in Call |-> 0] /\ spoiled = {}

Get(c) ==
    /\ pc[c] = "get"
    /\ IF tool[c] = "known"
       THEN Proceed(c, "validate")
       ELSE Raise(c, {"ToolNotFoundError", "DramaPluginError", "Exception"})
    /\ UNCHANGED <<tool, arguments, result, answer, tries, paid, spoiled>>

Validate(c) ==
    /\ pc[c] = "validate"
    /\ IF arguments[c] # "schema"
       THEN Proceed(c, "coerce")
       ELSE Raise(c, {"ArgumentError", "Exception"})
    /\ UNCHANGED <<tool, arguments, result, answer, tries, paid, spoiled>>

\* A slip: what does not coerce is passed on as it is.
CoerceLeniently(c) ==
    /\ pc[c] = "coerce"
    /\ pc' = [pc EXCEPT ![c] = "invoke"]
    /\ UNCHANGED <<tool, arguments, result, raised, answer, tries, paid, spoiled>>

Coerce(c) ==
    /\ pc[c] = "coerce"
    /\ IF arguments[c] = "fit"
       THEN Proceed(c, "invoke")
       ELSE Raise(c, {"ArgumentError", "Exception"})
    /\ UNCHANGED <<tool, arguments, result, answer, tries, paid, spoiled>>

\* The tool ends well: what it submitted, it submitted once.
ToolReturns(c) ==
    /\ pc[c] = "invoke"
    /\ \E r \in {"json", "other"} :
        /\ result' = [result EXCEPT ![c] = r]
        /\ spoiled' = IF r = "other" THEN spoiled \cup {c} ELSE spoiled
    /\ paid' = [paid EXCEPT ![c] = @ + 1]
    /\ pc' = [pc EXCEPT ![c] = "render"]
    /\ UNCHANGED <<tool, arguments, raised, answer, tries>>

\* The tool fails, with or without work submitted.
ToolRaises(c) ==
    /\ pc[c] = "invoke"
    /\ \E e \in Exceptions, n \in {0, 1} :
        /\ c \in Truthful /\ n = 1 => "ProviderResultUnknown" \in e
        /\ Raise(c, e)
        /\ paid' = [paid EXCEPT ![c] = @ + n]
    /\ UNCHANGED <<tool, arguments, result, answer, tries, spoiled>>

\* The caller goes away while the tool runs; the tool's work may be submitted.
Cancel(c) ==
    /\ pc[c] = "invoke"
    /\ pc' = [pc EXCEPT ![c] = "gone"]
    /\ \E n \in {0, 1} : paid' = [paid EXCEPT ![c] = @ + n]
    /\ UNCHANGED <<tool, arguments, result, raised, answer, tries, spoiled>>

Render(c) ==
    /\ pc[c] = "render"
    /\ \/ /\ result[c] = "json"
          /\ Answered(c, "none", "OK")
          /\ UNCHANGED raised
       \/ /\ result[c] = "other"
          /\ Raise(c, {"ArgumentError", "Exception"})
          /\ UNCHANGED answer
    /\ UNCHANGED <<tool, arguments, result, tries, paid, spoiled>>

Except(c) ==
    /\ pc[c] = "raised"
    /\ Answered(c, Clause(raised[c])[1], Clause(raised[c])[2])
    /\ raised' = [raised EXCEPT ![c] = {}]
    /\ UNCHANGED <<tool, arguments, result, tries, paid, spoiled>>

CallTool(c) ==
    \/ Get(c) \/ Validate(c) \/ Coerce(c)
    \/ ToolReturns(c) \/ ToolRaises(c) \/ Cancel(c)
    \/ Render(c) \/ Except(c)

\* The caller tries again, perhaps with other arguments.
Retry(c) ==
    /\ pc[c] = "answered"
    /\ answer[c].code \notin {"OK", "AMBIGUOUS_RESULT"}
    /\ tries[c] < MaxTries
    /\ tries' = [tries EXCEPT ![c] = @ + 1]
    /\ \E a \in {"fit", "schema", "types"} :
            arguments' = [arguments EXCEPT ![c] = a]
    /\ pc' = [pc EXCEPT ![c] = "get"]
    /\ result' = [result EXCEPT ![c] = "none"]
    /\ UNCHANGED <<tool, raised, answer, paid, spoiled>>

Next == \E c \in Call : CallTool(c) \/ Retry(c)

Spec == Init /\ [][Next]_vars

----------------------------------------------------------------------------
(* Properties *)

Classes == {Clauses[n][1] : n \in 1..Len(Clauses)} \cup {"none"}

Codes == {Clauses[n][2] : n \in 1..Len(Clauses)} \cup {"OK"}

TypeOK ==
    /\ pc \in [Call -> {"get", "validate", "coerce", "invoke", "render",
                        "raised", "answered", "gone"}]
    /\ tool \in [Call -> {"known", "unknown"}]
    /\ arguments \in [Call -> {"fit", "schema", "types"}]
    /\ result \in [Call -> {"none", "json", "other"}]
    /\ raised \in [Call -> Exceptions \cup {{}}]
    /\ answer \in [Call -> [clause : Classes, code : Codes] \cup {None}]
    /\ tries \in [Call -> 1..MaxTries]
    /\ paid \in [Call -> 0..MaxTries]
    /\ spoiled \in SUBSET Call
    /\ \A c \in Call : pc[c] = "invoke" => arguments[c] = "fit"

\* Submitted work is paid for once, although callers try again: if a tool says
\* that its result is unknown, the caller hears it, be the exception a
\* ProviderError as well or not (adapter.py:100-104, tests/test_adapter.py:149).
\* Excepted are the calls whose tool returned what is not JSON: they are answered
\* INVALID_ARGUMENT like those of which nothing was submitted (adapter.py:47, 88),
\* sent again and paid for again.
PaidOnce == \A c \in Truthful \ spoiled : paid[c] =< 1

\* A call whose tool has returned is not told that "Tool arguments do not match
\* the Plugin contract" (adapter.py:89), upon which it would be sent, and paid for,
\* again: if the result cannot be rendered, "Plugin returned a value that is not JSON
\* serializable" (adapter.py:47) is what went wrong.
ReturnedIsNotBlamed ==
    \A c \in Call :
        pc[c] = "answered" /\ result[c] # "none" =>
            answer[c].clause # "ArgumentError"

=============================================================================
