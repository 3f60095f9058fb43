-------------------------------- MODULE Chat ---------------------------------
(***************************************************************************)
(* The chat assistant: one turn stores the operator's question, calls the  *)
(* language model and the read-only tools it asks for, and stores an       *)
(* answer.                                                                 *)
(*                                                                         *)
(* Code: backend/app/chat/router.py, service.py, agent.py, tools.py,       *)
(* agents/llm_client.py (complete_chat), models/chat_session.py,           *)
(* chat_message.py.                                                        *)
(*                                                                         *)
(* Turns of one session may run side by side, and the session may be       *)
(* deleted while they do.  Texts are left out: a message is the role and   *)
(* the turn it belongs to, a tool is what calling it may come to.          *)
(***************************************************************************)
EXTENDS Naturals, Sequences, FiniteSets

CONSTANTS
  Turns,              \* POST .../messages requests on the session; each is made once
  MaxToolIterations,  \* MAX_TOOL_ITERATIONS
  MaxCalls,           \* bound on the tool calls of one completion
  ChatFaults          \* the sets of disturbances to consider

\* "unreachable": the model or its configuration is missing or does not answer;
\* "misshapen": its answer raises something complete_chat does not catch;
\* "bad_call": it names no tool, or gives arguments a tool cannot parse;
\* "leave": the client closes the stream; "delete": the session is deleted.
Disturbances == {"unreachable", "misshapen", "bad_call", "leave", "delete"}

\* What the proofs ask of the constants.
ChatAssumption == MaxToolIterations \in Nat /\ MaxCalls \in Nat

VARIABLES
  present,   \* whether the ChatSession row exists
  messages,  \* its ChatMessage rows, in the order they were committed
  turn,      \* what each turn is doing
  faults     \* the disturbances that may happen in this behaviour

chatVars == <<present, messages, turn, faults>>

\* The tools, by what calling one may come to: a result (an error in words is one), or an
\* exception of its own, from an enum, a date or a number that does not parse.
Outcomes ==
  [search_analyses |-> {"result", "raises"},
   get_analysis |-> {"result"},
   get_defect_stats |-> {"result", "raises"},
   get_defect_knowledge |-> {"result"}]

Tools == DOMAIN Outcomes

\* execute_tool: an unknown name raises ApiError.
ToolOutcomes(name) == IF name \in Tools THEN Outcomes[name] ELSE {"raises"}

\* `calls`: the completion's tool calls still to be run; `rounds`: completions so far.
Waiting == [pc |-> "new", rounds |-> 0, calls |-> 0]
Enter(t, pc) == turn' = [turn EXCEPT ![t].pc = pc]

Message(t, role) == [turn |-> t, role |-> role]
Count(t, role) == Cardinality({n \in DOMAIN messages : messages[n] = Message(t, role)})

\* Storing a message of a deleted session fails: its UPDATE finds no row, its INSERT no parent.
Store(t, role, pc) ==
  /\ messages' = IF present THEN Append(messages, Message(t, role)) ELSE messages
  /\ Enter(t, IF present THEN pc ELSE "broken")

-----------------------------------------------------------------------------
\* get_owned_session, in the request before the stream starts.
Open(t) ==
  /\ turn[t].pc = "new" /\ present
  /\ Enter(t, "asking")
  /\ UNCHANGED <<present, messages, faults>>

\* A mutant of Ask: the question is not stored before the model is asked.
AskUnstored(t) ==
  /\ turn[t].pc = "asking"
  /\ Enter(t, "asked")
  /\ UNCHANGED <<present, messages, faults>>

\* append_user_message commits before anything is asked of the model.
Ask(t) ==
  /\ turn[t].pc = "asking"
  /\ Store(t, "user", "asked")
  /\ UNCHANGED <<present, faults>>

\* build_llm_client: None when nothing is configured.  build_messages reads the history.
Prepare(t) ==
  /\ turn[t].pc = "asked"
  /\ \/ Enter(t, "calling")
     \/ "unreachable" \in faults /\ Enter(t, "unavailable")
  /\ UNCHANGED <<present, messages, faults>>

\* One completion: the final text, or tool calls.
Complete(t) ==
  /\ turn[t].pc = "calling" /\ turn[t].rounds < MaxToolIterations
  /\ \/ Enter(t, "answering")
     \/ \E n \in 1..MaxCalls :
          turn' = [turn EXCEPT ![t].pc = "tools", ![t].rounds = @ + 1, ![t].calls = n]
     \/ "unreachable" \in faults /\ Enter(t, "unavailable")
     \/ "misshapen" \in faults /\ Enter(t, "broken")
  /\ UNCHANGED <<present, messages, faults>>

\* A mutant of Exhaust: the exception is not the one the caller catches.
ExhaustUncaught(t) ==
  /\ turn[t].pc = "calling" /\ turn[t].rounds = MaxToolIterations
  /\ Enter(t, "broken")
  /\ UNCHANGED <<present, messages, faults>>

\* The bound is used up: ChatAgentUnavailableError.
Exhaust(t) ==
  /\ turn[t].pc = "calling" /\ turn[t].rounds = MaxToolIterations
  /\ Enter(t, "unavailable")
  /\ UNCHANGED <<present, messages, faults>>

\* The next call of the completion.  A tool's exception is nobody's ChatAgentUnavailableError: it
\* ends the stream.
RunTool(t, name) ==
  /\ turn[t].pc = "tools"
  /\ \E outcome \in ToolOutcomes(name) :
       IF outcome = "raises"
       THEN "bad_call" \in faults /\ Enter(t, "broken")
       ELSE turn' = [turn EXCEPT ![t].calls = @ - 1,
                                 ![t].pc = IF turn[t].calls = 1 THEN "calling" ELSE @]
  /\ UNCHANGED <<present, messages, faults>>

\* append_assistant_message, with the answer or with the note that the model is unavailable.
Answer(t) ==
  /\ turn[t].pc \in {"answering", "unavailable"}
  /\ Store(t, "assistant", "done")
  /\ UNCHANGED <<present, faults>>

-----------------------------------------------------------------------------
\* The client goes away: the stream is cancelled wherever it awaits.
Leave(t) ==
  /\ "leave" \in faults
  /\ turn[t].pc \notin {"new", "done", "broken", "left"}
  /\ Enter(t, "left")
  /\ UNCHANGED <<present, messages, faults>>

\* delete_session: the messages go with it.
DeleteSession ==
  /\ "delete" \in faults /\ present
  /\ present' = FALSE
  /\ messages' = <<>>
  /\ UNCHANGED <<turn, faults>>

Init ==
  /\ present = TRUE
  /\ messages = <<>>
  /\ turn = [t \in Turns |-> Waiting]
  /\ faults \in ChatFaults

Work(t) == Ask(t) \/ Prepare(t) \/ Complete(t) \/ Exhaust(t) \/ Answer(t)
           \/ \E name \in Tools \cup {"unknown"} : RunTool(t, name)

Next == \/ \E t \in Turns : Open(t) \/ Work(t) \/ Leave(t)
        \/ DeleteSession

Spec == Init /\ [][Next]_chatVars

\* A turn that has begun goes on: every model call ends, by its timeout at the latest.
FairSpec == Spec /\ \A t \in Turns : WF_chatVars(Work(t))

-----------------------------------------------------------------------------
TypeOK ==
  /\ present \in BOOLEAN
  /\ messages \in Seq([turn : Turns, role : {"user", "assistant"}])
  /\ turn \in [Turns -> [pc : {"new", "asking", "asked", "calling", "tools", "answering",
                               "unavailable", "done", "broken", "left"},
                         rounds : 0..MaxToolIterations, calls : 0..MaxCalls]]
  /\ faults \in ChatFaults

Begun(t) == turn[t].pc \notin {"new", "asking"}

\* "The operator's question survives an LLM failure": as long as its session exists, a question
\* whose turn got as far as the model is in the history once, before its answer, and has one
\* answer exactly when its turn came to an end; however turns interleave and end.
ConversationIntact ==
  present => \A t \in Turns :
    /\ Begun(t) /\ turn[t].pc # "left" => Count(t, "user") = 1
    /\ Count(t, "assistant") = (IF turn[t].pc = "done" THEN 1 ELSE 0)
    /\ \A n \in DOMAIN messages :
         messages[n] = Message(t, "assistant") =>
           \E k \in 1..(n - 1) : messages[k] = Message(t, "user")

\* Every question gets an answer or a note, with a model that is down or will not stop calling
\* tools; unless the client leaves, the session is deleted, or an exception escapes the turn.
EveryTurnAnswered ==
  \A t \in Turns :
    turn[t].pc = "asked" /\ faults \cap {"misshapen", "bad_call", "leave", "delete"} = {}
      ~> Count(t, "assistant") = 1
=============================================================================
