--------------------------------- MODULE Chat ---------------------------------
(***************************************************************************)
(* "Ask Maomao" on one job: the routes of server.ts that ask and reset, the  *)
(* chain of sends of chat/service.ts, the conversations of chat/store.ts and *)
(* the checkout that all conversations of a job share, with runs that fail,  *)
(* operators who leave, and deaths of the process.                           *)
(***************************************************************************)
EXTENDS Integers, FiniteSets, Sequences

CONSTANTS Sends,            \* bound: questions ever asked, numbered from 1
          MaxConversations, \* bound: conversations, with the resets
          MaxMessages,      \* config.chat.maxMessages
          MaxChatCost,      \* config.chat.maxCostUsd; an answer costs 0 or 1
          MaxChatDeaths     \* bound: deaths of the process

ASSUME ChatAssumption ==
  /\ Sends \in Nat /\ MaxConversations \in Nat /\ MaxMessages \in Nat \ {0} /\ MaxChatCost \in Nat
  /\ MaxChatDeaths \in Nat

VARIABLES
  convs,      \* SQLite: chat_conversations with their messages, oldest first
  asks,       \* memory: each send: where it is, its conversation, whom it waits for
  lockTail,   \* memory: locks.get(job): the send at the end of the chain, or 0
  checkedOut, \* disk: the job's chat checkout: "none", "half" or "whole"
  chatDeaths  \* deaths so far (bound)

chatVars == <<convs, asks, lockTail, checkedOut, chatDeaths>>

SendIds == 1..Sends
NewConversation == [state |-> "active", session |-> FALSE, workspace |-> FALSE, messages |-> <<>>, cost |-> 0]
NoSend == [at |-> "absent", conv |-> 0, behind |-> 0]
At(s)  == asks[s].at
Conv(s) == convs[asks[s].conv]
Left(s) == At(s) = "over"
Working == {s \in SendIds : At(s) \in {"prepare", "run"}}

Set(s, conv) == convs' = [convs EXCEPT ![asks[s].conv] = conv]

\* Mutant: whoever leaves removes the job's lock.
UnlocksAlways(s) == 0

\* The finally of send: the lock goes only if nobody has chained on it since.
Unlocks(s) == IF lockTail = s THEN 0 ELSE lockTail

Leaves(s) == asks' = [asks EXCEPT ![s].at = "over"] /\ lockTail' = Unlocks(s)

\* A question of the form or the stream: of the newest conversation, which is
\* created if there is none (getOrCreateConversation), behind the last send.
Question(s) ==
  /\ At(s) = "absent" /\ \A t \in SendIds : t < s => At(t) # "absent"
  /\ convs' = IF convs = <<>> THEN <<NewConversation>> ELSE convs
  /\ asks' = [asks EXCEPT ![s] = [at |-> "queued", conv |-> Len(convs'), behind |-> lockTail]]
  /\ lockTail' = s
  /\ UNCHANGED <<checkedOut, chatDeaths>>

\* The question enters the transcript and the run starts.
Runs(s, conv) ==
  /\ Set(s, [conv EXCEPT !.messages = Append(@, <<"user", s>>)])
  /\ asks' = [asks EXCEPT ![s].at = "run"] /\ UNCHANGED lockTail

\* sendLocked up to its first await: refused at a limit, or with a checkout
\* that is there or must be prepared, which clears what is left of it.
Starts(s) ==
  /\ At(s) = "queued" /\ asks[s].behind \notin {t \in SendIds : ~Left(t)} /\ UNCHANGED chatDeaths
  /\ IF Len(Conv(s).messages) >= MaxMessages \/ (MaxChatCost > 0 /\ Conv(s).cost >= MaxChatCost)
     THEN Leaves(s) /\ UNCHANGED <<convs, checkedOut>>
     ELSE IF Conv(s).workspace /\ checkedOut # "none"
     THEN Runs(s, Conv(s)) /\ UNCHANGED checkedOut
     ELSE /\ asks' = [asks EXCEPT ![s].at = "prepare"]
          /\ checkedOut' \in {"none", "half"}     \* cloneSpec may fail before anything is cleared
          /\ UNCHANGED <<convs, lockTail>>

Prepares(s) ==
  /\ At(s) = "prepare" /\ UNCHANGED chatDeaths
  /\ \/ checkedOut' = "whole" /\ Runs(s, [Conv(s) EXCEPT !.workspace = TRUE])
     \/ /\ Leaves(s) /\ UNCHANGED checkedOut
        /\ Set(s, Conv(s)) \/ Set(s, [Conv(s) EXCEPT !.state = "error"])   \* aborted, or failed

\* onStdout: the first line with a session's id binds it.
SeesSession(s) ==
  /\ At(s) = "run" /\ ~Conv(s).session
  /\ Set(s, [Conv(s) EXCEPT !.session = TRUE])
  /\ UNCHANGED <<asks, lockTail, checkedOut, chatDeaths>>

Answers(s) ==
  /\ At(s) = "run" /\ Leaves(s)
  /\ \E c \in {0, 1}, session \in {Conv(s).session, TRUE} :
       Set(s, [Conv(s) EXCEPT !.messages = Append(@, <<"assistant", s>>), !.cost = @ + c,
                              !.session = session, !.state = "active"])
  /\ UNCHANGED <<checkedOut, chatDeaths>>

\* No answer: the run failed or timed out, or its operator has left.
Unanswered(s) ==
  /\ At(s) = "run" /\ Leaves(s)
  /\ Set(s, Conv(s)) \/ Set(s, [Conv(s) EXCEPT !.state = "error"])
  /\ UNCHANGED <<checkedOut, chatDeaths>>

\* The reset button: supersedeActive and a new conversation, whatever is running.
ResetsChat ==
  /\ convs # <<>> /\ Len(convs) < MaxConversations
  /\ convs' = Append([c \in DOMAIN convs |-> [convs[c] EXCEPT !.state = IF @ = "active" THEN "reset" ELSE @]],
                     NewConversation)
  /\ UNCHANGED <<asks, lockTail, checkedOut, chatDeaths>>

\* A death and a start, whose sweep may remove the checkout for its age.
ChatDies ==
  /\ chatDeaths < MaxChatDeaths /\ chatDeaths' = chatDeaths + 1
  /\ asks' = [s \in SendIds |-> IF At(s) = "absent" THEN asks[s] ELSE [asks[s] EXCEPT !.at = "over"]]
  /\ lockTail' = 0 /\ checkedOut' \in {checkedOut, "none"} /\ UNCHANGED convs

-----------------------------------------------------------------------------
ChatInit ==
  /\ convs = <<>> /\ asks = [s \in SendIds |-> NoSend] /\ lockTail = 0
  /\ checkedOut = "none" /\ chatDeaths = 0

ChatNext ==
  \/ \E s \in SendIds :
       Question(s) \/ Starts(s) \/ Prepares(s) \/ SeesSession(s) \/ Answers(s) \/ Unanswered(s)
  \/ ResetsChat \/ ChatDies

ChatSpec == ChatInit /\ [][ChatNext]_chatVars

-----------------------------------------------------------------------------
(* Properties *)

ChatTypeOK ==
  /\ \A s \in SendIds : /\ At(s) \in {"absent", "queued", "prepare", "run", "over"}
                        /\ asks[s].conv \in 0..Len(convs) /\ asks[s].behind \in 0..Sends
  /\ \A c \in DOMAIN convs : /\ convs[c].state \in {"active", "error", "reset"}
                             /\ convs[c].cost \in Nat
  /\ lockTail \in 0..Sends /\ checkedOut \in {"none", "half", "whole"}

\* "Serializes sends per JOB (not per conversation): conversations on one job
\* share the checkout directory" (service.ts:102-103): whatever is asked, reset or
\* failed meanwhile, one send at a time is in the checkout, no conversation goes
\* past its limits by more than the answer it was owed, and every answer stands
\* right below its own question.
ChatIsSerial ==
  /\ Cardinality(Working) <= 1
  /\ \A s \in SendIds : At(s) = "run" => checkedOut # "none"
  /\ \A c \in DOMAIN convs :
       /\ Len(convs[c].messages) <= MaxMessages + 1
       /\ MaxChatCost > 0 => convs[c].cost <= MaxChatCost
       /\ \A i \in DOMAIN convs[c].messages :
            convs[c].messages[i][1] = "assistant" =>
              i > 1 /\ convs[c].messages[i - 1] = <<"user", convs[c].messages[i][2]>>
=============================================================================
