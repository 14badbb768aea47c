----------------------------- MODULE MaskedChat -----------------------------
(***************************************************************************)
(* The masked chat of a case: one thread for the owner and each helper,    *)
(* made by the helper's first message; messages are appended, counted      *)
(* against a rate in the database, and answered again to a retry.          *)
(*                                                                         *)
(* One case.  Its owner and its helpers are identified and have their      *)
(* offers; texts are valid and the legal gate, which comes before the      *)
(* writes, is LegalGate's matter.  What a reader sees of the other side is  *)
(* a mask made with the thread, in the same transaction.                   *)
(***************************************************************************)
EXTENDS Handlers

CONSTANTS
    Helpers,     \* accounts with a help offer on the case
    MessageKeys, \* client keys a device draws from: one for each message it means to send
    Rate,        \* CHAT_RATE_PER_MINUTE
    MaxMessages  \* bound: messages ever stored

ASSUME ChatAssumption == {Rate, MaxMessages} \subseteq Nat \ {0}

VARIABLES
    chatCase,  \* tb_report: status, or "purged", and hidden
    threads,   \* tb_chat_thread with its two participants, in order of insertion
    messages,  \* tb_chat_message, in order of insertion
    answered   \* history: <<helper, sender, key, message>> of every post that was answered

chatVars == <<chatCase, threads, messages, answered, rq>>

----------------------------------------------------------------------------

Roles == {"reporter", "helper"}

\* lastRead: the participants' own pointers.
Thread  == [helper : Helpers, lastRead : [Roles -> 0 .. MaxMessages]]
\* recent: within the last 60 seconds.  The key is its sender's.
Message == [thread : 1 .. MaxMessages, from : Roles, key : MessageKeys, text : BOOLEAN,
            recent : BOOLEAN]
MessageIds == DOMAIN messages

ChatTypeOK ==
    /\ chatCase \in [status : {"open", "resolved", "purged"}, hidden : BOOLEAN]
    /\ threads \in Seq(Thread) /\ Len(threads) <= MaxMessages
    /\ messages \in Seq(Message) /\ Len(messages) <= MaxMessages
    /\ answered \subseteq Helpers \X Roles \X MessageKeys \X MessageIds

ChatInit ==
    /\ chatCase = [status |-> "open", hidden |-> FALSE]
    /\ threads = << >> /\ messages = << >> /\ answered = {}
    /\ HandlersInit

Closed       == chatCase.status = "resolved" \/ chatCase.hidden
LivingReport == chatCase.status # "purged"
ThreadsOf(h) == {t \in DOMAIN threads : threads[t].helper = h}

\* The UNIQUE key (thread, client_key); keys of the two sides never meet.
SameKey(r) == {i \in MessageIds : messages[i].thread = rq[r].thread
                 /\ messages[i].from = rq[r].from /\ messages[i].key = rq[r].key}

----------------------------------------------------------------------------
(* Posting                                                                 *)

\* postToReport: a helper's entry.
PostToReport(r, h, key) ==
    /\ LivingReport
    /\ Begin(r, [op |-> "first", pc |-> "thread", helper |-> h, from |-> "helper", key |-> key,
                 closed |-> Closed])
    /\ UNCHANGED <<chatCase, threads, messages, answered>>

\* findThreadByReportAndHelper; without a thread the case must be open.
FindThread(r) ==
    /\ At(r, "first", "thread")
    /\ LET own == ThreadsOf(rq[r].helper) IN
       IF own = {} THEN ~rq[r].closed /\ Goto(r, "create")
       ELSE \E t \in own : With(r, [pc |-> "member", thread |-> t])
    /\ UNCHANGED <<chatCase, threads, messages, answered>>

NewThread(h) == [helper |-> h, lastRead |-> [role \in Roles |-> 0]]

\* Mutated form: no UNIQUE (report, helper).
CreateThreadAnyway(r) ==
    /\ At(r, "first", "create") /\ Len(threads) < MaxMessages
    /\ threads' = Append(threads, NewThread(rq[r].helper))
    /\ With(r, [pc |-> "member", thread |-> Len(threads) + 1])
    /\ UNCHANGED <<chatCase, messages, answered>>

\* insertThreadWithParticipants: whoever lost the race adopts the winner's thread.
CreateThread(r) ==
    /\ At(r, "first", "create")
    /\ LET own == ThreadsOf(rq[r].helper) IN
       \/ /\ own = {} /\ Len(threads) < MaxMessages
          /\ threads' = Append(threads, NewThread(rq[r].helper))
          /\ With(r, [pc |-> "member", thread |-> Len(threads) + 1])
       \/ \E t \in own : With(r, [pc |-> "member", thread |-> t]) /\ UNCHANGED threads
    /\ UNCHANGED <<chatCase, messages, answered>>

\* postToThread: either side's entry.
PostToThread(r, t, role, key) ==
    /\ Begin(r, [op |-> "post", pc |-> "member", thread |-> t, helper |-> threads[t].helper,
                 from |-> role, key |-> key, closed |-> FALSE])
    /\ UNCHANGED <<chatCase, threads, messages, answered>>

\* membership: the case is read, again if postToReport has read it.
ReadMembership(r) ==
    /\ rq[r].op \in {"first", "post"} /\ rq[r].pc = "member" /\ LivingReport
    /\ With(r, [pc |-> "replay", closed |-> Closed])
    /\ UNCHANGED <<chatCase, threads, messages, answered>>

Answer(r, i) ==
    /\ answered' = answered \cup {<<rq[r].helper, rq[r].from, rq[r].key, i>>}
    /\ Finish(r)

\* findMessageByClientKey: a stored message is answered even when the case has closed.
AnswerReplay(r) ==
    /\ rq[r].op \in {"first", "post"} /\ rq[r].pc = "replay"
    /\ IF SameKey(r) = {} THEN ~rq[r].closed /\ Goto(r, "count") /\ UNCHANGED answered
       ELSE \E i \in SameKey(r) : Answer(r, i)
    /\ UNCHANGED <<chatCase, threads, messages>>

Recent(t, role) ==
    {i \in MessageIds : messages[i].thread = t /\ messages[i].from = role /\ messages[i].recent}

\* Mutated form: one message too many.
CountRecentLate(r) ==
    /\ rq[r].op \in {"first", "post"} /\ rq[r].pc = "count"
    /\ Cardinality(Recent(rq[r].thread, rq[r].from)) <= Rate
    /\ Goto(r, "insert")
    /\ UNCHANGED <<chatCase, threads, messages, answered>>

\* countRecentMessages.
CountRecent(r) ==
    /\ rq[r].op \in {"first", "post"} /\ rq[r].pc = "count"
    /\ Cardinality(Recent(rq[r].thread, rq[r].from)) < Rate
    /\ Goto(r, "insert")
    /\ UNCHANGED <<chatCase, threads, messages, answered>>

StoredMessage(r) == [thread |-> rq[r].thread, from |-> rq[r].from, key |-> rq[r].key,
                     text |-> TRUE, recent |-> TRUE]

\* insertMessage: a duplicate key answers the winner's row.
InsertMessage(r) ==
    /\ rq[r].op \in {"first", "post"} /\ rq[r].pc = "insert"
    /\ IF SameKey(r) # {} THEN UNCHANGED messages /\ \E i \in SameKey(r) : Answer(r, i)
       ELSE /\ Len(messages) < MaxMessages
            /\ messages' = Append(messages, StoredMessage(r))
            /\ Answer(r, Len(messages) + 1)
    /\ UNCHANGED <<chatCase, threads>>

----------------------------------------------------------------------------
(* Reading                                                                 *)

\* getMessages: the page ends with one of the thread's messages.
ReadThread(r, t, role) ==
    /\ LivingReport
    /\ \E i \in MessageIds : messages[i].thread = t
          /\ Begin(r, [op |-> "read", pc |-> "advance", thread |-> t, role |-> role, last |-> i])
    /\ UNCHANGED <<chatCase, threads, messages, answered>>

\* advanceLastRead: only ever forward.
AdvanceLastRead(r) ==
    /\ At(r, "read", "advance")
    /\ threads' = [threads EXCEPT ![rq[r].thread].lastRead[rq[r].role] =
                      IF @ < rq[r].last THEN rq[r].last ELSE @]
    /\ Finish(r)
    /\ UNCHANGED <<chatCase, messages, answered>>

----------------------------------------------------------------------------
(* The case and the clock                                                  *)

\* markResolved; hideReport and unhideReport.
CloseCase ==
    /\ chatCase.status = "open"
    /\ chatCase' = [chatCase EXCEPT !.status = "resolved"]
    /\ UNCHANGED <<threads, messages, answered, rq>>

ToggleHidden ==
    /\ LivingReport
    /\ chatCase' = [chatCase EXCEPT !.hidden = ~@]
    /\ UNCHANGED <<threads, messages, answered, rq>>

\* A request that found the case open and may still write.  At "member" it looks again.
FoundOpen(q) == q.op \in {"first", "post"} /\ q.pc # "member" /\ ~q.closed

\* purgeReport blanks every text.  No request lasts from an open case to the end of its
\* retention, which is days.
PurgeChat ==
    /\ chatCase.status = "resolved" /\ \A r \in Reqs : ~FoundOpen(rq[r])
    /\ chatCase' = [chatCase EXCEPT !.status = "purged"]
    /\ messages' = [i \in MessageIds |-> [messages[i] EXCEPT !.text = FALSE]]
    /\ UNCHANGED <<threads, answered, rq>>

\* The window slides past the oldest message in it.
WindowSlides ==
    /\ \E i \in MessageIds :
         /\ messages[i].recent /\ \A j \in 1 .. i - 1 : ~messages[j].recent
         /\ messages' = [messages EXCEPT ![i].recent = FALSE]
    /\ UNCHANGED <<chatCase, threads, answered, rq>>

ChatRequests ==
    \E r \in Reqs :
        \/ \E h \in Helpers, key \in MessageKeys : PostToReport(r, h, key)
        \/ \E t \in DOMAIN threads, role \in Roles :
              ReadThread(r, t, role) \/ \E key \in MessageKeys : PostToThread(r, t, role, key)
        \/ FindThread(r) \/ CreateThread(r) \/ ReadMembership(r) \/ AnswerReplay(r)
        \/ CountRecent(r) \/ InsertMessage(r) \/ AdvanceLastRead(r)
        \/ GivesUp(r) /\ UNCHANGED <<chatCase, threads, messages, answered>>

ChatNext == ChatRequests \/ CloseCase \/ ToggleHidden \/ PurgeChat \/ WindowSlides

ChatSpec == ChatInit /\ [][ChatNext]_chatVars

----------------------------------------------------------------------------
(* Properties                                                              *)

\* Decision 177, counted in the database and not locked: a participant has no more
\* messages in a window than the rate and those posted beside the last of them.
RateBounded ==
    \A t \in DOMAIN threads, role \in Roles :
        Cardinality(Recent(t, role)) <= Rate + Cardinality(Reqs) - 1

\* Decisions 172/173: a message that is sent again is answered with the same message,
\* although first messages race to make the thread, retries race to store the row, and
\* the case may have closed in between.
RetryAnsweredOnce ==
    \A x, y \in answered : <<x[1], x[2], x[3]>> = <<y[1], y[2], y[3]>> => x[4] = y[4]

\* A message by the key of its sender, in the thread of its helper.
ChatKeys == INSTANCE KeyedWrites WITH
    stored <- {<<<<threads[messages[i].thread].helper, messages[i].from, messages[i].key>>, i>> :
                  i \in MessageIds},
    told   <- {<<<<x[1], x[2], x[3]>>, x[4]>> : x \in answered}

\* Decision 137: whatever races, closes or is purged meanwhile, a key sends one message,
\* which stays, and every answer to the key is about it.
ChatKeepsKeys == ChatKeys!Spec

=============================================================================
