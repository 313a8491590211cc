------------------------------ MODULE Messages ------------------------------
(***************************************************************************)
(* Private messages (messages.rs) and their way over the session           *)
(* (service.rs, service/hubs.rs, service/commands.rs).                     *)
(*                                                                         *)
(* The conversations live in memory and in a file that every operation     *)
(* rewrites; a save may fail and leave the memory ahead of the file.  The  *)
(* server keeps an incoming message until it is acknowledged and delivers  *)
(* it again in the next session.  An outgoing message is queued by a       *)
(* command thread, written by the session and then marked.                 *)
(***************************************************************************)
EXTENDS Integers, Sequences, FiniteSets, SequencesExt

CONSTANTS
  Peer,              \* the users that write to us and that we write to
  Incoming,          \* the server's ids of the messages they send
  SenderOf,          \* [Incoming -> Peer]
  MaxConversations,  \* MAX_CONVERSATIONS
  MaxPerConversation,\* MAX_MESSAGES_PER_CONVERSATION
  MaxOutgoing,       \* bound: messages we send
  MaxSaveFailures,   \* bound: saves that fail
  MaxSessions        \* bound: sessions

VARIABLES
  inbox,     \* MessagesStore::conversations, by updated_at_ms, newest first
  saved,     \* the file
  held,      \* messages the server has not seen acknowledged
  delivered, \* messages it has sent in this session
  toAck,     \* acknowledgements the session still has to write
  session,   \* number of the session, 0 when offline
  sessions,  \* sessions so far
  outbox,    \* commands SendPrivateMessage the session has not read
  writing,   \* the outgoing message a command thread has in hand, or 0
  channel,   \* the session whose sender that thread has cloned, or 0
  sent,      \* outgoing messages so far
  failures,  \* saves that failed
  unsaved,   \* history: messages whose own save failed
  erased     \* history: messages the user or a limit has removed

msgVars == <<inbox, saved, held, delivered, toAck, session, sessions, outbox,
             writing, channel, sent, failures, unsaved, erased>>
serverVars == <<held, delivered, toAck, session, sessions>>
senderVars == <<outbox, writing, channel, sent>>

(* Incoming and outgoing messages are told apart by their ids.             *)
Message == [id : Incoming \cup 1..MaxOutgoing, unread : BOOLEAN,
            delivery : {"received", "queued", "sent", "failed"}]
Conversation == [peer : Peer, messages : Seq(Message), unread : Nat]

MsgInit ==
  /\ inbox = <<>> /\ saved = <<>>
  /\ held = Incoming /\ delivered = {} /\ toAck = {}
  /\ session = 0 /\ sessions = 0
  /\ outbox = <<>> /\ writing = 0 /\ channel = 0 /\ sent = 0
  /\ failures = 0 /\ unsaved = {} /\ erased = {}

IdsOf(conversation) == {m.id : m \in Range(conversation.messages)}
Known(store) == UNION {IdsOf(c) : c \in Range(store)}
UnreadOf(messages) == Cardinality({i \in DOMAIN messages : messages[i].unread})

-----------------------------------------------------------------------------
(* A conversation over the limit loses its oldest messages and counts what *)
(* is left unread.                                                         *)
TrimBlindly(c) == \* mutant: the count is left as it was
  IF Len(c.messages) <= MaxPerConversation THEN c
  ELSE [c EXCEPT !.messages =
          SubSeq(@, Len(@) - MaxPerConversation + 1, Len(@))]

Trim(c) ==
  IF Len(c.messages) <= MaxPerConversation THEN c
  ELSE LET kept == SubSeq(c.messages, Len(c.messages) - MaxPerConversation + 1,
                          Len(c.messages))
       IN [c EXCEPT !.messages = kept, !.unread = UnreadOf(kept)]

Has(peer) == \E i \in DOMAIN inbox : inbox[i].peer = peer
Get(peer) ==
  IF Has(peer) THEN CHOOSE c \in Range(inbox) : c.peer = peer
  ELSE [peer |-> peer, messages |-> <<>>, unread |-> 0]
Without(peer) == \* a peer has one conversation at most
  IF Has(peer) THEN RemoveAt(inbox, CHOOSE i \in DOMAIN inbox : inbox[i].peer = peer)
  ELSE inbox

(* A conversation that has just changed is the newest; those over the      *)
(* limit are forgotten.                                                    *)
Foremost(c) ==
  LET all == <<c>> \o Without(c.peer)
  IN SubSeq(all, 1, IF Len(all) < MaxConversations THEN Len(all) ELSE MaxConversations)

InPlace(c) == [i \in DOMAIN inbox |-> IF inbox[i].peer = c.peer THEN c ELSE inbox[i]]

(* Every operation changes the memory and then rewrites the file.          *)
Erases(store) == erased' = (erased \cup Known(inbox)) \ Known(store)
Remembers(store) == inbox' = store /\ Erases(store)
SaveWorks(store) == saved' = store /\ UNCHANGED failures
SaveFails == failures < MaxSaveFailures /\ failures' = failures + 1 /\ UNCHANGED saved

Push(peer, message, unread) ==
  LET c == Get(peer)
  IN Foremost(Trim([c EXCEPT !.messages = Append(@, message), !.unread = @ + unread]))

-----------------------------------------------------------------------------
(* The end of a session fails what is still queued; the file follows if    *)
(* the save works.                                                         *)
FailQueuedIn(c) ==
  [c EXCEPT !.messages = [i \in DOMAIN @ |->
     IF @[i].delivery = "queued" THEN [@[i] EXCEPT !.delivery = "failed"] ELSE @[i]]]

QueuedIds(store) ==
  {m.id : m \in {n \in UNION {Range(c.messages) : c \in Range(store)} :
                   n.delivery = "queued"}}

FailQueuedOf(store) == [i \in DOMAIN store |-> FailQueuedIn(store[i])]

LeavesQueued(store) == \* mutant: fail_queued is not called
  /\ inbox' = store
  /\ UNCHANGED <<saved, failures>>

FailQueued(store) ==
  /\ inbox' = FailQueuedOf(store)
  /\ IF QueuedIds(store) = {} THEN UNCHANGED <<saved, failures>>
     ELSE SaveWorks(inbox') \/ SaveFails

(* The attempt ends: its command channel closes and its frames are gone.   *)
Disconnected ==
  /\ session' = 0
  /\ delivered' = {} /\ toAck' = {} /\ outbox' = <<>>
  /\ UNCHANGED <<held, sessions>>

SessionBegins ==
  /\ session = 0 /\ sessions < MaxSessions
  /\ session' = sessions + 1 /\ sessions' = sessions + 1
  /\ FailQueued(inbox)
  /\ UNCHANGED <<held, delivered, toAck, senderVars, unsaved, erased>>

SessionBreaks ==
  /\ session # 0
  /\ Disconnected /\ FailQueued(inbox)
  /\ UNCHANGED <<writing, channel, sent, unsaved, erased>>

(* A restart loses the memory and the threads.                             *)
Restarts ==
  /\ session # 0
  /\ Disconnected
  /\ inbox' = saved
  /\ writing' = 0 /\ channel' = 0
  /\ UNCHANGED <<saved, sent, failures, unsaved, erased>>

-----------------------------------------------------------------------------
(* An incoming message: a copy of one that is known is not stored again;   *)
(* when the save fails the session ends without an acknowledgement.        *)
RecordIncoming(id) ==
  /\ session # 0 /\ id \in held \ delivered
  /\ delivered' = delivered \cup {id}
  /\ UNCHANGED <<held, session, sessions, senderVars>>
  /\ IF id \in Known(inbox)
     THEN /\ toAck' = toAck \cup {id}
          /\ UNCHANGED <<inbox, saved, failures, unsaved, erased>>
     ELSE /\ Remembers(Push(SenderOf[id], [id |-> id, unread |-> TRUE, delivery |-> "received"], 1))
          /\ SaveWorks(inbox')
          /\ unsaved' = unsaved \ {id}
          /\ toAck' = toAck \cup {id}

RecordIncomingFails(id) ==
  /\ session # 0 /\ id \in held \ delivered /\ id \notin Known(inbox)
  /\ SaveFails
  /\ LET store == Push(SenderOf[id], [id |-> id, unread |-> TRUE, delivery |-> "received"], 1)
     IN /\ inbox' = FailQueuedOf(store)
        /\ erased' = (erased \cup Known(inbox)) \ Known(store)
  /\ unsaved' = unsaved \cup {id}
  /\ Disconnected
  /\ UNCHANGED <<writing, channel, sent>>

(* The sender is ignored: nothing is saved.                                *)
IgnoreIncoming(id) ==
  /\ session # 0 /\ id \in held \ delivered /\ id \notin Known(inbox)
  /\ delivered' = delivered \cup {id} /\ toAck' = toAck \cup {id}
  /\ erased' = erased \cup {id}
  /\ UNCHANGED <<inbox, saved, held, session, sessions, senderVars, failures, unsaved>>

AckEarly(id) == \* mutant: the frame is acknowledged before it is stored
  /\ session # 0 /\ id \in held
  /\ held' = held \ {id} /\ toAck' = toAck \ {id}
  /\ UNCHANGED <<inbox, saved, delivered, session, sessions, senderVars,
                 failures, unsaved, erased>>

Acknowledge(id) ==
  /\ session # 0 /\ id \in toAck
  /\ held' = held \ {id} /\ toAck' = toAck \ {id}
  /\ UNCHANGED <<inbox, saved, delivered, session, sessions, senderVars,
                 failures, unsaved, erased>>

-----------------------------------------------------------------------------
(* send_private_message: the thread checks that the session is up and      *)
(* clones its sender, queues the message, and hands it to the session.     *)
CloneSender ==
  /\ session # 0 /\ channel = 0 /\ sent < MaxOutgoing
  /\ channel' = session
  /\ UNCHANGED <<inbox, saved, serverVars, outbox, writing, sent, failures,
                 unsaved, erased>>

QueueOutgoing(peer) ==
  /\ channel # 0 /\ writing = 0 /\ sent < MaxOutgoing
  /\ sent' = sent + 1
  /\ Remembers(Push(peer, [id |-> sent + 1, unread |-> FALSE, delivery |-> "queued"], 0))
  /\ UNCHANGED <<serverVars, outbox>>
  /\ \/ SaveWorks(inbox') /\ writing' = sent + 1 /\ UNCHANGED <<channel, unsaved>>
     \/ SaveFails /\ channel' = 0 /\ UNCHANGED writing
        /\ unsaved' = unsaved \cup {sent + 1}

(* retry: only a message that has failed is queued again.                  *)
SetDelivery(id, delivery) ==
  LET c == CHOOSE d \in Range(inbox) : id \in IdsOf(d)
  IN Foremost([c EXCEPT !.messages = [i \in DOMAIN @ |->
       IF @[i].id = id THEN [@[i] EXCEPT !.delivery = delivery] ELSE @[i]]])

HasFailed(id) ==
  \E c \in Range(inbox) : \E m \in Range(c.messages) :
    m.id = id /\ m.delivery = "failed"

Retry(id) ==
  /\ channel # 0 /\ writing = 0 /\ HasFailed(id)
  /\ Remembers(SetDelivery(id, "queued"))
  /\ UNCHANGED <<serverVars, outbox, sent>>
  /\ \/ SaveWorks(inbox') /\ writing' = id /\ UNCHANGED <<channel, unsaved>>
     \/ SaveFails /\ channel' = 0 /\ UNCHANGED writing
        /\ unsaved' = unsaved \cup {id}

(* mark_sent and mark_failed: the message may be gone by now.              *)
Mark(id, delivery) ==
  IF id \in Known(inbox)
  THEN Remembers(SetDelivery(id, delivery)) /\ (SaveWorks(inbox') \/ SaveFails)
  ELSE UNCHANGED <<inbox, saved, failures, erased>>

HandOver ==
  /\ writing # 0 /\ writing' = 0 /\ channel' = 0
  /\ UNCHANGED <<serverVars, sent, unsaved>>
  /\ IF channel = session
     THEN /\ outbox' = Append(outbox, writing)
          /\ UNCHANGED <<inbox, saved, failures, erased>>
     ELSE /\ UNCHANGED outbox
          /\ \/ Mark(writing, "failed")
             \/ session = 0 \* the aborted task has not dropped its receiver yet
                /\ UNCHANGED <<inbox, saved, failures, erased>>

(* The session writes the message and marks it.  A message that is gone,   *)
(* and a save that fails, end the session.                                 *)
SendOutgoing ==
  /\ session # 0 /\ outbox # <<>>
  /\ UNCHANGED <<writing, channel, sent, unsaved>>
  /\ \/ /\ Head(outbox) \in Known(inbox)
        /\ Remembers(SetDelivery(Head(outbox), "sent")) /\ SaveWorks(inbox')
        /\ outbox' = Tail(outbox)
        /\ UNCHANGED serverVars
     \/ /\ Head(outbox) \in Known(inbox)
        /\ Disconnected /\ SaveFails
        /\ \E delivery \in {"sent", "failed"} :
             LET store == SetDelivery(Head(outbox), delivery)
             IN /\ inbox' = FailQueuedOf(store)
                /\ Erases(store)
     \/ /\ Head(outbox) \notin Known(inbox)
        /\ Disconnected /\ FailQueued(inbox)
        /\ UNCHANGED erased

(* The socket breaks while the message is written.                         *)
SendBreaks ==
  /\ session # 0 /\ outbox # <<>> /\ Head(outbox) \in Known(inbox)
  /\ Disconnected
  /\ LET store == SetDelivery(Head(outbox), "failed")
     IN /\ inbox' = FailQueuedOf(store)
        /\ Erases(store)
  /\ SaveWorks(inbox')
  /\ UNCHANGED <<writing, channel, sent, unsaved>>

-----------------------------------------------------------------------------
(* The operations of the user on a conversation.                           *)
Edits(store) ==
  /\ Remembers(store) /\ (SaveWorks(store) \/ SaveFails)
  /\ UNCHANGED <<serverVars, senderVars, unsaved>>

OpenConversation(peer) == ~Has(peer) /\ Edits(Foremost(Get(peer)))

MarkRead(peer) ==
  /\ Has(peer)
  /\ Edits(InPlace([Get(peer) EXCEPT !.unread = 0,
       !.messages = [i \in DOMAIN @ |-> [@[i] EXCEPT !.unread = FALSE]]]))

MarkUnread(peer) ==
  /\ Has(peer) /\ Get(peer).messages # <<>>
  /\ LET messages == [Get(peer).messages EXCEPT ![Len(Get(peer).messages)].unread = TRUE]
     IN Edits(InPlace([Get(peer) EXCEPT !.messages = messages,
                                        !.unread = UnreadOf(messages)]))

ClearConversation(peer) ==
  Has(peer) /\ Edits(Foremost([Get(peer) EXCEPT !.messages = <<>>, !.unread = 0]))

RemoveConversation(peer) == Has(peer) /\ Edits(Without(peer))

MsgNext ==
  \/ SessionBegins \/ SessionBreaks \/ Restarts
  \/ \E id \in Incoming :
       \/ RecordIncoming(id) \/ RecordIncomingFails(id)
       \/ IgnoreIncoming(id) \/ Acknowledge(id)
  \/ CloneSender \/ HandOver \/ SendOutgoing \/ SendBreaks
  \/ \E id \in 1..MaxOutgoing : Retry(id)
  \/ \E peer \in Peer :
       \/ QueueOutgoing(peer) \/ OpenConversation(peer) \/ MarkRead(peer)
       \/ MarkUnread(peer) \/ ClearConversation(peer) \/ RemoveConversation(peer)

-----------------------------------------------------------------------------
(* The badge counts what it stands for: unread_count of a conversation is  *)
(* the number of its unread messages, whatever was trimmed, cleared or     *)
(* marked in between (messages.rs).                                        *)
UnreadCountsAgree ==
  \A i \in DOMAIN inbox : inbox[i].unread = UnreadOf(inbox[i].messages)

(* While a session is up, a message shown as Queued is one it will still   *)
(* come across: it waits in the channel or in the hand of its thread.      *)
(* Only a message whose save failed stays queued without that.             *)
QueuedIsUnderWay ==
  session # 0 => QueuedIds(inbox) \subseteq Range(outbox) \cup {writing} \cup unsaved

(* An acknowledged message that was not erased is in the file, unless its  *)
(* first save failed.                                                      *)
AckedIsSavedOnce ==
  \A id \in Incoming \ held : id \in Known(saved) \cup erased \cup unsaved

(* docs/connection-architecture.md:22: incoming private messages persist   *)
(* before the acknowledgement is written.                                  *)
AckedIsSaved ==
  \A id \in Incoming \ held : id \in Known(saved) \cup erased
=============================================================================
