----------------------------- MODULE MessageEdits -----------------------------
(***************************************************************************)
(* messages.content and its revision history message_edits: sending, and   *)
(* the two transactions of routes/messages.js that change a sent message,  *)
(* edit and task toggle, each under the message's row lock.                *)
(*                                                                         *)
(* A content is <<text, version>>: the text stands for the words with      *)
(* their mentions and [[Entity]] tokens; a new version comes with every    *)
(* write, a toggled checkbox included.                                     *)
(***************************************************************************)
EXTENDS Naturals, Sequences

CONSTANTS
    Handlers,       \* request and socket-frame handlers at work at once
    Messages,       \* message ids
    Texts,          \* the texts a message may hold
    MaxWrites       \* bound: sends and started updates

ASSUME MaxWritesAssumption == MaxWrites \in Nat

Contents == Texts \X (1 .. MaxWrites)
NoContent == <<>>

VARIABLES
    content,    \* messages.content, NoContent before the message is sent
    edits,      \* message_edits, per message, oldest first
    rowLock,    \* the transactions that hold a message's row lock
    tx,         \* the transaction each handler is in
    read,       \* the content it read under the row lock
    writes      \* history: how many writes so far

messageVars == <<content, edits, rowLock, tx, read, writes>>

InitMessages ==
    /\ content = [m \in Messages |-> NoContent]
    /\ edits = [m \in Messages |-> <<>>]
    /\ rowLock = [m \in Messages |-> {}]
    /\ tx = [h \in Handlers |-> "none"]
    /\ read = [h \in Handlers |-> NoContent]
    /\ writes = 0

\* createMessage, over REST or as a `message` frame.
createMessage(h, m) ==
    /\ tx[h] = "none"
    /\ content[m] = NoContent
    /\ writes < MaxWrites
    /\ writes' = writes + 1
    /\ \E t \in Texts : content' = [content EXCEPT ![m] = <<t, writes'>>]
    /\ UNCHANGED <<edits, rowLock, tx, read>>

\* Mutant: the row is read without forUpdate().
ReadUnlocked(h, m) ==
    /\ rowLock' = [rowLock EXCEPT ![m] = @ \cup {h}]
    /\ read' = [read EXCEPT ![h] = content[m]]

\* SELECT ... FOR UPDATE: granted when no other transaction holds the row.
ReadForUpdate(h, m) ==
    /\ rowLock[m] = {}
    /\ rowLock' = [rowLock EXCEPT ![m] = {h}]
    /\ read' = [read EXCEPT ![h] = content[m]]

BeginUpdate(h, m) ==
    /\ tx[h] = "none"
    /\ content[m] # NoContent
    /\ writes < MaxWrites
    /\ writes' = writes + 1
    /\ ReadForUpdate(h, m)
    /\ \E kind \in {"edit", "toggle"} : tx' = [tx EXCEPT ![h] = kind]
    /\ UNCHANGED <<content, edits>>

EndUpdate(h, m) ==
    /\ rowLock' = [rowLock EXCEPT ![m] = @ \ {h}]
    /\ tx' = [tx EXCEPT ![h] = "none"]
    /\ read' = [read EXCEPT ![h] = NoContent]

\* Wrong channel, not the author, past the edit window, no such task, or a
\* failing statement: the transaction rolls back.
RollBack(h, m) ==
    /\ tx[h] # "none" /\ h \in rowLock[m]
    /\ EndUpdate(h, m)
    /\ UNCHANGED <<content, edits, writes>>

\* The content as read goes to message_edits, the new one to messages; commit.
CommitEdit(h, m) ==
    /\ tx[h] = "edit" /\ h \in rowLock[m]
    /\ edits' = [edits EXCEPT ![m] = Append(@, read[h])]
    /\ \E t \in Texts : content' = [content EXCEPT ![m] = <<t, writes>>]
    /\ EndUpdate(h, m)
    /\ UNCHANGED writes

\* setTaskChecked(message.content, taskIndex, checked) keeps everything but the
\* one checkbox; no row of message_edits is written.
CommitToggle(h, m) ==
    /\ tx[h] = "toggle" /\ h \in rowLock[m]
    /\ content' = [content EXCEPT ![m] = <<read[h][1], writes>>]
    /\ EndUpdate(h, m)
    /\ UNCHANGED <<edits, writes>>

\* A crash of the backend rolls every open transaction back.
RollBackAll ==
    /\ rowLock' = [m \in Messages |-> {}]
    /\ tx' = [h \in Handlers |-> "none"]
    /\ read' = [h \in Handlers |-> NoContent]
    /\ UNCHANGED <<content, edits, writes>>

NextMessages ==
    \/ RollBackAll
    \/ \E h \in Handlers, m \in Messages :
          \/ createMessage(h, m) \/ BeginUpdate(h, m) \/ RollBack(h, m)
          \/ CommitEdit(h, m) \/ CommitToggle(h, m)

MessageSpec == InitMessages /\ [][NextMessages]_messageVars

------------------------------------------------------------------------------
(* Properties *)

\* The types of the two tables and of the transactions' local state.
MessagesTypeOK ==
    /\ content \in [Messages -> Contents \cup {NoContent}]
    /\ edits \in [Messages -> Seq(Contents)]
    /\ rowLock \in [Messages -> SUBSET Handlers]
    /\ tx \in [Handlers -> {"none", "edit", "toggle"}]
    /\ read \in [Handlers -> Contents \cup {NoContent}]
    /\ writes \in 0 .. MaxWrites

\* Concurrent edits and toggles lose nothing: an update either files the very
\* content it replaces in message_edits, or changes no more than a checkbox.
UpdateKeepsHistory ==
    \A m \in Messages :
        content[m] # NoContent /\ content'[m] # content[m] =>
            \/ edits'[m] = Append(edits[m], content[m])
            \/ edits'[m] = edits[m] /\ content'[m][1] = content[m][1]

NoLostEdits == [][UpdateKeepsHistory]_messageVars

==============================================================================
