------------------------------ MODULE DraftStream ------------------------------
(***************************************************************************)
(* Streamed drafts: StreamChunkTracker (draft_stream.py) and the handlers  *)
(* of adapter.py that edit a draft.  The agent gives the whole text each   *)
(* time; the client gets parts and deltas while the turn is open, and a    *)
(* message of its own once the turn is over.  On the event stream an edit  *)
(* is one step, and text too large for the stream has an error in its      *)
(* place; on a callback URL it suspends in every chunk it posts.           *)
(* A client shows its newest part.  Agent and client are external.         *)
(***************************************************************************)
EXTENDS Integers, FiniteSets, Sequences, SequencesExt

CONSTANTS
  Tasks,
  CallbackTasks,   \* tasks that deliver to a callback URL
  ReasoningTasks,  \* tasks whose dispatch leaves its handle registered
  Texts,           \* what a draft may say
  MaxFlushed,      \* MAX_TERMINATED_FLUSH_ENTRIES
  MaxEdits         \* bound: edits by agents

ASSUME DraftAssumption ==
  /\ CallbackTasks \subseteq Tasks
  /\ ReasoningTasks \subseteq Tasks
  /\ \A text \in Texts : text \in Seq(Int)
  /\ MaxFlushed \in Nat \ {0}
  /\ MaxEdits \in Nat

VARIABLES
  turns,     \* StreamChunkTracker._turns
  uuids,     \* part ids drawn for each task
  over,      \* tasks whose handle is terminated
  left,      \* tasks whose dispatch is past its finally block
  gone,      \* tasks that no send resolves to a handle any more
  flushed,   \* _terminated_stream_flush, oldest first
  edit,      \* the edit of each task that is under way
  view,      \* what the client of each task has made of its chunks
  messages,  \* texts delivered as messages of ended turns since a reconnect
  promised,  \* final texts whose edit returned success
  torn,      \* tasks with a chunk lost, repeated or cut off
  replaced,  \* tasks with an error in place of a chunk
  edits

vars == <<turns, uuids, over, left, gone, flushed, edit, view, messages,
          promised, torn, replaced, edits>>
turnVars == <<over, left, gone>>

\* A kept state has started and has its part open, since _advance opens both.
NoTurn == [part |-> 0, sent |-> << >>, last |-> << >>]
NoEdit == [left |-> << >>, ok |-> TRUE, final |-> FALSE, text |-> << >>]
Idle(t) == edit[t].left = << >>

Chunk(type, part, text) == [type |-> type, part |-> part, text |-> text]

Init ==
  /\ turns = [t \in Tasks |-> NoTurn]
  /\ uuids = [t \in Tasks |-> 0]
  /\ over = {} /\ left = {} /\ gone = {}
  /\ flushed = << >>
  /\ edit = [t \in Tasks |-> NoEdit]
  /\ view = [t \in Tasks |->
       [part |-> 0, open |-> FALSE, text |-> << >>, spoilt |-> FALSE,
        read |-> {}, told |-> {}, lost |-> FALSE]]
  /\ messages = << >>
  /\ promised = [t \in Tasks |-> {}]
  /\ torn = {} /\ replaced = {}
  /\ edits = 0
-----------------------------------------------------------------------------
(* The client (external): it takes the chunks of a task one by one.  Its   *)
(* text is what was sent of its newest part; a part is spoilt by an error  *)
(* in place of some of it.  It has read a text, or was told of an error.   *)

Takes(v, c) ==
  CASE c.type = "start"      -> [v EXCEPT !.open = FALSE, !.text = << >>]
    [] c.type = "text-start" -> [v EXCEPT !.part = c.part, !.open = TRUE, !.text = << >>,
                                          !.spoilt = FALSE, !.lost = @ \/ v.open]
    [] c.type = "text-delta" -> IF v.open /\ c.part = v.part
                                THEN [v EXCEPT !.text = @ \o c.text]
                                ELSE [v EXCEPT !.lost = TRUE]
    [] c.type = "text-end"   -> [v EXCEPT !.open = FALSE,
                                          !.lost = @ \/ ~ v.open \/ c.part # v.part]
    [] c.type = "finish"     -> IF v.spoilt
                                THEN [v EXCEPT !.told = @ \cup {v.text}, !.lost = @ \/ v.open]
                                ELSE [v EXCEPT !.read = @ \cup {v.text}, !.lost = @ \/ v.open]
    [] c.type = "message"    -> [v EXCEPT !.read = @ \cup {c.text}]
    \* errors in place of a delta and of a message
    [] c.type = "lost-delta"   -> [v EXCEPT !.text = @ \o c.text, !.spoilt = TRUE]
    [] c.type = "lost-message" -> [v EXCEPT !.told = @ \cup {c.text}]

TakesAll(v, chunks) ==
  LET seen[n \in 0..Len(chunks)] == IF n = 0 THEN v ELSE Takes(seen[n - 1], chunks[n])
  IN  seen[Len(chunks)]
-----------------------------------------------------------------------------
(* StreamChunkTracker.                                                     *)

Settled(s, text, final) == IF final THEN text ELSE LongestCommonPrefix({s.last, text})

\* Mutant: text that shrinks is no rewrite.
RestartsOnNewWords(s, settled) ==
  settled # << >> /\ ~ IsPrefix(s.sent, settled) /\ ~ IsPrefix(settled, s.sent)
Restarts(s, settled) == settled # << >> /\ ~ IsPrefix(s.sent, settled)

\* Mutant: the old part is left open.
OpensBeside(s, part) ==
  (IF s = NoTurn THEN <<Chunk("start", 0, << >>)>> ELSE << >>)
    \o <<Chunk("text-start", part, << >>)>>
Opens(s, part) ==
  <<IF s = NoTurn THEN Chunk("start", 0, << >>) ELSE Chunk("text-end", s.part, << >>),
    Chunk("text-start", part, << >>)>>

\* The state after a draft, and the chunks it makes.
Advanced(t, text, final) ==
  LET s == turns[t]
      settled == Settled(s, text, final)
      new == s = NoTurn \/ Restarts(s, settled)
      part == IF new THEN uuids[t] + 1 ELSE s.part
      sent == IF new THEN << >> ELSE s.sent
      delta == SubSeq(settled, Len(sent) + 1, Len(settled))
  IN  [state  |-> [part |-> part, last |-> text,
                   sent |-> IF delta = << >> THEN sent ELSE settled],
       chunks |-> (IF new THEN Opens(s, part) ELSE << >>)
               \o (IF delta = << >> THEN << >> ELSE <<Chunk("text-delta", part, delta)>>)
               \o (IF final THEN <<Chunk("text-end", part, << >>), Chunk("finish", 0, << >>)>>
                   ELSE << >>)]
-----------------------------------------------------------------------------
(* edit_message and send_draft.                                            *)

Remembered(t) == {i \in DOMAIN flushed : flushed[i].task = t}

\* Mutant: a full memory takes nothing more.
RememberIfRoom(t, text) ==
  IF Len(flushed) >= MaxFlushed THEN flushed ELSE Append(flushed, [task |-> t, text |-> text])

\* A dict: a key keeps its place; when full the oldest entry goes first.
Remember(t, text) ==
  LET kept == IF Len(flushed) >= MaxFlushed THEN Tail(flushed) ELSE flushed
      at == {i \in DOMAIN kept : kept[i].task = t}
  IN  IF at = {} THEN Append(kept, [task |-> t, text |-> text])
      ELSE [i \in DOMAIN kept |-> IF i \in at THEN [kept[i] EXCEPT !.text = text] ELSE kept[i]]

\* An edit returns: its result, and what a delivered message leaves behind.
Returns(t, ok, final, text, message) ==
  /\ promised' = IF ok /\ final THEN [promised EXCEPT ![t] = @ \cup {text}] ELSE promised
  /\ flushed' = IF ok /\ message THEN Remember(t, text) ELSE flushed

\* Only text can be too large for the stream.  The edit is told of success.
HasText(chunks) == \E i \in DOMAIN chunks : chunks[i].type \in {"text-delta", "message"}
Replaced(chunks) ==
  [i \in DOMAIN chunks |->
     [chunks[i] EXCEPT !.type = IF @ = "text-delta" THEN "lost-delta"
                                ELSE IF @ = "message" THEN "lost-message" ELSE @]]

\* Deliver chunks for an edit: at once on the event stream.
Deliver(t, chunks, final, text) ==
  IF t \in CallbackTasks /\ chunks # << >>
  THEN /\ edit' = [edit EXCEPT ![t] =
                     [left |-> chunks, ok |-> TRUE, final |-> final, text |-> text]]
       /\ UNCHANGED <<view, messages, promised, flushed, replaced>>
  ELSE LET message == chunks # << >> /\ Head(chunks).type = "message" IN
       /\ \/ /\ view' = [view EXCEPT ![t] = TakesAll(@, chunks)]
             /\ UNCHANGED replaced
          \/ /\ HasText(chunks)
             /\ view' = [view EXCEPT ![t] = TakesAll(@, Replaced(chunks))]
             /\ replaced' = replaced \cup {t}
       /\ messages' = IF message THEN Append(messages, <<t, text>>) ELSE messages
       /\ Returns(t, TRUE, final, text, message)
       /\ UNCHANGED edit

\* Mutant: the text of an ended turn is never sent.
NothingAfterEnd(t, text) == << >>
\* The message an ended turn's draft becomes, unless it was the last one.
AfterEnd(t, text) ==
  IF text = << >> \/ \E i \in Remembered(t) : flushed[i].text = text THEN << >>
  ELSE <<Chunk("message", 0, text)>>

Discard(t) == turns' = [turns EXCEPT ![t] = NoTurn]

EditOpen(t, text, final) ==
  LET advanced == Advanced(t, text, final) IN
  /\ t \notin over
  /\ turns' = [turns EXCEPT ![t] = IF final THEN NoTurn ELSE advanced.state]
  /\ uuids' = [uuids EXCEPT ![t] = IF advanced.state.part > @ THEN advanced.state.part ELSE @]
  /\ Deliver(t, advanced.chunks, final, text)

EditEnded(t, text, final) ==
  /\ t \in over
  /\ Discard(t)
  /\ Deliver(t, AfterEnd(t, text), final, text)
  /\ UNCHANGED uuids

\* One agent edits the drafts of a task, one edit after the other.
Edit(t, text, final) ==
  /\ t \notin gone
  /\ Idle(t)
  /\ edits < MaxEdits
  /\ edits' = edits + 1
  /\ EditOpen(t, text, final) \/ EditEnded(t, text, final)
  /\ UNCHANGED <<turnVars, torn>>

MayFail(t) == t \notin torn   \* bound: one fault in the life of a task

\* A chunk that is posted to a callback URL: the client takes it some number
\* of times, and a success means at least once.  The loop goes on after a failure.
Posted(t, copies, ok) ==
  LET e == edit[t]
      c == Head(e.left)
      done == Tail(e.left) = << >>
  IN  /\ ~ Idle(t)
      /\ ok => copies > 0
      /\ (ok /\ copies = 1) \/ MayFail(t)
      /\ view' = [view EXCEPT ![t] = TakesAll(@, [i \in 1..copies |-> c])]
      /\ torn' = IF ok /\ copies = 1 THEN torn ELSE torn \cup {t}
      /\ messages' = IF c.type = "message" /\ copies > 0
                     THEN Append(messages, <<t, e.text>>) ELSE messages
      /\ edit' = [edit EXCEPT ![t] = IF done THEN NoEdit
                    ELSE [e EXCEPT !.left = Tail(@), !.ok = @ /\ ok]]
      /\ IF done THEN Returns(t, e.ok /\ ok, e.final, e.text, c.type = "message")
         ELSE UNCHANGED <<promised, flushed>>
      /\ UNCHANGED <<turns, uuids, turnVars, replaced, edits>>
-----------------------------------------------------------------------------
(* The turn.                                                               *)

\* Terminated by the settle loop, an error, an interrupt or disconnect.
Terminate(t) ==
  /\ t \notin over \cup left
  /\ over' = over \cup {t}
  /\ UNCHANGED <<turns, uuids, left, gone, flushed, edit, view, messages, promised, torn,
                 replaced, edits>>

\* The hard timeout cuts off the agent, in the middle of an edit or not.
TimesOut(t) ==
  /\ t \notin over \cup left
  /\ over' = over \cup {t}
  /\ edit' = [edit EXCEPT ![t] = NoEdit]
  /\ torn' = IF Idle(t) THEN torn ELSE torn \cup {t}
  /\ UNCHANGED <<turns, uuids, left, gone, flushed, view, messages, promised, replaced, edits>>

\* The finally block of the dispatch.  A reasoning turn is not terminated, and
\* what its agent goes on to draft is streamed.
DispatchEnds(t) ==
  /\ t \notin left
  /\ t \in over \cup ReasoningTasks
  /\ left' = left \cup {t}
  /\ Discard(t)
  /\ UNCHANGED <<uuids, over, gone, flushed, edit, view, messages, promised, torn,
                 replaced, edits>>

\* disconnect has terminated the open turns and clears the tables.
Disconnect ==
  /\ over' = over \cup (Tasks \ left)
  /\ gone' = gone \cup (left \ over)
  /\ turns' = [t \in Tasks |-> NoTurn]
  /\ flushed' = << >>
  /\ messages' = << >>
  /\ UNCHANGED <<uuids, left, edit, view, promised, torn, replaced, edits>>
-----------------------------------------------------------------------------
Next ==
  \/ \E t \in Tasks :
       \/ \E text \in Texts, final \in BOOLEAN : Edit(t, text, final)
       \/ \E copies \in 0..2, ok \in BOOLEAN : Posted(t, copies, ok)
       \/ Terminate(t)
       \/ TimesOut(t)
       \/ DispatchEnds(t)
  \/ Disconnect

Spec == Init /\ [][Next]_vars
-----------------------------------------------------------------------------
(* Correctness.                                                            *)

\* A client can place every chunk it gets: deltas go to the one part that is
\* open, parts end before others begin or the message finishes, whatever was
\* rewritten, ended, forgotten or cleared in between.
EveryChunkHasItsPlace == \A t \in Tasks \ torn : ~ view[t].lost

\* A final draft that returned success has reached the client as written, by
\* the deltas of the last part or, when the turn had ended, as a message; or an
\* error came in place of that message or of a delta of that part.
FinalTextShown ==
  \A t \in Tasks \ torn :
    promised[t] \ {<< >>} \subseteq view[t].read \cup view[t].told

\* The same text is not delivered twice in a row as a message of an ended turn,
\* however many other turns ended and pushed their texts out of the memory.
NoRepeatedMessage ==
  \A i \in 1..Len(messages) - 1 :
    messages[i] = messages[i + 1] => messages[i][1] \in torn

Cut == torn \cup replaced
Shows == INSTANCE Display WITH
  torn  <- Cut,
  shown <- [t \in Tasks |-> IF t \in Cut THEN << >>
                            ELSE TakesAll(view[t], edit[t].left).text],
  last  <- [t \in Tasks |-> IF t \in Cut THEN << >> ELSE turns[t].last],
  begun <- {t \in Tasks \ Cut : turns[t] # NoTurn}

\* Once what has been posted is there, a client shows what Display allows.
ImplementsDisplay == Shows!Spec
=============================================================================
