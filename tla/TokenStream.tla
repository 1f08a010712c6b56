----------------------------- MODULE TokenStream -----------------------------
(***************************************************************************)
(* POST /generate/stream: the model's tokens as server-sent events         *)
(* (core/sse.py), read in chunks that end anywhere (readSse) and added to  *)
(* the page's text (hooks/use-generate-stream.ts).                         *)
(***************************************************************************)
EXTENDS AiService, SequencesExt

CONSTANTS Streams, Tokens \* bounds: requests, and tokens of an answer

ASSUME TokenStreamAssumption == Streams \in Nat /\ Tokens \in Nat

VARIABLES
    current,    \* the current request, counted; 0: none yet
    server, \* what the API has done for it: "asked", "streaming" or "closed"
    said,   \* the tokens the model gave for it
    wire,   \* what the page has not read yet, as halves of events
    buffer, \* readSse's remainder: what was read and is no whole event yet
    view    \* status and text on the page, and the cause of an error

streamVars == <<current, server, said, wire, buffer, view>>

StreamInit ==
    /\ current = 0 /\ server = "closed" /\ said = <<>> /\ wire = <<>> /\ buffer = <<>>
    /\ view = [status |-> "idle", text |-> <<>>, stopped |-> FALSE]

Busy == view.status \in {"waiting", "streaming"}

\* An event on the wire: a chunk may end in the middle of it.
Event(kind, n) == <<[kind |-> kind, n |-> n, last |-> FALSE], [kind |-> kind, n |-> n, last |-> TRUE]>>
Cause(c) == Event("error", c)

\* start: what a previous request still had to say is never read.  The button is disabled while one
\* runs (kit-gallery.tsx:384); the hook's own start would abort it, and its late AbortError would then
\* set the new request's status.
StartStream ==
    /\ ~Busy /\ current < Streams
    /\ current' = current + 1 /\ server' = "asked" /\ said' = <<>> /\ wire' = <<>> /\ buffer' = <<>>
    /\ view' = [status |-> "waiting", text |-> <<>>, stopped |-> FALSE]

\* stop: the fetch rejects with an AbortError; nothing more of it is read.
StopStream ==
    /\ Busy /\ server' = "closed" /\ wire' = <<>> /\ buffer' = <<>>
    /\ view' = [view EXCEPT !.status = IF @ = "waiting" THEN "idle" ELSE "done", !.stopped = TRUE]
    /\ UNCHANGED <<current, said>>

\* The request is refused before any event, or the connection breaks: an exception in the hook.
BrokenStream ==
    /\ Busy /\ server' = "closed" /\ wire' = <<>> /\ buffer' = <<>>
    /\ view' = [view EXCEPT !.status = "error"] /\ UNCHANGED <<current, said>>

Says(events) == wire' = wire \o events

\* stream_tokens: token* and then done, or an error.
ServerStep ==
    /\ server \in {"asked", "streaming"}
    /\ \/ /\ Len(said) < Tokens /\ said' = Append(said, <<current, Len(said) + 1>>)
          /\ Says(Event("token", Last(said'))) /\ server' = "streaming"
       \/ Says(Event("done", 0)) /\ server' = "closed" /\ UNCHANGED said
       \/ Says(Cause("ai_unavailable")) /\ server' = "closed" /\ UNCHANGED said
    /\ UNCHANGED <<current, buffer, view>>

\* Mutant of Rest: what is left of a chunk is dropped.
RestDropped(halves) == <<>>

\* The part of an event at the end of what was read so far waits for the next chunk.
Rest(halves) == IF Last(halves).last THEN <<>> ELSE <<Last(halves)>>

\* The positions of S, ascending.
InOrder(S) == CHOOSE f \in [1..Cardinality(S) -> S] : \A i, j \in DOMAIN f : i < j => f[i] < f[j]

\* The whole events of what was read so far, in order: those whose end came after their beginning.
Whole(halves) ==
    LET ends == InOrder({i \in DOMAIN halves : halves[i].last /\ i > 1}) IN [k \in DOMAIN ends |-> halves[ends[k]]]

\* One chunk: its events are handled without a pause.  An error event ends the reading.
ReadChunk ==
    /\ Busy /\ wire # <<>>
    /\ \E n \in 1..Len(wire) :
         LET halves == buffer \o SubSeq(wire, 1, n)
             events == Whole(halves)
             tokens == InOrder({i \in DOMAIN events : events[i].kind = "token"})
             failed == \E i \in DOMAIN events : events[i].kind = "error"
         IN  /\ buffer' = Rest(halves) /\ wire' = SubSeq(wire, n + 1, Len(wire))
             /\ view' = [view EXCEPT !.text = @ \o [i \in DOMAIN tokens |-> events[tokens[i]].n],
                           !.status = IF failed THEN "error" ELSE IF tokens = <<>> THEN @ ELSE "streaming"]
    /\ UNCHANGED <<current, server, said>>

\* The stream is over: whatever the last event was.
EndOfStream ==
    /\ Busy /\ wire = <<>> /\ server = "closed"
    /\ view' = [view EXCEPT !.status = "done"] /\ UNCHANGED <<current, server, said, wire, buffer>>

StreamNext == StartStream \/ StopStream \/ BrokenStream \/ ServerStep \/ ReadChunk \/ EndOfStream

-----------------------------------------------------------------------------
(* What is claimed. *)

\* The page shows what the model said for the current request, from the first token on and without
\* a gap, wherever the chunks were cut; "done" without a stop means that it shows all of it.
StreamFaithful ==
    /\ IsPrefix(view.text, said)
    /\ view.status = "done" /\ ~view.stopped => view.text = said /\ server = "closed"
==============================================================================
