---------------------------- MODULE WidgetStream ----------------------------
(***************************************************************************)
(* A streamed answer on its way from the language model to the screen of a *)
(* widget's visitor: chat_stream of app/infra/llm.py, stream of            *)
(* app/agent/loop.py, generate of app/routes/widget.py and send of         *)
(* widget/src/ChatWidget.jsx.                                              *)
(*                                                                         *)
(* Events travel as "data: ...", newline, newline; the network delivers    *)
(* them in pieces cut anywhere.  Tokens carry the message they answer, the *)
(* turn of the agent and the provider they come from, and nothing else.    *)
(* A piece cut inside a "data: ..." differs from one cut in front of it    *)
(* only by bytes that stay in the buffer, so that text is one unit.        *)
(*                                                                         *)
(* Whether conversations survive overlapping turns is ChatService's        *)
(* subject; here the record is only which replies have been saved.         *)
(***************************************************************************)
EXTENDS Integers, Sequences, FiniteSetsExt

CONSTANTS
  MaxSends,     \* bound: messages the visitor sends
  MaxTurns,     \* _MAX_TURNS
  MaxCalls,     \* bound: tool calls in one response
  MaxTokens     \* bound: tokens streamed by one response

ASSUME WidgetAssumption ==
  /\ MaxSends \in Nat \ {0}
  /\ MaxTurns \in Nat \ {0}
  /\ {MaxCalls, MaxTokens} \subseteq Nat

Sends == 1..MaxSends

VARIABLES
  providers,   \* the providers with a key
  pc,          \* what the server does for a message
  turn,        \* turns completed by the agent
  calls,       \* tool calls of the turn still to be made
  said,        \* tokens streamed in this turn
  reply,       \* full_reply of generate
  wire,        \* sent by the server, not yet read
  buf,         \* read by the browser, no whole event yet
  reader,      \* the browser's reader of the response
  page,        \* what the visitor sees
  recorded     \* the replies that were saved

server == <<pc, turn, calls, said, reply>>
browser == <<buf, reader, page>>
vars == <<providers, server, wire, browser, recorded>>

Token(r, provider) == <<r, turn[r], provider>>
NoToken == <<0, 0, "none">>
IsToken(t) ==
  \/ t = NoToken
  \/ t \in Sends \X (0..MaxTurns) \X {"openai", "anthropic"}

Event(type, token) == [type |-> type, token |-> token]
Newline == Event("newline", NoToken)
IsEvent(u) == u # Newline
IsTokenEvent(u) == u.type = "token"

\* The text carried by a sequence of units.
TextOf(units) ==
  LET upTo[i \in 0..Len(units)] ==
        IF i = 0 THEN <<>>
        ELSE IF IsTokenEvent(units[i]) THEN Append(upTo[i - 1], units[i].token)
        ELSE upTo[i - 1]
  IN  upTo[Len(units)]

Bubble(role, r, text, streaming, error) ==
  [role |-> role, of |-> r, text |-> text, streaming |-> streaming, error |-> error]

Greeting == Bubble("assistant", 0, <<>>, FALSE, FALSE)
EmptyPage == [bubbles |-> <<Greeting>>, status |-> "", loading |-> FALSE]

Goto(r, step) == pc' = [pc EXCEPT ![r] = step]
Busy == {"load", "llm", "openai", "anthropic", "tools", "save"}

-----------------------------------------------------------------------------
Init ==
  /\ providers \in SUBSET {"openai", "anthropic"} \ {{}}
  /\ pc = [r \in Sends |-> "unsent"]
  /\ turn = [r \in Sends |-> 0]
  /\ calls = [r \in Sends |-> 0]
  /\ said = [r \in Sends |-> 0]
  /\ reply = [r \in Sends |-> <<>>]
  /\ wire = [r \in Sends |-> <<>>]
  /\ buf = [r \in Sends |-> <<>>]
  /\ reader = [r \in Sends |-> "none"]
  /\ page = EmptyPage
  /\ recorded = {}

-----------------------------------------------------------------------------
(* The server.                                                             *)

\* What is sent to a reader that is gone is lost.
Emit(r, event) ==
  wire' = IF reader[r] = "open"
          THEN [wire EXCEPT ![r] = @ \o <<event, Newline, Newline>>]
          ELSE wire

Load(r) ==
  /\ pc[r] = "load"
  /\ Goto(r, "llm")
  /\ UNCHANGED <<providers, turn, calls, said, reply, wire, browser, recorded>>

AskOpenAI(r) ==
  /\ pc[r] = "llm"
  /\ "openai" \in providers
  /\ Goto(r, "openai")
  /\ UNCHANGED <<providers, turn, calls, said, reply, wire, browser, recorded>>

\* Mutant of FallBack: whatever OpenAI's stream raises is caught, also when
\* tokens have been passed on.
FallBack_MidStream(r) ==
  /\ pc[r] \in {"llm", "openai"}
  /\ "anthropic" \in providers
  /\ Goto(r, "anthropic")
  /\ UNCHANGED <<providers, turn, calls, said, reply, wire, browser, recorded>>

\* OpenAI has no key, or refused the request.  A stream that breaks later
\* raises an error chat_stream does not catch: an httpx error, or an APIError
\* that is neither a status nor a connection error.
FallBack(r) ==
  /\ pc[r] = "llm"
  /\ "anthropic" \in providers
  /\ Goto(r, "anthropic")
  /\ UNCHANGED <<providers, turn, calls, said, reply, wire, browser, recorded>>

Speak(r, provider) ==
  /\ reply' = [reply EXCEPT ![r] = Append(@, Token(r, provider))]
  /\ Emit(r, Event("token", Token(r, provider)))

OpenAIToken(r) ==
  /\ pc[r] = "openai"
  /\ said[r] < MaxTokens
  /\ said' = [said EXCEPT ![r] = @ + 1]
  /\ Speak(r, "openai")
  /\ UNCHANGED <<providers, pc, turn, calls, browser, recorded>>

\* The response is complete: the agent answers the tool calls, or is done.
EndResponse(r, n) ==
  /\ calls' = [calls EXCEPT ![r] = n]
  /\ said' = [said EXCEPT ![r] = 0]
  /\ Goto(r, IF n = 0 THEN "save" ELSE "tools")

OpenAIEnds(r) ==
  /\ pc[r] = "openai"
  /\ \E n \in 0..MaxCalls : EndResponse(r, n)
  /\ UNCHANGED <<providers, turn, reply, wire, browser, recorded>>

\* Anthropic does not stream: tool calls, or the whole text as one token, if
\* there is any.
AnthropicAnswers(r) ==
  /\ pc[r] = "anthropic"
  /\ \/ /\ \E n \in 0..MaxCalls : EndResponse(r, n)
        /\ UNCHANGED <<reply, wire>>
     \/ /\ Speak(r, "anthropic")
        /\ EndResponse(r, 0)
  /\ UNCHANGED <<providers, turn, browser, recorded>>

\* Mutant of CallTool: no "done" after the last turn.
CallTool_Silent(r) ==
  LET last == calls[r] = 1 IN
  /\ pc[r] = "tools"
  /\ Emit(r, Event("status", NoToken))
  /\ calls' = [calls EXCEPT ![r] = @ - 1]
  /\ turn' = IF last THEN [turn EXCEPT ![r] = @ + 1] ELSE turn
  /\ Goto(r, IF ~last THEN "tools" ELSE IF turn[r] + 1 < MaxTurns THEN "llm" ELSE "ended")
  /\ UNCHANGED <<providers, said, reply, browser, recorded>>

\* A status event, then the call.  What the tool returns is for the model.
CallTool(r) ==
  LET last == calls[r] = 1 IN
  /\ pc[r] = "tools"
  /\ Emit(r, Event("status", NoToken))
  /\ calls' = [calls EXCEPT ![r] = @ - 1]
  /\ turn' = IF last THEN [turn EXCEPT ![r] = @ + 1] ELSE turn
  /\ Goto(r, IF ~last THEN "tools" ELSE IF turn[r] + 1 < MaxTurns THEN "llm" ELSE "save")
  /\ UNCHANGED <<providers, said, reply, browser, recorded>>

Saved(r) == [of |-> r, text |-> reply[r]]

\* Mutant of SaveReply: "done" goes out before the reply is saved.
SaveReply_DoneFirst(r) ==
  /\ pc[r] = "save"
  /\ recorded' \in {recorded, recorded \cup {Saved(r)}}
  /\ Emit(r, Event("done", NoToken))
  /\ Goto(r, "ended")
  /\ UNCHANGED <<providers, turn, calls, said, reply, browser>>

\* The agent's "done" makes generate save the reply and pass a "done" on.
SaveReply(r) ==
  /\ pc[r] = "save"
  /\ recorded' = recorded \cup {Saved(r)}
  /\ Emit(r, Event("done", NoToken))
  /\ Goto(r, "ended")
  /\ UNCHANGED <<providers, turn, calls, said, reply, browser>>

\* The widget is unknown, Redis, the providers or the process fail, a call's
\* arguments are no JSON, or the generator is cancelled because its reader is
\* gone.  A save that was under way may have been done.
ServerFails(r) ==
  /\ pc[r] \in Busy
  /\ recorded' \in {recorded} \cup (IF pc[r] = "save" THEN {recorded \cup {Saved(r)}} ELSE {})
  /\ Goto(r, "failed")
  /\ UNCHANGED <<providers, turn, calls, said, reply, wire, browser>>

-----------------------------------------------------------------------------
(* The browser.                                                            *)

\* The visitor sends; while an answer is loading the page refuses.
Send(r) ==
  /\ pc[r] = "unsent"
  /\ \A s \in 1..(r - 1) : pc[s] # "unsent"
  /\ ~page.loading
  /\ page' = [bubbles |-> page.bubbles \o <<Bubble("user", r, <<>>, FALSE, FALSE),
                                            Bubble("assistant", r, <<>>, TRUE, FALSE)>>,
              status |-> "thinking", loading |-> TRUE]
  /\ reader' = [reader EXCEPT ![r] = "open"]
  /\ Goto(r, "load")
  /\ UNCHANGED <<providers, turn, calls, said, reply, wire, buf, recorded>>

LastBubble(p) == p.bubbles[Len(p.bubbles)]

\* One event of the stream.  Only an assistant's bubble is changed.
Handle(p, event) ==
  LET b == LastBubble(p)
      changed == Bubble(b.role, b.of,
                        IF IsTokenEvent(event) THEN Append(b.text, event.token) ELSE b.text,
                        b.streaming /\ event.type # "done", b.error)
  IN  [bubbles |-> IF b.role = "assistant"
                   THEN [p.bubbles EXCEPT ![Len(p.bubbles)] = changed] ELSE p.bubbles,
       status |-> IF event.type = "status" THEN "tool" ELSE "",
       loading |-> p.loading]

\* The events among some units, one after the other.
HandleAll(p, units) ==
  LET after[i \in 0..Len(units)] ==
        IF i = 0 THEN p
        ELSE IF IsEvent(units[i]) THEN Handle(after[i - 1], units[i])
        ELSE after[i - 1]
  IN  after[Len(units)]

\* Where the last whole event in a buffer ends: buf.split of two newlines.
LastBreak(units) ==
  Max({0} \cup {i \in 2..Len(units) : units[i - 1] = Newline /\ units[i] = Newline})

\* Mutant of Receive: what follows the last whole event is thrown away.
Receive_DropsRemainder(r, n) ==
  LET units == buf[r] \o SubSeq(wire[r], 1, n)
      end == LastBreak(units) IN
  /\ reader[r] = "open"
  /\ wire' = [wire EXCEPT ![r] = SubSeq(@, n + 1, Len(@))]
  /\ buf' = [buf EXCEPT ![r] = <<>>]
  /\ page' = HandleAll(page, SubSeq(units, 1, end))
  /\ UNCHANGED <<providers, server, reader, recorded>>

\* A piece of n units arrives; its whole events are handled.
Receive(r, n) ==
  LET units == buf[r] \o SubSeq(wire[r], 1, n)
      end == LastBreak(units) IN
  /\ reader[r] = "open"
  /\ wire' = [wire EXCEPT ![r] = SubSeq(@, n + 1, Len(@))]
  /\ buf' = [buf EXCEPT ![r] = SubSeq(units, end + 1, Len(units))]
  /\ page' = HandleAll(page, SubSeq(units, 1, end))
  /\ UNCHANGED <<providers, server, reader, recorded>>

\* The response is over and loading ends.
CloseReader(r) ==
  /\ reader' = [reader EXCEPT ![r] = "closed"]
  /\ wire' = [wire EXCEPT ![r] = <<>>]
  /\ buf' = [buf EXCEPT ![r] = <<>>]

ReaderEnds(r) ==
  /\ reader[r] = "open"
  /\ pc[r] = "ended"
  /\ wire[r] = <<>>
  /\ CloseReader(r)
  /\ page' = [page EXCEPT !.loading = FALSE]
  /\ UNCHANGED <<providers, server, recorded>>

Apology(r) == Bubble("assistant", r, <<>>, FALSE, TRUE)

\* Mutant of ReaderFails: loading is not reset.
ReaderFails_StillLoading(r) ==
  LET b == LastBubble(page) IN
  /\ reader[r] = "open"
  /\ CloseReader(r)
  /\ page' = [page EXCEPT !.bubbles = IF b.role = "assistant" /\ b.streaming
                                      THEN [@ EXCEPT ![Len(@)] = Apology(r)]
                                      ELSE Append(@, Apology(r)),
                          !.status = ""]
  /\ UNCHANGED <<providers, server, recorded>>

\* The connection breaks, or the server refused or broke off the response:
\* an unfinished answer gives way to an apology.
ReaderFails(r) ==
  LET b == LastBubble(page) IN
  /\ reader[r] = "open"
  /\ CloseReader(r)
  /\ page' = [bubbles |-> IF b.role = "assistant" /\ b.streaming
                          THEN [page.bubbles EXCEPT ![Len(page.bubbles)] = Apology(r)]
                          ELSE Append(page.bubbles, Apology(r)),
              status |-> "", loading |-> FALSE]
  /\ UNCHANGED <<providers, server, recorded>>

\* The visitor reloads the page: its readers are gone.
Reload ==
  /\ page # EmptyPage
  /\ page' = EmptyPage
  /\ reader' = [r \in Sends |-> IF reader[r] = "open" THEN "closed" ELSE reader[r]]
  /\ wire' = [r \in Sends |-> <<>>]
  /\ buf' = [r \in Sends |-> <<>>]
  /\ UNCHANGED <<providers, server, recorded>>

Finished ==
  /\ \A r \in Sends : pc[r] \in {"ended", "failed"} /\ reader[r] = "closed"
  /\ UNCHANGED vars

-----------------------------------------------------------------------------
Serve(r) ==
  \/ Load(r)
  \/ AskOpenAI(r)
  \/ FallBack(r)
  \/ OpenAIToken(r)
  \/ OpenAIEnds(r)
  \/ AnthropicAnswers(r)
  \/ CallTool(r)
  \/ SaveReply(r)
  \/ ServerFails(r)

Read(r) ==
  \/ \E n \in 1..Len(wire[r]) : Receive(r, n)
  \/ ReaderEnds(r)

Next ==
  \/ \E r \in Sends : Send(r) \/ Serve(r) \/ Read(r) \/ ReaderFails(r)
  \/ Reload
  \/ Finished

\* The server's awaits end; what was sent arrives; and a browser whose
\* response is broken off learns of it.
Fairness == \A r \in Sends :
  /\ WF_vars(Serve(r))
  /\ WF_vars(Read(r))
  /\ WF_vars(pc[r] = "failed" /\ ReaderFails(r))

Spec == Init /\ [][Next]_vars /\ Fairness

-----------------------------------------------------------------------------
Text(s) == \A i \in 1..Len(s) : IsToken(s[i])
Units(s) == \A i \in 1..Len(s) :
  /\ s[i].type \in {"token", "status", "done", "newline"}
  /\ IsToken(s[i].token)

TypeOK ==
  /\ providers \subseteq {"openai", "anthropic"}
  /\ pc \in [Sends -> {"unsent", "ended", "failed"} \cup Busy]
  /\ turn \in [Sends -> 0..MaxTurns]
  /\ calls \in [Sends -> 0..MaxCalls]
  /\ said \in [Sends -> 0..MaxTokens]
  /\ reader \in [Sends -> {"none", "open", "closed"}]
  /\ \A r \in Sends : Text(reply[r]) /\ Units(wire[r]) /\ Units(buf[r])
  /\ page.status \in {"", "thinking", "tool"}
  /\ page.loading \in BOOLEAN
  /\ \A i \in 1..Len(page.bubbles) : LET b == page.bubbles[i] IN
       /\ b.role \in {"user", "assistant"}
       /\ b.of \in 0..MaxSends
       /\ Text(b.text)
       /\ {b.streaming, b.error} \subseteq BOOLEAN
  /\ \A s \in recorded : s.of \in Sends /\ Text(s.text)
  /\ \A r \in Sends : pc[r] = "llm" => turn[r] < MaxTurns

\* However the network cuts the stream, what the visitor reads so far, followed
\* by what is under way, is what the server has said so far; and it stands in
\* the bubble of the message it answers.
NothingLostOnTheWay ==
  \A r \in Sends : reader[r] = "open" =>
    LET b == LastBubble(page) IN
    /\ b.role = "assistant" /\ b.of = r
    /\ b.text \o TextOf(buf[r] \o wire[r]) = reply[r]

\* A reply the page shows as finished was saved, word for word: the model will
\* know of it in the next turn.
FinishedMeansSaved ==
  \A i \in 1..Len(page.bubbles) : LET b == page.bubbles[i] IN
    b.role = "assistant" /\ b # Greeting /\ ~b.streaming /\ ~b.error =>
      [of |-> b.of, text |-> b.text] \in recorded

\* What the agent says in one turn comes from one provider: the fallback never
\* continues or repeats what OpenAI has begun.
OneVoicePerTurn ==
  \A r \in Sends : \A i, j \in 1..Len(reply[r]) :
    reply[r][i][2] = reply[r][j][2] => reply[r][i][3] = reply[r][j][3]

\* A page that is not loading shows no unfinished answer and no status, and a
\* page that is loading reads exactly one response.
PageIsSettled ==
  /\ ~page.loading => /\ page.status = ""
                      /\ \A i \in 1..Len(page.bubbles) : ~page.bubbles[i].streaming
  /\ \A r, s \in Sends : reader[r] = "open" /\ reader[s] = "open" => r = s
  /\ page.loading <=> \E r \in Sends : reader[r] = "open"

\* The page never stays busy: every answer ends, with its text or an apology.
LoadingEnds == page.loading ~> ~page.loading
=============================================================================
