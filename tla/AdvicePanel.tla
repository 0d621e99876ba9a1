----------------------------- MODULE AdvicePanel -----------------------------
(***************************************************************************)
(* The advice of the language model: App.GenerateRenovationAdvice of       *)
(* nequ3d-app/app.go, which streams it, and runAdvice, typeWriter and      *)
(* setLanguage of nequ3d-app/frontend/src/main.ts, which show it.          *)
(*                                                                         *)
(* An analysis and every change of language start a call; nothing waits    *)
(* for the one before.  All calls write to one panel, and the events       *)
(* "llmToken" and "llmDone" carry no call: each reaches every handler.     *)
(* The result of a call does not travel with the events and may overtake   *)
(* them.  A text is a sequence of characters, each told by the call it is  *)
(* of and the token of the answer it stands in.                            *)
(***************************************************************************)
EXTENDS Integers, Sequences, SequencesExt

CONSTANTS
    MaxCalls,       \* bound: calls of runAdvice
    MaxTokens       \* bound: tokens of one answer

ASSUME BoundsAssumption == MaxCalls \in Nat /\ MaxTokens \in Nat

Calls == 1..MaxCalls

VARIABLES
    analysed,       \* currentRawTelemetry and currentTelemetryData are set
    currentLang,
    stage,          \* stage[c]: where runAdvice is
    language,       \* language[c]: the language in the payload
    panel,          \* the element "ai-output"
    handlers,       \* the calls bound to llmToken and llmDone, in order
    streamedText,   \* streamedText[c]: what its handler has put together
    isStreaming,    \* the calls whose handler has run
    typing,         \* typing[c]: what its typewriter has still to write
    backend,        \* backend[c]: GenerateRenovationAdvice
    fullResponse,   \* fullResponse[c]
    started,        \* the calls whose answer has got past its leading garbage
    tokens,         \* tokens[c]: tokens the model has given
    events,         \* events on their way to the window
    shown,          \* history: the call that settled last
    overlapped,     \* history: a call was asked while another, or its events, were under way
    disturbed       \* history: the panel was written to while a typewriter was at work

windowVars  == <<analysed, currentLang, stage, language>>
panelVars   == <<panel, handlers, streamedText, isStreaming, typing>>
backendVars == <<backend, fullResponse, started, tokens, events>>
historyVars == <<shown, overlapped, disturbed>>
vars == <<windowVars, panelVars, backendVars, historyVars>>

Garbage == 0        \* the place of anything but letters, digits, "-" and "*"
Loading == [kind |-> "loading", text |-> <<>>]
Error   == [kind |-> "error", text |-> <<>>]
Text(s) == [kind |-> "text", text |-> s]
Token(s) == [name |-> "llmToken", text |-> s]
Done     == [name |-> "llmDone", text |-> <<>>]

InFlight == {c \in Calls : stage[c] \in {"capturing", "waiting"}}
Typing   == {c \in Calls : typing[c] # <<>>}

Init ==
    /\ analysed = FALSE /\ currentLang \in {"en", "pl"}
    /\ stage = [c \in Calls |-> "unused"]
    /\ language = [c \in Calls |-> "English"]
    /\ panel = Text(<<>>)
    /\ handlers = <<>> /\ isStreaming = {}
    /\ streamedText = [c \in Calls |-> <<>>]
    /\ typing = [c \in Calls |-> <<>>]
    /\ backend = [c \in Calls |-> "none"]
    /\ fullResponse = [c \in Calls |-> <<>>]
    /\ started = {} /\ tokens = [c \in Calls |-> 0]
    /\ events = <<>>
    /\ shown = 0 /\ overlapped = FALSE /\ disturbed = FALSE

----------------------------------------------------------------------------
(***************************************************************************)
(* runAdvice.                                                              *)
(***************************************************************************)
Write(content) ==
    /\ panel' = content
    /\ disturbed' = (disturbed \/ Typing # {})

\* The language as the payload names it.
Named(lang) == IF lang = "pl" THEN "Polish" ELSE "English"

\* The payload, the handlers and the call, in one stretch without an await.
Ask(c, lang) ==
    /\ stage' = [stage EXCEPT ![c] = "waiting"]
    /\ language' = [language EXCEPT ![c] = Named(lang)]
    /\ handlers' = Append(handlers, c)
    /\ backend' = [backend EXCEPT ![c] = "streaming"]

\* The spinner; with llava there is an await for the picture of the viewer.
RunAdvice(c, lang) ==
    /\ stage[c] = "unused" /\ \A b \in 1..(c - 1) : stage[b] # "unused"
    /\ Write(Loading)
    /\ overlapped' = (overlapped \/ InFlight # {} \/ events # <<>>)
    /\ \/ Ask(c, lang)
       \/ /\ stage' = [stage EXCEPT ![c] = "capturing"]
          /\ UNCHANGED <<language, handlers, backend>>
    /\ UNCHANGED <<streamedText, isStreaming, typing, fullResponse, started, tokens,
                   events, shown>>

\* runAnalysis has its telemetry.
Analysed(c) ==
    /\ analysed' = TRUE
    /\ RunAdvice(c, currentLang)
    /\ UNCHANGED currentLang

Other(lang) == IF lang = "en" THEN "pl" ELSE "en"

\* Faulty variant of SetLanguage: the telemetry is rendered again, no more.
SetLanguageOnly ==
    /\ currentLang' = Other(currentLang)
    /\ UNCHANGED <<analysed, stage, language, panelVars, backendVars, historyVars>>

\* "Re-run LLM advice immediately in new language", if there is telemetry.
SetLanguage ==
    /\ currentLang' = Other(currentLang)
    /\ \/ /\ analysed
          /\ \E c \in Calls : RunAdvice(c, currentLang')
       \/ /\ ~analysed
          /\ UNCHANGED <<stage, language, panelVars, backendVars, historyVars>>
    /\ UNCHANGED analysed

\* The picture was taken, or not; the spinner is shown again.
Captured(c) ==
    /\ stage[c] = "capturing"
    /\ Ask(c, currentLang)
    /\ Write(Loading)
    /\ UNCHANGED <<analysed, currentLang, streamedText, isStreaming, typing, fullResponse,
                   started, tokens, events, shown, overlapped>>

\* event.data[0] || "": Emit with one value puts that value itself into data, so
\* that a handler takes the first character of the token, if it has one.
Received(data) == IF data = <<>> THEN <<>> ELSE <<Head(data)>>

\* An event runs every handler that is bound: what it receives is appended to the
\* text of each and shown, so that the handler bound last has the last word;
\* llmDone unbinds them all.
Deliver ==
    LET event == Head(events)
        bound == ToSet(handlers)
    IN
    /\ events # <<>>
    /\ events' = Tail(events)
    /\ \/ /\ event.name = "llmToken" /\ handlers # <<>>
          /\ streamedText' = [c \in Calls |-> IF c \in bound
                                              THEN streamedText[c] \o Received(event.text)
                                              ELSE streamedText[c]]
          /\ isStreaming' = isStreaming \cup bound
          /\ Write(Text(streamedText'[Last(handlers)]))
          /\ UNCHANGED handlers
       \/ /\ event.name = "llmDone" \/ handlers = <<>>
          /\ handlers' = <<>>
          /\ UNCHANGED <<panel, streamedText, isStreaming, disturbed>>
    /\ UNCHANGED <<windowVars, typing, backend, fullResponse, started, tokens,
                   shown, overlapped>>

\* Faulty variant of Unbind: there is no "finally", llmDone does it.
UnbindNever(c) == UNCHANGED handlers

\* finally.
Unbind(c) == handlers' = RemoveFirst(handlers, c)

\* Faulty variants of Show and ShowError: an answer that was streamed is left as
\* it is; an error is not shown.
ShowStreamed(c) ==
    IF c \in isStreaming THEN UNCHANGED <<panel, disturbed, typing>>
    ELSE Write(Text(<<>>)) /\ typing' = [typing EXCEPT ![c] = fullResponse[c]]
ShowNothing == UNCHANGED <<panel, disturbed>>

\* The answer replaces what was streamed, or is typed if nothing was.
Show(c) ==
    IF c \in isStreaming THEN Write(Text(fullResponse[c])) /\ UNCHANGED typing
    ELSE Write(Text(<<>>)) /\ typing' = [typing EXCEPT ![c] = fullResponse[c]]
ShowError == Write(Error)

\* The promise is settled.
Settle(c) ==
    /\ stage[c] = "waiting"
    /\ \/ backend[c] = "returned" /\ Show(c)
       \/ backend[c] = "failed" /\ ShowError /\ UNCHANGED typing
    /\ Unbind(c)
    /\ stage' = [stage EXCEPT ![c] = "settled"]
    /\ shown' = c
    /\ UNCHANGED <<analysed, currentLang, language, streamedText, isStreaming, backendVars,
                   overlapped>>

\* One tick of typeWriter: it appends to whatever the panel holds by now.
Type(c) ==
    /\ typing[c] # <<>>
    /\ typing' = [typing EXCEPT ![c] = Tail(@)]
    /\ panel' = [panel EXCEPT !.text = Append(@, Head(typing[c]))]
    /\ UNCHANGED <<windowVars, handlers, streamedText, isStreaming, backendVars, historyVars>>

----------------------------------------------------------------------------
(***************************************************************************)
(* GenerateRenovationAdvice.                                               *)
(***************************************************************************)
Clean(character) == character[2] # Garbage
TrimLeft(s) ==
    LET first == SelectInSeq(s, Clean)
    IN IF first = 0 THEN <<>> ELSE SubSeq(s, first, Len(s))

\* Faulty variant of Trimmed: the token that ends the garbage is not emitted.
TrimmedUnsent(c, text) ==
    /\ fullResponse' = [fullResponse EXCEPT ![c] = text]
    /\ started' = started \cup {c}
    /\ UNCHANGED events

\* What is left of the answer once its leading garbage is over.
Trimmed(c, text) ==
    /\ fullResponse' = [fullResponse EXCEPT ![c] = text]
    /\ started' = started \cup {c}
    /\ events' = Append(events, Token(text))

\* A token: garbage, or a letter with garbage after it.
Given(c, n) == {<<<<c, Garbage>>>>, <<<<c, n>>, <<c, Garbage>>>>}

\* A line of the model's stream.
Scan(c) ==
    /\ backend[c] = "streaming" /\ tokens[c] < MaxTokens
    /\ tokens' = [tokens EXCEPT ![c] = @ + 1]
    /\ \E token \in Given(c, tokens'[c]) :
         LET text == fullResponse[c] \o token IN
         \/ /\ c \in started
            /\ fullResponse' = [fullResponse EXCEPT ![c] = text]
            /\ events' = Append(events, Token(token))
            /\ UNCHANGED started
         \/ c \notin started /\ TrimLeft(text) # <<>> /\ Trimmed(c, TrimLeft(text))
         \/ /\ c \notin started /\ TrimLeft(text) = <<>>
            /\ fullResponse' = [fullResponse EXCEPT ![c] = text]
            /\ UNCHANGED <<started, events>>
    /\ UNCHANGED <<windowVars, panelVars, backend, historyVars>>

\* The stream ended: llmDone and the answer; or an error, without an event.
Return(c) ==
    /\ backend[c] = "streaming"
    /\ \/ /\ backend' = [backend EXCEPT ![c] = "returned"]
          /\ events' = Append(events, Done)
       \/ /\ backend' = [backend EXCEPT ![c] = "failed"]
          /\ UNCHANGED events
    /\ UNCHANGED <<windowVars, panelVars, fullResponse, started, tokens, historyVars>>

----------------------------------------------------------------------------
Next ==
    \/ \E c \in Calls : Analysed(c) \/ Scan(c) \/ Type(c)
                         \/ Captured(c) \/ Return(c) \/ Settle(c)
    \/ SetLanguage \/ Deliver

Spec == Init /\ [][Next]_vars

\* The client of the model has a timeout, a picture is taken or fails, and the
\* window delivers what has arrived.
FairSpec ==
    /\ Spec
    /\ \A c \in Calls : WF_vars(Captured(c)) /\ WF_vars(Return(c)) /\ WF_vars(Settle(c))
----------------------------------------------------------------------------
(***************************************************************************)
(* Properties.                                                             *)
(***************************************************************************)
\* Only a call under way has handlers: however it ends, and whoever's llmDone
\* comes first, a call that is over never writes to the panel of the next.
HandlersInFlight == \A i \in DOMAIN handlers : stage[handlers[i]] = "waiting"

Quiet == InFlight = {} /\ Typing = {}

\* What is left in the panel is the whole answer of the call that settled last,
\* or its error, and no mixture: although the tokens of overlapping calls reach
\* each other's handlers and are shown.  (A typewriter is never cancelled, and
\* does mix two answers when the panel is written to while it types.)
SettledAnswerComplete ==
    Quiet /\ ~disturbed /\ shown # 0 =>
        panel = IF backend[shown] = "failed" THEN Error ELSE Text(fullResponse[shown])

\* Once all is quiet the advice is in the language of the window, whenever that
\* was changed.  (Overlapping calls may settle in another order.)
AdviceInLanguage ==
    Quiet /\ ~overlapped /\ shown # 0 => language[shown] = Named(currentLang)

\* The characters of a text stand in this order in another one, the first at its
\* beginning.
Samples(text, answer) ==
    \E at \in [1..Len(text) -> 1..Len(answer)] :
        /\ \A i \in 1..Len(text) : text[i] = answer[at[i]]
        /\ \A i, j \in 1..Len(text) : i < j => at[i] < at[j]
        /\ text # <<>> => at[1] = 1

\* What a call that is alone streams are characters of its own answer, each once, in
\* their order and from its first on, wherever its tokens are cut and however much
\* garbage is trimmed; and there are some once the events have been delivered.
\* (Not a prefix of it: the handler keeps event.data[0], one character of a token.)
StreamSamplesAnswer ==
    ~overlapped => \A c \in Calls :
        stage[c] = "waiting" =>
            /\ Samples(streamedText[c], fullResponse[c])
            /\ events = <<>> /\ c \in started => streamedText[c] # <<>>

\* The spinner goes away: each call shows its answer or its error in the end.
SpinnerEnds == panel.kind = "loading" ~> panel.kind # "loading"
=============================================================================
