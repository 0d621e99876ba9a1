---------------------------- MODULE AdviceProofs ----------------------------
(***************************************************************************)
(* Proofs about AdvicePanel for every number of calls, overlapping or not, *)
(* and every length of the answers.                                        *)
(***************************************************************************)
EXTENDS AdvicePanel, SequenceTheorems, WellFoundedInduction, TLAPS

Pieces == Calls \X Nat
Texts  == Seq(Pieces)
Panels == [kind : {"loading", "error", "text"}, text : Texts]
Events == [name : {"llmToken", "llmDone"}, text : Texts]

AdviceTypes ==
    /\ analysed \in BOOLEAN /\ currentLang \in {"en", "pl"}
    /\ stage \in [Calls -> {"unused", "capturing", "waiting", "settled"}]
    /\ language \in [Calls -> {"English", "Polish"}]
    /\ panel \in Panels
    /\ handlers \in Seq(Calls)
    /\ streamedText \in [Calls -> Texts]
    /\ isStreaming \subseteq Calls
    /\ typing \in [Calls -> Texts]
    /\ backend \in [Calls -> {"none", "streaming", "returned", "failed"}]
    /\ fullResponse \in [Calls -> Texts]
    /\ started \subseteq Calls
    /\ tokens \in [Calls -> Nat]
    /\ events \in Seq(Events)
    /\ shown \in Calls \cup {0}
    /\ overlapped \in BOOLEAN /\ disturbed \in BOOLEAN

\* Where a call is, at both ends.
Placed(c) ==
    /\ stage[c] \in {"unused", "capturing"} =>
         /\ backend[c] = "none" /\ c \notin started /\ c \notin isStreaming
         /\ streamedText[c] = <<>>
    /\ stage[c] = "waiting" => backend[c] # "none"
    /\ stage[c] = "settled" => backend[c] \in {"returned", "failed"}
    /\ typing[c] # <<>> => stage[c] = "settled"
    /\ shown = c => stage[c] = "settled"
    /\ stage[c] # "unused" => analysed

\* A call is bound once, and only while it is under way.
Bound ==
    /\ \A i \in DOMAIN handlers : stage[handlers[i]] = "waiting"
    /\ \A i, j \in DOMAIN handlers : handlers[i] = handlers[j] => i = j

ControlInv == (\A c \in Calls : Placed(c)) /\ Bound

\* If the panel was left alone while something was typed into it, one answer is typed,
\* and what was typed and what is left of it is the whole; else it shows the answer.
AnswerInv ==
    ~disturbed =>
        /\ Typing # {} =>
             /\ shown # 0 /\ Typing = {shown} /\ backend[shown] = "returned"
             /\ panel.kind = "text" /\ panel.text \o typing[shown] = fullResponse[shown]
        /\ Typing = {} /\ InFlight = {} /\ shown # 0 =>
             panel = IF backend[shown] = "failed" THEN Error ELSE Text(fullResponse[shown])

\* Calls that do not overlap are in flight one at a time, in the language of the window.
LanguageInv ==
    ~overlapped =>
        /\ \A c, d \in InFlight : c = d
        /\ \A c \in Calls : stage[c] = "waiting" => language[c] = Named(currentLang)
        /\ InFlight = {} /\ shown # 0 => language[shown] = Named(currentLang)

\* What is queued, one text after the other, is the rest of the answer.
Rest(queue, text, answer) ==
    \E cut \in [0..Len(queue) -> 0..Len(answer)] :
        /\ cut[0] = Len(text) /\ cut[Len(queue)] = Len(answer)
        /\ text = SubSeq(answer, 1, cut[0])
        /\ \A i \in 1..Len(queue) :
             cut[i - 1] <= cut[i] /\ queue[i].text = SubSeq(answer, cut[i - 1] + 1, cut[i])

\* A text is sampled from another, and not empty unless that is.
Drawn(text, read) == Samples(text, read) /\ (read # <<>> => text # <<>>)

\* The handler has drawn its text from the tokens it was given, and the events
\* bring the rest of the answer.
Ahead(c) ==
    /\ fullResponse[c] # <<>>
    /\ \E read \in Texts : Rest(events, read, fullResponse[c]) /\ Drawn(streamedText[c], read)

Streamed(c) ==
    /\ handlers = <<>> => events = <<>> /\ backend[c] # "streaming"
    /\ \A i \in DOMAIN events : events[i].name = "llmDone" =>
         i = Len(events) /\ events[i].text = <<>> /\ backend[c] = "returned"
    /\ c \notin started =>
         /\ c \notin isStreaming /\ streamedText[c] = <<>>
         /\ \A i \in DOMAIN events : events[i].name # "llmToken"
    /\ c \in started => Ahead(c)

StreamInv ==
    ~overlapped => \A c \in Calls :
        /\ stage[c] = "capturing" => events = <<>>
        /\ stage[c] = "waiting" => Streamed(c)

AdviceInv == AdviceTypes /\ ControlInv /\ AnswerInv /\ LanguageInv /\ StreamInv

----------------------------------------------------------------------------
(***************************************************************************)
(* Sequences: what the operators of the model return.                      *)
(***************************************************************************)

\* A nonempty set of natural numbers has a least element, which Min is.
LEMMA LeastNatural ==
    ASSUME NEW T \in SUBSET Nat, T # {}
    PROVE  \E i \in T : \A j \in T : i <= j
<1> DEFINE R == OpToRel(<, Nat)
<1>1. \E i \in T : \A j \in T : <<j, i>> \notin R
  <2>1. IsWellFoundedOn(R, Nat)
    BY NatLessThanWellFounded
  <2> HIDE DEF R
  <2>2. QED
    BY <2>1, WFMin
<1>2. ASSUME NEW i \in T, NEW j \in T, j < i PROVE <<j, i>> \in R
  BY <1>2 DEF OpToRel
<1>3. \A i, j \in T : ~(j < i) => i <= j
  OBVIOUS
<1>4. QED
  BY <1>1, <1>2, <1>3

LEMMA MinIsLeast ==
    ASSUME NEW T \in SUBSET Nat, T # {}
    PROVE  Min(T) \in T
  BY LeastNatural DEF Min

\* Removing one place closes the gap.
LEMMA WithoutPlace ==
    ASSUME NEW S, NEW s \in Seq(S), NEW n, n = Len(s), NEW k \in 1..n
    PROVE  /\ RemoveAt(s, k) \in Seq(S) /\ DOMAIN RemoveAt(s, k) = 1..(n - 1)
           /\ \A i \in 1..(n - 1) : RemoveAt(s, k)[i] = IF i < k THEN s[i] ELSE s[i + 1]
<1> DEFINE front == SubSeq(s, 1, k - 1)
           back == SubSeq(s, k + 1, n)
<1>1. n \in Nat /\ \A i \in 1..n : s[i] \in S
  BY LenProperties, ElementOfSeq
<1>2. /\ front \in Seq(S) /\ Len(front) = k - 1
      /\ \A i \in 1..(k - 1) : front[i] = s[i]
  <2>1. 1 \in Int /\ k - 1 \in Int /\ \A i \in 1..(k - 1) : s[i] \in S
    BY <1>1
  <2>2. /\ front \in Seq(S) /\ Len(front) = IF 1 <= k - 1 THEN k - 1 - 1 + 1 ELSE 0
        /\ \A i \in 1..(k - 1 - 1 + 1) : front[i] = s[1 + i - 1]
    BY <2>1, SubSeqProperties
  <2> HIDE DEF front
  <2>3. QED
    BY <1>1, <2>2
<1>3. /\ back \in Seq(S) /\ Len(back) = n - k
      /\ \A i \in 1..(n - k) : back[i] = s[k + i]
  <2>1. k + 1 \in Int /\ n \in Int /\ \A i \in (k + 1)..n : s[i] \in S
    BY <1>1
  <2>2. /\ back \in Seq(S) /\ Len(back) = IF k + 1 <= n THEN n - (k + 1) + 1 ELSE 0
        /\ \A i \in 1..(n - (k + 1) + 1) : back[i] = s[k + 1 + i - 1]
    BY <2>1, SubSeqProperties
  <2> HIDE DEF back
  <2>3. QED
    BY <1>1, <2>2
<1>4. RemoveAt(s, k) = front \o back
  BY DEF RemoveAt
<1> HIDE DEF front, back
<1>5. /\ front \o back \in Seq(S) /\ Len(front \o back) = Len(front) + Len(back)
      /\ \A i \in 1..(Len(front) + Len(back)) :
           (front \o back)[i] = IF i <= Len(front) THEN front[i] ELSE back[i - Len(front)]
  BY <1>2, <1>3, ConcatProperties
<1>6. Len(front \o back) = n - 1 /\ DOMAIN (front \o back) = 1..(n - 1)
  <2>1. Len(front \o back) = n - 1
    BY <1>1, <1>2, <1>3, <1>5
  <2>2. QED
    BY <1>5, <2>1, LenProperties
<1>7. ASSUME NEW i \in 1..(n - 1)
      PROVE  (front \o back)[i] = IF i < k THEN s[i] ELSE s[i + 1]
  <2>1. (front \o back)[i] = IF i <= k - 1 THEN front[i] ELSE back[i - (k - 1)]
    BY <1>1, <1>2, <1>3, <1>5
  <2>2. CASE i < k
    BY <1>1, <1>2, <2>1, <2>2
  <2>3. CASE ~(i < k)
    <3>1. i - (k - 1) \in 1..(n - k) /\ k + (i - (k - 1)) = i + 1
      BY <1>1, <2>3
    <3>2. QED
      BY <1>1, <1>3, <2>1, <2>3, <3>1
  <2>4. QED
    BY <2>2, <2>3
<1>8. QED
  BY <1>4, <1>5, <1>6, <1>7

\* A listener that is removed leaves the others as they were.
LEMMA Removed ==
    ASSUME NEW S, NEW s \in Seq(S), NEW e,
           \A i, j \in DOMAIN s : s[i] = s[j] => i = j
    PROVE  /\ RemoveFirst(s, e) \in Seq(S)
           /\ \A i \in DOMAIN RemoveFirst(s, e) :
                RemoveFirst(s, e)[i] # e /\ \E j \in DOMAIN s : RemoveFirst(s, e)[i] = s[j]
           /\ \A i, j \in DOMAIN RemoveFirst(s, e) :
                RemoveFirst(s, e)[i] = RemoveFirst(s, e)[j] => i = j
<1> DEFINE r == RemoveFirst(s, e)
<1>0. Len(s) \in Nat /\ DOMAIN s = 1..Len(s)
  BY LenProperties
<1>1. CASE ~\E i \in 1..Len(s) : s[i] = e
  <2>1. r = s
    BY <1>1 DEF RemoveFirst
  <2>2. QED
    BY <1>0, <1>1, <2>1
<1>2. CASE \E i \in 1..Len(s) : s[i] = e
  <2>1. PICK k \in 1..Len(s) : s[k] = e /\ r = RemoveAt(s, k)
    <3> DEFINE T == {i \in 1..Len(s) : s[i] = e}
    <3>1. r = RemoveAt(s, Min(T))
      BY <1>2 DEF RemoveFirst, SelectInSeq
    <3>2. T \in SUBSET Nat /\ T # {}
      BY <1>0, <1>2
    <3>3. Min(T) \in T
      BY <3>2, MinIsLeast
    <3>4. QED
      BY <3>1, <3>3
  <2>2. /\ r \in Seq(S) /\ DOMAIN r = 1..(Len(s) - 1)
        /\ \A i \in 1..(Len(s) - 1) : r[i] = IF i < k THEN s[i] ELSE s[i + 1]
    BY <2>1, WithoutPlace
  <2> HIDE DEF r
  <2> DEFINE at(i) == IF i < k THEN i ELSE i + 1
  <2>3. ASSUME NEW i \in DOMAIN r
        PROVE  at(i) \in 1..Len(s) /\ at(i) # k /\ r[i] = s[at(i)]
    BY <1>0, <2>2
  <2>4. ASSUME NEW i \in DOMAIN r PROVE r[i] # e /\ \E j \in DOMAIN s : r[i] = s[j]
    <3> HIDE DEF at
    <3>1. QED
      BY <1>0, <2>1, <2>3
  <2>5. ASSUME NEW i \in DOMAIN r, NEW j \in DOMAIN r, r[i] = r[j] PROVE i = j
    <3>1. at(i) = at(j)
      <4> HIDE DEF at
      <4>1. QED
        BY <1>0, <2>3, <2>5
    <3>2. QED
      BY <1>0, <2>2, <3>1
  <2>6. QED
    BY <2>2, <2>4, <2>5 DEF r
<1>3. QED
  BY <1>1, <1>2

LEMMA TrimmedText ==
    ASSUME NEW s \in Texts
    PROVE  TrimLeft(s) \in Texts
<1> DEFINE T == {i \in 1..Len(s) : Clean(s[i])}
           first == IF T # {} THEN Min(T) ELSE 0
<1>0. Len(s) \in Nat
  BY LenProperties DEF Texts
<1>1. TrimLeft(s) = IF first = 0 THEN <<>> ELSE SubSeq(s, first, Len(s))
  BY DEF TrimLeft, SelectInSeq
<1>2. first = 0 \/ first \in 1..Len(s)
  <2>1. CASE T # {}
    <3>1. T \in SUBSET Nat
      BY <1>0
    <3>2. Min(T) \in T
      BY <2>1, <3>1, MinIsLeast
    <3>3. QED
      BY <2>1, <3>2
  <2>2. QED
    BY <2>1
<1> HIDE DEF first
<1>3. first \in 1..Len(s) => SubSeq(s, first, Len(s)) \in Texts
  BY <1>0, SubSeqProperties, ElementOfSeq DEF Texts
<1>4. <<>> \in Texts
  BY EmptySeq DEF Texts
<1>5. QED
  BY <1>1, <1>2, <1>3, <1>4

----------------------------------------------------------------------------
(***************************************************************************)
(* Initially.                                                              *)
(***************************************************************************)
LEMMA EmptyText == <<>> \in Texts /\ Len(<<>>) = 0 /\ DOMAIN <<>> = {}
  BY EmptySeq DEF Texts

LEMMA InitTypes == Init => AdviceTypes
<1> SUFFICES ASSUME Init PROVE AdviceTypes
  OBVIOUS
<1>1. panel \in Panels
  BY EmptyText DEF Init, Panels, Text
<1>2. handlers \in Seq(Calls) /\ events \in Seq(Events)
  BY EmptySeq DEF Init
<1>3. /\ streamedText \in [Calls -> Texts] /\ typing \in [Calls -> Texts]
      /\ fullResponse \in [Calls -> Texts]
  BY EmptyText DEF Init
<1>4. QED
  BY <1>1, <1>2, <1>3 DEF Init, AdviceTypes

LEMMA InitControl == Init => ControlInv
  BY EmptyText, BoundsAssumption DEF Init, ControlInv, Placed, Bound, Calls

LEMMA InitAdvice == Init => AdviceInv
<1> SUFFICES ASSUME Init PROVE AdviceInv
  OBVIOUS
<1>1. Typing = {} /\ InFlight = {} /\ shown = 0
  BY DEF Init, Typing, InFlight
<1>2. AnswerInv /\ LanguageInv /\ StreamInv
  BY <1>1 DEF Init, AnswerInv, LanguageInv, StreamInv
<1>3. QED
  BY <1>2, InitTypes, InitControl DEF AdviceInv

----------------------------------------------------------------------------
(***************************************************************************)
(* Every step keeps the types.                                             *)
(***************************************************************************)
LEMMA WriteTypes ==
    ASSUME AdviceTypes, NEW content \in Panels, Write(content)
    PROVE  panel' \in Panels /\ disturbed' \in BOOLEAN
  BY DEF Write, AdviceTypes

LEMMA ContentTypes ==
    /\ Loading \in Panels /\ Error \in Panels
    /\ \A s \in Texts : Text(s) \in Panels /\ Token(s) \in Events
    /\ Done \in Events
  BY EmptyText DEF Loading, Error, Text, Token, Done, Panels, Events

LEMMA AskTypes ==
    ASSUME AdviceTypes, NEW c \in Calls, NEW lang, Ask(c, lang)
    PROVE  /\ stage' \in [Calls -> {"unused", "capturing", "waiting", "settled"}]
           /\ language' \in [Calls -> {"English", "Polish"}]
           /\ handlers' \in Seq(Calls)
           /\ backend' \in [Calls -> {"none", "streaming", "returned", "failed"}]
<1>1. handlers' \in Seq(Calls)
  BY AppendProperties DEF Ask, AdviceTypes
<1>2. Named(lang) \in {"English", "Polish"}
  BY DEF Named
<1>3. QED
  BY <1>1, <1>2 DEF Ask, AdviceTypes

LEMMA RunTypes ==
    ASSUME AdviceTypes, NEW c \in Calls, NEW lang, RunAdvice(c, lang),
           analysed' \in BOOLEAN, currentLang' \in {"en", "pl"}
    PROVE  AdviceTypes'
<1>1. panel' \in Panels /\ disturbed' \in BOOLEAN
  BY WriteTypes, ContentTypes DEF RunAdvice
<1>2. overlapped' \in BOOLEAN
  BY DEF RunAdvice, AdviceTypes
<1>3. CASE Ask(c, lang)
  <2>1. /\ stage' \in [Calls -> {"unused", "capturing", "waiting", "settled"}]
        /\ language' \in [Calls -> {"English", "Polish"}]
        /\ handlers' \in Seq(Calls)
        /\ backend' \in [Calls -> {"none", "streaming", "returned", "failed"}]
    BY <1>3, AskTypes
  <2>2. QED
    BY <1>1, <1>2, <2>1 DEF RunAdvice, AdviceTypes
<1>4. CASE stage' = [stage EXCEPT ![c] = "capturing"] /\ UNCHANGED <<language, handlers, backend>>
  BY <1>1, <1>2, <1>4 DEF RunAdvice, AdviceTypes
<1>5. QED
  BY <1>3, <1>4 DEF RunAdvice

LEMMA AddedText ==
    ASSUME NEW s \in Texts, NEW t \in Texts
    PROVE  s \o t \in Texts
  BY ConcatProperties DEF Texts

LEMMA TakenEvent ==
    ASSUME AdviceTypes, events # <<>>
    PROVE  Head(events) \in Events /\ Tail(events) \in Seq(Events)
  BY HeadTailProperties DEF AdviceTypes

LEMMA LastBound ==
    ASSUME AdviceTypes, handlers # <<>>
    PROVE  Last(handlers) \in Calls
<1>1. Len(handlers) \in Nat /\ Len(handlers) # 0
  BY EmptySeq, LenProperties DEF AdviceTypes
<1>2. QED
  BY <1>1, ElementOfSeq DEF AdviceTypes, Last

LEMMA BoundCalls ==
    ASSUME AdviceTypes
    PROVE  ToSet(handlers) \subseteq Calls
  BY ElementOfSeq, LenProperties DEF AdviceTypes, ToSet

LEMMA SettleTypes ==
    ASSUME AdviceTypes, ControlInv, NEW c \in Calls, Settle(c)
    PROVE  AdviceTypes'
<1>1. handlers' \in Seq(Calls)
  BY Removed DEF Settle, Unbind, AdviceTypes, ControlInv, Bound
<1>2. panel' \in Panels /\ disturbed' \in BOOLEAN /\ typing' \in [Calls -> Texts]
  <2>1. CASE Write(Text(fullResponse[c])) /\ UNCHANGED typing
    BY <2>1, WriteTypes, ContentTypes DEF AdviceTypes
  <2>2. CASE Write(Text(<<>>)) /\ typing' = [typing EXCEPT ![c] = fullResponse[c]]
    BY <2>2, WriteTypes, ContentTypes, EmptyText DEF AdviceTypes
  <2>3. CASE Write(Error) /\ UNCHANGED typing
    BY <2>3, WriteTypes, ContentTypes DEF AdviceTypes
  <2>4. QED
    BY <2>1, <2>2, <2>3 DEF Settle, Show, ShowError
<1>3. QED
  BY <1>1, <1>2 DEF Settle, AdviceTypes, backendVars

LEMMA Short ==
    ASSUME NEW S, NEW p \in S, NEW q \in S
    PROVE  <<p>> \in Seq(S) /\ <<p, q>> \in Seq(S)
<1>1. <<p>> = Append(<<>>, p) /\ <<p, q>> = Append(<<p>>, q)
  OBVIOUS
<1>2. Append(<<>>, p) \in Seq(S)
  BY EmptySeq, AppendProperties
<1>3. QED
  BY <1>1, <1>2, AppendProperties

LEMMA ReceivedTypes ==
    ASSUME NEW data \in Texts
    PROVE  Received(data) \in Texts
<1>1. <<>> \in Texts
  BY EmptyText
<1>2. data # <<>> => Head(data) \in Pieces
  BY HeadTailProperties DEF Texts
<1>3. \A p \in Pieces : <<p>> \in Texts
  BY Short DEF Texts
<1>4. QED
  BY <1>1, <1>2, <1>3 DEF Received

LEMMA DeliverTypes ==
    ASSUME AdviceTypes, Deliver
    PROVE  AdviceTypes'
<1>1. events # <<>> /\ events' = Tail(events)
  BY DEF Deliver
<1>2. Head(events) \in Events /\ events' \in Seq(Events)
  BY <1>1, TakenEvent
<1>3. CASE handlers' = <<>> /\ UNCHANGED <<panel, streamedText, isStreaming, disturbed>>
  <2>1. handlers' \in Seq(Calls)
    BY <1>3, EmptySeq
  <2>2. QED
    BY <1>2, <1>3, <2>1 DEF AdviceTypes, Deliver, windowVars
<1>4. CASE /\ handlers # <<>> /\ UNCHANGED handlers
           /\ streamedText' = [c \in Calls |-> IF c \in ToSet(handlers)
                                               THEN streamedText[c] \o Received(Head(events).text)
                                               ELSE streamedText[c]]
           /\ isStreaming' = isStreaming \cup ToSet(handlers)
           /\ Write(Text(streamedText'[Last(handlers)]))
  <2>1. \A c \in Calls : streamedText[c] \o Received(Head(events).text) \in Texts
    BY <1>2, ReceivedTypes, AddedText DEF AdviceTypes, Events
  <2>2. streamedText' \in [Calls -> Texts]
    BY <1>4, <2>1 DEF AdviceTypes
  <2>3. isStreaming' \subseteq Calls
    BY <1>4, BoundCalls DEF AdviceTypes
  <2>4. panel' \in Panels /\ disturbed' \in BOOLEAN
    BY <1>4, <2>2, LastBound, WriteTypes, ContentTypes
  <2>5. QED
    BY <1>2, <1>4, <2>2, <2>3, <2>4 DEF AdviceTypes, Deliver, windowVars
<1>5. QED
  BY <1>3, <1>4 DEF Deliver

LEMMA TypeTypes ==
    ASSUME AdviceTypes, NEW c \in Calls, Type(c)
    PROVE  AdviceTypes'
<1>1. Head(typing[c]) \in Pieces /\ Tail(typing[c]) \in Texts
  BY HeadTailProperties DEF Type, AdviceTypes, Texts
<1>2. Append(panel.text, Head(typing[c])) \in Texts
  BY <1>1, AppendProperties DEF AdviceTypes, Panels, Texts
<1>3. panel' \in Panels
  BY <1>2 DEF Type, AdviceTypes, Panels
<1>4. typing' \in [Calls -> Texts]
  BY <1>1 DEF Type, AdviceTypes
<1>5. QED
  BY <1>3, <1>4 DEF Type, AdviceTypes, windowVars, backendVars, historyVars

LEMMA GivenTypes ==
    ASSUME NEW c \in Calls, NEW n \in Nat, NEW token \in Given(c, n)
    PROVE  token \in Texts
<1>1. <<c, Garbage>> \in Pieces /\ <<c, n>> \in Pieces
  BY DEF Pieces, Garbage
<1> DEFINE p == <<c, Garbage>>
           q == <<c, n>>
<1>2. token = <<p>> \/ token = <<q, p>>
  BY DEF Given
<1> HIDE DEF p, q
<1>3. p \in Pieces /\ q \in Pieces
  BY <1>1 DEF p, q
<1>4. <<p>> \in Seq(Pieces) /\ <<q, p>> \in Seq(Pieces)
  BY <1>3, Short
<1>5. QED
  BY <1>2, <1>4 DEF Texts

LEMMA ScanTypes ==
    ASSUME AdviceTypes, NEW c \in Calls, Scan(c)
    PROVE  AdviceTypes'
<1>1. tokens' \in [Calls -> Nat] /\ tokens'[c] \in Nat
  BY DEF Scan, AdviceTypes
<1>2. PICK token \in Given(c, tokens'[c]) :
        LET text == fullResponse[c] \o token IN
        \/ /\ c \in started
           /\ fullResponse' = [fullResponse EXCEPT ![c] = text]
           /\ events' = Append(events, Token(token))
           /\ UNCHANGED started
        \/ c \notin started /\ TrimLeft(text) # <<>> /\ Trimmed(c, TrimLeft(text))
        \/ /\ c \notin started /\ TrimLeft(text) = <<>>
           /\ fullResponse' = [fullResponse EXCEPT ![c] = text]
           /\ UNCHANGED <<started, events>>
  BY DEF Scan
<1> DEFINE text == fullResponse[c] \o token
<1>3. token \in Texts /\ text \in Texts /\ TrimLeft(text) \in Texts
  BY <1>1, GivenTypes, AddedText, TrimmedText DEF AdviceTypes
<1>4. \A s \in Texts : Append(events, Token(s)) \in Seq(Events)
  BY ContentTypes, AppendProperties DEF AdviceTypes
<1> HIDE DEF text
<1>5. /\ fullResponse' \in [Calls -> Texts] /\ events' \in Seq(Events)
      /\ started' \subseteq Calls
  <2>1. \A s \in Texts : [fullResponse EXCEPT ![c] = s] \in [Calls -> Texts]
    BY DEF AdviceTypes
  <2>2. CASE /\ fullResponse' = [fullResponse EXCEPT ![c] = text]
             /\ events' = Append(events, Token(token)) /\ UNCHANGED started
    BY <1>3, <1>4, <2>1, <2>2 DEF AdviceTypes
  <2>3. CASE Trimmed(c, TrimLeft(text))
    BY <1>3, <1>4, <2>1, <2>3 DEF Trimmed, AdviceTypes
  <2>4. CASE fullResponse' = [fullResponse EXCEPT ![c] = text] /\ UNCHANGED <<started, events>>
    BY <1>3, <2>1, <2>4 DEF AdviceTypes
  <2>5. QED
    BY <1>2, <2>2, <2>3, <2>4 DEF text
<1>6. QED
  BY <1>1, <1>5 DEF Scan, AdviceTypes, windowVars, panelVars, historyVars

LEMMA ReturnTypes ==
    ASSUME AdviceTypes, NEW c \in Calls, Return(c)
    PROVE  AdviceTypes'
<1>1. events' \in Seq(Events)
  <2>1. Append(events, Done) \in Seq(Events)
    BY ContentTypes, AppendProperties DEF AdviceTypes
  <2>2. QED
    BY <2>1 DEF Return, AdviceTypes
<1>2. backend' \in [Calls -> {"none", "streaming", "returned", "failed"}]
  BY DEF Return, AdviceTypes
<1>3. QED
  BY <1>1, <1>2 DEF Return, AdviceTypes, windowVars, panelVars, historyVars

LEMMA TypesStep ==
    ASSUME AdviceTypes, ControlInv, [Next]_vars
    PROVE  AdviceTypes'
<1>1. ASSUME NEW c \in Calls, Analysed(c) PROVE AdviceTypes'
  BY <1>1, RunTypes DEF Analysed, AdviceTypes
<1>2. CASE SetLanguage
  <2>1. currentLang' \in {"en", "pl"} /\ analysed' \in BOOLEAN
    BY <1>2 DEF SetLanguage, Other, AdviceTypes
  <2>2. CASE \E c \in Calls : RunAdvice(c, currentLang')
    BY <2>1, <2>2, RunTypes
  <2>3. CASE UNCHANGED <<stage, language, panelVars, backendVars, historyVars>>
    BY <2>1, <2>3 DEF AdviceTypes, panelVars, backendVars, historyVars
  <2>4. QED
    BY <1>2, <2>2, <2>3 DEF SetLanguage
<1>3. ASSUME NEW c \in Calls, Captured(c) PROVE AdviceTypes'
  <2>1. panel' \in Panels /\ disturbed' \in BOOLEAN
    BY <1>3, WriteTypes, ContentTypes DEF Captured
  <2>2. /\ stage' \in [Calls -> {"unused", "capturing", "waiting", "settled"}]
        /\ language' \in [Calls -> {"English", "Polish"}]
        /\ handlers' \in Seq(Calls)
        /\ backend' \in [Calls -> {"none", "streaming", "returned", "failed"}]
    BY <1>3, AskTypes DEF Captured
  <2>3. QED
    BY <1>3, <2>1, <2>2 DEF Captured, AdviceTypes
<1>4. CASE UNCHANGED vars
  BY <1>4 DEF AdviceTypes, vars, windowVars, panelVars, backendVars, historyVars
<1>5. QED
  BY <1>1, <1>2, <1>3, <1>4, DeliverTypes, SettleTypes, TypeTypes, ScanTypes, ReturnTypes DEF Next

----------------------------------------------------------------------------
(***************************************************************************)
(* Where the calls are, and what is bound.                                 *)
(***************************************************************************)

\* A call that is asked was not bound, and is now, after the others.
LEMMA BoundAfterAsk ==
    ASSUME AdviceTypes, ControlInv, NEW c \in Calls, NEW lang, Ask(c, lang),
           stage[c] # "waiting"
    PROVE  Bound'
<1>1. /\ Len(handlers) \in Nat /\ DOMAIN handlers = 1..Len(handlers)
      /\ \A i \in 1..Len(handlers) : handlers[i] \in Calls
  BY LenProperties, ElementOfSeq DEF AdviceTypes
<1>2. /\ DOMAIN handlers' = 1..(Len(handlers) + 1)
      /\ \A i \in 1..Len(handlers) : handlers'[i] = handlers[i]
      /\ handlers'[Len(handlers) + 1] = c
  BY AppendProperties, LenProperties DEF Ask, AdviceTypes
<1>3. /\ \A i \in 1..Len(handlers) : stage[handlers[i]] = "waiting"
      /\ \A i, j \in 1..Len(handlers) : handlers[i] = handlers[j] => i = j
  BY <1>1 DEF ControlInv, Bound
<1>4. stage' = [stage EXCEPT ![c] = "waiting"] /\ stage \in [Calls -> {"unused", "capturing", "waiting", "settled"}]
  BY DEF Ask, AdviceTypes
<1>5. \A i \in 1..(Len(handlers) + 1) : i \in 1..Len(handlers) \/ i = Len(handlers) + 1
  BY <1>1
<1>6. ASSUME NEW i \in DOMAIN handlers' PROVE stage'[handlers'[i]] = "waiting"
  <2>1. CASE i = Len(handlers) + 1
    BY <1>2, <1>4, <2>1
  <2>2. CASE i \in 1..Len(handlers)
    BY <1>1, <1>2, <1>3, <1>4, <2>2
  <2>3. QED
    BY <1>2, <1>5, <2>1, <2>2
<1>7. ASSUME NEW i \in DOMAIN handlers', NEW j \in DOMAIN handlers', handlers'[i] = handlers'[j]
      PROVE  i = j
  BY <1>2, <1>3, <1>5, <1>7
<1>8. QED
  BY <1>6, <1>7 DEF Bound

LEMMA BoundKept ==
    ASSUME ControlInv, UNCHANGED handlers,
           \A c \in ToSet(handlers) : stage'[c] = stage[c]
    PROVE  Bound'
  BY DEF ControlInv, Bound, ToSet

LEMMA RunControl ==
    ASSUME AdviceTypes, ControlInv, NEW c \in Calls, NEW lang, RunAdvice(c, lang), analysed'
    PROVE  ControlInv'
<1>1. stage[c] = "unused" /\ \A d \in Calls : Placed(d)
  BY DEF RunAdvice, ControlInv
<1>2. CASE Ask(c, lang)
  <2>1. Bound'
    BY <1>1, <1>2, BoundAfterAsk
  <2>2. ASSUME NEW d \in Calls PROVE Placed(d)'
    BY <1>1, <1>2 DEF Placed, Ask, RunAdvice, AdviceTypes
  <2>3. QED
    BY <2>1, <2>2 DEF ControlInv
<1>3. CASE stage' = [stage EXCEPT ![c] = "capturing"] /\ UNCHANGED <<language, handlers, backend>>
  <2>1. \A d \in ToSet(handlers) : stage'[d] = stage[d]
    BY <1>1, <1>3 DEF ControlInv, Bound, ToSet, AdviceTypes
  <2>2. Bound'
    BY <1>3, <2>1, BoundKept
  <2>3. ASSUME NEW d \in Calls PROVE Placed(d)'
    BY <1>1, <1>3 DEF Placed, RunAdvice, AdviceTypes
  <2>4. QED
    BY <2>2, <2>3 DEF ControlInv
<1>4. QED
  BY <1>2, <1>3 DEF RunAdvice

LEMMA CapturedControl ==
    ASSUME AdviceTypes, ControlInv, NEW c \in Calls, Captured(c)
    PROVE  ControlInv'
<1>1. stage[c] = "capturing" /\ Ask(c, currentLang) /\ \A d \in Calls : Placed(d)
  BY DEF Captured, ControlInv
<1>2. Bound'
  BY <1>1, BoundAfterAsk
<1>3. ASSUME NEW d \in Calls PROVE Placed(d)'
  BY <1>1 DEF Placed, Ask, Captured, AdviceTypes
<1>4. QED
  BY <1>2, <1>3 DEF ControlInv

LEMMA SettleControl ==
    ASSUME AdviceTypes, ControlInv, NEW c \in Calls, Settle(c)
    PROVE  ControlInv'
<1>1. stage[c] = "waiting" /\ \A d \in Calls : Placed(d)
  BY DEF Settle, ControlInv
<1>2. Bound'
  <2>1. /\ \A i \in DOMAIN handlers' :
             handlers'[i] # c /\ \E j \in DOMAIN handlers : handlers'[i] = handlers[j]
        /\ \A i, j \in DOMAIN handlers' : handlers'[i] = handlers'[j] => i = j
    <3>1. handlers' = RemoveFirst(handlers, c) /\ handlers \in Seq(Calls)
      BY DEF Settle, Unbind, AdviceTypes
    <3>2. \A i, j \in DOMAIN handlers : handlers[i] = handlers[j] => i = j
      BY DEF ControlInv, Bound
    <3>3. QED
      BY <3>1, <3>2, Removed
  <2>2. \A d \in Calls : d # c => stage'[d] = stage[d]
    BY DEF Settle, AdviceTypes
  <2>3. \A j \in DOMAIN handlers : handlers[j] \in Calls /\ stage[handlers[j]] = "waiting"
    BY LenProperties, ElementOfSeq DEF AdviceTypes, ControlInv, Bound
  <2>4. QED
    BY <2>1, <2>2, <2>3 DEF Bound
<1>3. ASSUME NEW d \in Calls PROVE Placed(d)'
  <2>1. /\ d # c => typing'[d] = typing[d] /\ stage'[d] = stage[d] /\ shown' # d
        /\ stage'[c] = "settled" /\ backend[c] \in {"returned", "failed"}
    <3>1. typing' = typing \/ typing' = [typing EXCEPT ![c] = fullResponse[c]]
      BY DEF Settle, Show
    <3>2. QED
      BY <3>1 DEF Settle, AdviceTypes
  <2>2. UNCHANGED <<backend, started, isStreaming, streamedText, analysed>>
    BY DEF Settle, backendVars
  <2>3. QED
    BY <1>1, <2>1, <2>2 DEF Placed
<1>4. QED
  BY <1>2, <1>3 DEF ControlInv

LEMMA DeliverControl ==
    ASSUME AdviceTypes, ControlInv, Deliver
    PROVE  ControlInv'
<1>1. UNCHANGED <<stage, backend, started, typing, shown, analysed>>
  BY DEF Deliver, windowVars
<1>2. \A d \in Calls : stage[d] \in {"unused", "capturing"} => d \notin ToSet(handlers)
  BY DEF ControlInv, Bound, ToSet
<1>3. Bound'
  <2>1. CASE handlers' = <<>>
    BY <2>1, EmptyText DEF Bound
  <2>2. CASE UNCHANGED handlers
    BY <1>1, <2>2, BoundKept
  <2>3. QED
    BY <2>1, <2>2 DEF Deliver
<1>4. ASSUME NEW d \in Calls PROVE Placed(d)'
  <2>1. d \notin ToSet(handlers) => (d \in isStreaming' <=> d \in isStreaming) /\ streamedText'[d] = streamedText[d]
    BY DEF Deliver
  <2>2. Placed(d)
    BY DEF ControlInv
  <2>3. QED
    BY <1>1, <1>2, <2>1, <2>2 DEF Placed
<1>5. QED
  BY <1>3, <1>4 DEF ControlInv

LEMMA TypeControl ==
    ASSUME AdviceTypes, ControlInv, NEW c \in Calls, Type(c)
    PROVE  ControlInv'
<1>1. UNCHANGED <<stage, backend, started, shown, analysed, handlers, isStreaming, streamedText>>
  BY DEF Type, windowVars, backendVars, historyVars
<1>2. typing[c] # <<>> /\ \A d \in Calls : d # c => typing'[d] = typing[d]
  BY DEF Type, AdviceTypes
<1>3. ASSUME NEW d \in Calls PROVE Placed(d)'
  BY <1>1, <1>2 DEF ControlInv, Placed
<1>4. Bound'
  BY <1>1, BoundKept
<1>5. QED
  BY <1>3, <1>4 DEF ControlInv

LEMMA StreamControl ==
    ASSUME AdviceTypes, ControlInv, NEW c \in Calls, Scan(c) \/ Return(c)
    PROVE  ControlInv'
<1>1. UNCHANGED <<stage, typing, shown, analysed, handlers, isStreaming, streamedText>>
  BY DEF Scan, Return, windowVars, panelVars, historyVars
<1>2. backend[c] = "streaming" /\ stage[c] = "waiting"
  BY DEF Scan, Return, ControlInv, Placed, AdviceTypes
<1>3. \A d \in Calls : d # c => backend'[d] = backend[d] /\ (d \in started' <=> d \in started)
  BY DEF Scan, Return, Trimmed, AdviceTypes
<1>4. backend'[c] \in {"streaming", "returned", "failed"}
  BY <1>2 DEF Scan, Return, AdviceTypes
<1>5. ASSUME NEW d \in Calls PROVE Placed(d)'
  BY <1>1, <1>2, <1>3, <1>4 DEF ControlInv, Placed
<1>6. Bound'
  BY <1>1, BoundKept
<1>7. QED
  BY <1>5, <1>6 DEF ControlInv

LEMMA ControlStep ==
    ASSUME AdviceTypes, ControlInv, [Next]_vars
    PROVE  ControlInv'
<1>1. ASSUME NEW c \in Calls, Analysed(c) PROVE ControlInv'
  BY <1>1, RunControl DEF Analysed
<1>2. CASE SetLanguage
  <2>1. ASSUME analysed', NEW c \in Calls, RunAdvice(c, currentLang') PROVE ControlInv'
    BY <2>1, RunControl
  <2>2. CASE UNCHANGED <<stage, language, panelVars, backendVars, historyVars>>
    BY <1>2, <2>2 DEF SetLanguage, ControlInv, Placed, Bound, panelVars, backendVars, historyVars
  <2>3. QED
    BY <1>2, <2>1, <2>2 DEF SetLanguage
<1>3. CASE UNCHANGED vars
  BY <1>3 DEF ControlInv, Placed, Bound, vars, windowVars, panelVars, backendVars, historyVars
<1>4. QED
  BY <1>1, <1>2, <1>3, CapturedControl, SettleControl, DeliverControl, TypeControl, StreamControl
     DEF Next

----------------------------------------------------------------------------
(***************************************************************************)
(* What is typed.                                                          *)
(***************************************************************************)

\* A piece that is typed goes from what is left to what the panel shows.
LEMMA TypedPiece ==
    ASSUME NEW shownText \in Texts, NEW rest \in Texts, rest # <<>>
    PROVE  Append(shownText, Head(rest)) \o Tail(rest) = shownText \o rest
<1>1. Head(rest) \in Pieces /\ Tail(rest) \in Texts
  BY HeadTailProperties DEF Texts
<1>2. rest = <<Head(rest)>> \o Tail(rest)
  <2>1. rest \in Seq(Pieces) /\ Len(rest) \in Nat /\ Len(rest) # 0
    BY EmptySeq, LenProperties DEF Texts
  <2>2. SubSeq(rest, 1, Len(rest)) = <<rest[1]>> \o SubSeq(rest, 2, Len(rest))
    BY <2>1, SubSeqRecursiveFirst
  <2>3. rest[1] = Head(rest)
    OBVIOUS
  <2>4. QED
    BY <2>1, <2>2, <2>3, SubSeqFull, TailIsSubSeq
<1> DEFINE one == <<Head(rest)>>
<1>3. one \in Texts /\ Append(shownText, Head(rest)) = shownText \o one
  BY <1>1, Short, AppendIsConcat DEF Texts
<1> HIDE DEF one
<1>4. (shownText \o one) \o Tail(rest) = shownText \o (one \o Tail(rest))
  BY <1>1, <1>3, ConcatAssociative DEF Texts
<1>5. QED
  BY <1>2, <1>3, <1>4 DEF one

LEMMA NothingConcat ==
    ASSUME NEW s \in Texts
    PROVE  s \o <<>> = s /\ <<>> \o s = s
  BY ConcatEmptySeq DEF Texts

\* What the answer depends on.
LEMMA AnswerKept ==
    ASSUME AdviceTypes, ControlInv, AnswerInv,
           UNCHANGED <<panel, typing, shown, disturbed>>,
           InFlight' = {} => InFlight = {},
           \A c \in Calls : stage[c] = "settled" =>
               backend'[c] = backend[c] /\ fullResponse'[c] = fullResponse[c]
    PROVE  AnswerInv'
<1>1. shown # 0 => shown \in Calls /\ stage[shown] = "settled"
  BY DEF AdviceTypes, ControlInv, Placed
<1>2. Typing' = Typing
  BY DEF Typing
<1>3. QED
  BY <1>1, <1>2 DEF AnswerInv

\* While a call is in flight only what is typed counts.
LEMMA AnswerPending ==
    ASSUME AnswerInv, NEW content, Write(content), UNCHANGED typing, InFlight' # {}
    PROVE  AnswerInv'
<1>1. Typing' = Typing
  BY DEF Typing
<1>2. ~disturbed' => Typing = {}
  BY DEF Write
<1>3. QED
  BY <1>1, <1>2 DEF AnswerInv

LEMMA RunAnswer ==
    ASSUME AdviceTypes, ControlInv, AnswerInv, NEW c \in Calls, NEW lang, RunAdvice(c, lang)
    PROVE  AnswerInv'
<1>1. stage'[c] \in {"capturing", "waiting"}
  BY DEF RunAdvice, Ask, AdviceTypes
<1>2. InFlight' # {}
  BY <1>1 DEF InFlight
<1>3. QED
  BY <1>2, AnswerPending DEF RunAdvice

LEMMA CapturedAnswer ==
    ASSUME AdviceTypes, ControlInv, AnswerInv, NEW c \in Calls, Captured(c)
    PROVE  AnswerInv'
<1>1. stage'[c] = "waiting"
  BY DEF Captured, Ask, AdviceTypes
<1>2. InFlight' # {}
  BY <1>1 DEF InFlight
<1>3. QED
  BY <1>2, AnswerPending DEF Captured

LEMMA DeliverAnswer ==
    ASSUME AdviceTypes, ControlInv, AnswerInv, Deliver
    PROVE  AnswerInv'
<1>1. UNCHANGED <<stage, typing, shown, backend, fullResponse>> /\ InFlight' = InFlight
  BY DEF Deliver, windowVars, InFlight
<1>2. CASE UNCHANGED <<panel, disturbed>>
  BY <1>1, <1>2, AnswerKept
<1>3. CASE handlers # <<>> /\ Write(Text(streamedText'[Last(handlers)]))
  <2>1. Last(handlers) \in Calls
    BY <1>3, LastBound
  <2>2. 1 \in DOMAIN handlers
    <3>1. Len(handlers) \in Nat \ {0} /\ DOMAIN handlers = 1..Len(handlers)
      BY <1>3, EmptySeq, LenProperties DEF AdviceTypes
    <3>2. QED
      BY <3>1
  <2>3. handlers[1] \in Calls /\ stage[handlers[1]] = "waiting"
    BY <2>2, LenProperties, ElementOfSeq DEF AdviceTypes, ControlInv, Bound
  <2>4. InFlight' # {}
    BY <1>1, <2>3 DEF InFlight
  <2>5. QED
    BY <1>1, <1>3, <2>4, AnswerPending
<1>4. QED
  BY <1>2, <1>3 DEF Deliver

LEMMA TypeAnswer ==
    ASSUME AdviceTypes, ControlInv, AnswerInv, NEW c \in Calls, Type(c)
    PROVE  AnswerInv'
<1>1. UNCHANGED <<stage, shown, backend, fullResponse, disturbed>> /\ InFlight' = InFlight
  BY DEF Type, windowVars, backendVars, historyVars, InFlight
<1>2. typing[c] # <<>> /\ c \in Typing
  BY DEF Type, Typing
<1> SUFFICES ASSUME ~disturbed' PROVE AnswerInv'
  BY DEF AnswerInv
<1>3. /\ shown # 0 /\ Typing = {shown} /\ backend[shown] = "returned"
      /\ panel.kind = "text" /\ panel.text \o typing[shown] = fullResponse[shown]
  BY <1>1, <1>2 DEF AnswerInv
<1>4. shown = c
  BY <1>2, <1>3
<1>5. panel.text \in Texts /\ typing[c] \in Texts /\ Tail(typing[c]) \in Texts
  BY <1>2, HeadTailProperties DEF AdviceTypes, Panels, Texts
<1>6. panel' = [kind |-> "text", text |-> Append(panel.text, Head(typing[c]))]
  BY <1>3 DEF Type, AdviceTypes, Panels
<1>7. typing'[c] = Tail(typing[c]) /\ \A d \in Calls : d # c => typing'[d] = <<>>
  BY <1>3, <1>4 DEF Type, AdviceTypes, Typing
<1>8. panel'.text \o typing'[c] = fullResponse[c]
  BY <1>2, <1>3, <1>4, <1>5, <1>6, <1>7, TypedPiece
<1>9. CASE typing'[c] # <<>>
  <2>1. Typing' = {c}
    BY <1>7, <1>9 DEF Typing
  <2>2. QED
    BY <1>1, <1>3, <1>4, <1>6, <1>8, <2>1 DEF AnswerInv
<1>10. CASE typing'[c] = <<>>
  <2>1. Typing' = {}
    BY <1>7, <1>10 DEF Typing
  <2>2. panel'.text \in Texts
    BY <1>2, <1>5, <1>6, HeadTailProperties, AppendProperties DEF Texts
  <2>3. panel'.text = fullResponse[c]
    BY <1>8, <1>10, <2>2, NothingConcat
  <2>4. panel' = Text(fullResponse[c])
    BY <1>6, <2>3 DEF Text
  <2>5. QED
    BY <1>1, <1>3, <1>4, <2>1, <2>4 DEF AnswerInv
<1>11. QED
  BY <1>9, <1>10

LEMMA SettleAnswer ==
    ASSUME AdviceTypes, ControlInv, AnswerInv, NEW c \in Calls, Settle(c)
    PROVE  AnswerInv'
<1>1. shown' = c /\ c # 0 /\ UNCHANGED <<backend, fullResponse>> /\ stage[c] = "waiting"
  BY DEF Settle, backendVars, Calls
<1>2. typing[c] = <<>>
  BY <1>1 DEF ControlInv, Placed
<1>3. CASE Write(Text(fullResponse[c])) /\ UNCHANGED typing /\ backend[c] = "returned"
  <2>1. Typing' = Typing /\ (~disturbed' => Typing = {}) /\ panel' = Text(fullResponse[c])
    BY <1>3 DEF Write, Typing
  <2>2. QED
    BY <1>1, <1>3, <2>1 DEF AnswerInv
<1>4. CASE /\ Write(Text(<<>>)) /\ typing' = [typing EXCEPT ![c] = fullResponse[c]]
           /\ backend[c] = "returned"
  <2>1. panel' = Text(<<>>) /\ (~disturbed' => Typing = {})
    BY <1>4 DEF Write
  <2>2. typing'[c] = fullResponse[c] /\ \A d \in Calls : d # c => typing'[d] = typing[d]
    BY <1>4 DEF AdviceTypes
  <2>3. fullResponse[c] \in Texts
    BY DEF AdviceTypes
  <2>4. CASE fullResponse[c] = <<>>
    <3>1. ~disturbed' => Typing' = {}
      BY <1>2, <2>1, <2>2, <2>4 DEF Typing
    <3>2. QED
      BY <1>1, <1>4, <2>1, <2>4, <3>1 DEF AnswerInv
  <2>5. CASE fullResponse[c] # <<>>
    <3>1. ~disturbed' => Typing' = {c}
      BY <2>1, <2>2, <2>5 DEF Typing
    <3>2. panel'.kind = "text" /\ panel'.text \o typing'[c] = fullResponse[c]
      BY <2>1, <2>2, <2>3, NothingConcat DEF Text
    <3>3. QED
      BY <1>1, <1>4, <3>1, <3>2 DEF AnswerInv
  <2>6. QED
    BY <2>4, <2>5
<1>5. CASE Write(Error) /\ UNCHANGED typing /\ backend[c] = "failed"
  <2>1. Typing' = Typing /\ (~disturbed' => Typing = {}) /\ panel' = Error
    BY <1>5 DEF Write, Typing
  <2>2. QED
    BY <1>1, <1>5, <2>1 DEF AnswerInv
<1>6. QED
  BY <1>3, <1>4, <1>5 DEF Settle, Show, ShowError

LEMMA StreamAnswer ==
    ASSUME AdviceTypes, ControlInv, AnswerInv, NEW c \in Calls, Scan(c) \/ Return(c)
    PROVE  AnswerInv'
<1>1. UNCHANGED <<panel, typing, shown, disturbed, stage>> /\ InFlight' = InFlight
  BY DEF Scan, Return, windowVars, panelVars, historyVars, InFlight
<1>2. stage[c] # "settled"
  BY DEF Scan, Return, ControlInv, Placed
<1>3. \A d \in Calls : d # c => backend'[d] = backend[d] /\ fullResponse'[d] = fullResponse[d]
  BY DEF Scan, Return, Trimmed, AdviceTypes
<1>4. QED
  BY <1>1, <1>2, <1>3, AnswerKept

LEMMA AnswerStep ==
    ASSUME AdviceTypes, ControlInv, AnswerInv, [Next]_vars
    PROVE  AnswerInv'
<1>1. ASSUME NEW c \in Calls, Analysed(c) PROVE AnswerInv'
  BY <1>1, RunAnswer DEF Analysed
<1>2. CASE SetLanguage
  <2>1. ASSUME NEW c \in Calls, RunAdvice(c, currentLang') PROVE AnswerInv'
    BY <2>1, RunAnswer
  <2>2. CASE UNCHANGED <<stage, language, panelVars, backendVars, historyVars>>
    BY <2>2 DEF AnswerInv, InFlight, Typing, panelVars, backendVars, historyVars
  <2>3. QED
    BY <1>2, <2>1, <2>2 DEF SetLanguage
<1>3. CASE UNCHANGED vars
  BY <1>3 DEF AnswerInv, InFlight, Typing, vars, windowVars, panelVars, backendVars, historyVars
<1>4. QED
  BY <1>1, <1>2, <1>3, CapturedAnswer, SettleAnswer, DeliverAnswer, TypeAnswer, StreamAnswer
     DEF Next

----------------------------------------------------------------------------
(***************************************************************************)
(* The language of the calls.                                              *)
(***************************************************************************)
LEMMA RunLanguage ==
    ASSUME AdviceTypes, ControlInv, LanguageInv, NEW c \in Calls, RunAdvice(c, currentLang')
    PROVE  LanguageInv'
<1> SUFFICES ASSUME ~overlapped' PROVE LanguageInv'
  BY DEF LanguageInv
<1>1. InFlight = {} /\ ~overlapped
  BY DEF RunAdvice
<1>2. stage'[c] \in {"capturing", "waiting"} /\ \A d \in Calls : d # c => stage'[d] = stage[d]
  BY DEF RunAdvice, Ask, AdviceTypes
<1>3. InFlight' = {c}
  BY <1>1, <1>2 DEF InFlight
<1>4. stage'[c] = "waiting" => language'[c] = Named(currentLang')
  BY DEF RunAdvice, Ask, AdviceTypes
<1>5. \A d \in Calls : d # c => stage'[d] # "waiting"
  BY <1>1, <1>2 DEF InFlight
<1>6. QED
  BY <1>3, <1>4, <1>5 DEF LanguageInv

LEMMA CapturedLanguage ==
    ASSUME AdviceTypes, LanguageInv, NEW c \in Calls, Captured(c)
    PROVE  LanguageInv'
<1>1. UNCHANGED <<overlapped, currentLang, shown>> /\ stage[c] = "capturing"
  BY DEF Captured
<1>2. /\ stage'[c] = "waiting" /\ language'[c] = Named(currentLang)
      /\ \A d \in Calls : d # c => stage'[d] = stage[d] /\ language'[d] = language[d]
  BY DEF Captured, Ask, AdviceTypes
<1>3. InFlight' = InFlight /\ c \in InFlight
  BY <1>1, <1>2 DEF InFlight
<1>4. Named(currentLang') = Named(currentLang)
  BY <1>1
<1>5. QED
  BY <1>1, <1>2, <1>3, <1>4 DEF LanguageInv

LEMMA SettleLanguage ==
    ASSUME AdviceTypes, LanguageInv, NEW c \in Calls, Settle(c)
    PROVE  LanguageInv'
<1>1. UNCHANGED <<overlapped, currentLang, language>> /\ shown' = c /\ stage[c] = "waiting"
  BY DEF Settle
<1>2. stage'[c] = "settled" /\ \A d \in Calls : d # c => stage'[d] = stage[d]
  BY DEF Settle, AdviceTypes
<1>3. InFlight' = InFlight \ {c}
  BY <1>1, <1>2 DEF InFlight
<1>4. Named(currentLang') = Named(currentLang)
  BY <1>1
<1>5. QED
  BY <1>1, <1>2, <1>3, <1>4 DEF LanguageInv

\* Before the first analysis no call is made.
LEMMA NotAnalysed ==
    ASSUME AdviceTypes, ControlInv, ~analysed
    PROVE  InFlight = {} /\ shown = 0 /\ \A c \in Calls : stage[c] = "unused"
  BY DEF AdviceTypes, ControlInv, Placed, InFlight

LEMMA LanguageKept ==
    ASSUME LanguageInv, UNCHANGED <<stage, language, shown, overlapped, currentLang>>
    PROVE  LanguageInv'
  BY DEF LanguageInv, InFlight, Named

LEMMA LanguageStep ==
    ASSUME AdviceTypes, ControlInv, LanguageInv, [Next]_vars
    PROVE  LanguageInv'
<1>1. ASSUME NEW c \in Calls, Analysed(c) PROVE LanguageInv'
  <2>1. RunAdvice(c, currentLang')
    BY <1>1 DEF Analysed
  <2>2. QED
    BY <2>1, RunLanguage
<1>2. CASE SetLanguage
  <2>1. ASSUME NEW c \in Calls, RunAdvice(c, currentLang') PROVE LanguageInv'
    BY <2>1, RunLanguage
  <2>2. CASE ~analysed /\ UNCHANGED <<stage, language, panelVars, backendVars, historyVars>>
    <3>1. InFlight' = {} /\ shown' = 0 /\ \A c \in Calls : stage'[c] = "unused"
      BY <2>2, NotAnalysed DEF historyVars, InFlight
    <3>2. QED
      BY <3>1 DEF LanguageInv
  <2>3. QED
    BY <1>2, <2>1, <2>2 DEF SetLanguage
<1>3. ASSUME NEW c \in Calls, Type(c) \/ Scan(c) \/ Return(c) PROVE LanguageInv'
  <2>1. UNCHANGED <<stage, language, shown, overlapped, currentLang>>
    BY <1>3 DEF Type, Scan, Return, windowVars, historyVars
  <2>2. QED
    BY <2>1, LanguageKept
<1>4. CASE Deliver
  <2>1. UNCHANGED <<stage, language, shown, overlapped, currentLang>>
    BY <1>4 DEF Deliver, windowVars
  <2>2. QED
    BY <2>1, LanguageKept
<1>5. CASE UNCHANGED vars
  BY <1>5, LanguageKept DEF vars, windowVars, historyVars
<1>6. QED
  BY <1>1, <1>2, <1>3, <1>4, <1>5, CapturedLanguage, SettleLanguage DEF Next

----------------------------------------------------------------------------
(***************************************************************************)
(* What is streamed and what is under way.                                 *)
(***************************************************************************)
LEMMA Part ==
    ASSUME NEW s \in Texts, NEW a \in 0..Len(s), NEW b \in a..Len(s)
    PROVE  /\ SubSeq(s, a + 1, b) \in Texts /\ Len(SubSeq(s, a + 1, b)) = b - a
           /\ \A i \in 1..(b - a) : SubSeq(s, a + 1, b)[i] = s[a + i]
<1>1. Len(s) \in Nat /\ \A i \in 1..Len(s) : s[i] \in Pieces
  BY LenProperties, ElementOfSeq DEF Texts
<1>2. a + 1 \in Int /\ b \in Int /\ \A i \in (a + 1)..b : s[i] \in Pieces
  BY <1>1
<1>3. /\ SubSeq(s, a + 1, b) \in Seq(Pieces)
      /\ Len(SubSeq(s, a + 1, b)) = IF a + 1 <= b THEN b - (a + 1) + 1 ELSE 0
      /\ \A i \in 1..(b - (a + 1) + 1) : SubSeq(s, a + 1, b)[i] = s[a + 1 + i - 1]
  BY <1>2, SubSeqProperties
<1> DEFINE part == SubSeq(s, a + 1, b)
<1> HIDE DEF part
<1>4. /\ part \in Seq(Pieces) /\ Len(part) = IF a + 1 <= b THEN b - (a + 1) + 1 ELSE 0
      /\ \A i \in 1..(b - (a + 1) + 1) : part[i] = s[a + 1 + i - 1]
  BY <1>3 DEF part
<1>5. part \in Texts /\ Len(part) = b - a /\ \A i \in 1..(b - a) : part[i] = s[a + i]
  BY <1>1, <1>4 DEF Texts
<1>6. QED
  BY <1>5 DEF part

\* What follows does not change a part of the text before it.
LEMMA PartOfLonger ==
    ASSUME NEW s \in Texts, NEW t \in Texts, NEW a \in 0..Len(s), NEW b \in a..Len(s)
    PROVE  SubSeq(s \o t, a + 1, b) = SubSeq(s, a + 1, b)
<1>1. /\ Len(s) \in Nat /\ Len(t) \in Nat /\ s \o t \in Texts /\ Len(s \o t) = Len(s) + Len(t)
      /\ \A i \in 1..Len(s) : (s \o t)[i] = s[i]
  BY LenProperties, ConcatProperties DEF Texts
<1>2. a \in 0..Len(s \o t) /\ b \in a..Len(s \o t) /\ \A i \in 1..(b - a) : a + i \in 1..Len(s)
  BY <1>1
<1> DEFINE p == SubSeq(s \o t, a + 1, b)
           q == SubSeq(s, a + 1, b)
<1>3. p \in Texts /\ Len(p) = b - a /\ \A i \in 1..(b - a) : p[i] = (s \o t)[a + i]
  BY <1>1, <1>2, Part
<1>4. q \in Texts /\ Len(q) = b - a /\ \A i \in 1..(b - a) : q[i] = s[a + i]
  BY Part
<1> HIDE DEF p, q
<1>5. \A i \in 1..Len(p) : p[i] = q[i]
  BY <1>1, <1>2, <1>3, <1>4
<1>6. p = q
  BY <1>3, <1>4, <1>5, SeqEqual DEF Texts
<1>7. QED
  BY <1>6 DEF p, q

LEMMA LastPart ==
    ASSUME NEW s \in Texts, NEW t \in Texts
    PROVE  SubSeq(s \o t, Len(s) + 1, Len(s) + Len(t)) = t
<1>1. /\ Len(s) \in Nat /\ Len(t) \in Nat /\ s \o t \in Texts /\ Len(s \o t) = Len(s) + Len(t)
      /\ \A i \in 1..(Len(s) + Len(t)) :
           (s \o t)[i] = IF i <= Len(s) THEN s[i] ELSE t[i - Len(s)]
  BY LenProperties, ConcatProperties DEF Texts
<1> DEFINE p == SubSeq(s \o t, Len(s) + 1, Len(s) + Len(t))
<1>2. Len(s) \in 0..Len(s \o t) /\ Len(s) + Len(t) \in Len(s)..Len(s \o t)
  BY <1>1
<1>3. p \in Texts /\ Len(p) = Len(s) + Len(t) - Len(s)
      /\ \A i \in 1..(Len(s) + Len(t) - Len(s)) : p[i] = (s \o t)[Len(s) + i]
  <2> DEFINE whole == s \o t
             a == Len(s)
             b == Len(s) + Len(t)
  <2>1. whole \in Texts /\ a \in 0..Len(whole) /\ b \in a..Len(whole)
    BY <1>1, <1>2
  <2> HIDE DEF whole, a, b
  <2>2. /\ SubSeq(whole, a + 1, b) \in Texts /\ Len(SubSeq(whole, a + 1, b)) = b - a
        /\ \A i \in 1..(b - a) : SubSeq(whole, a + 1, b)[i] = whole[a + i]
    BY <2>1, Part
  <2>3. QED
    BY <2>2 DEF whole, a, b
<1> HIDE DEF p
<1>4. Len(p) = Len(t)
  BY <1>1, <1>3
<1>5. ASSUME NEW i \in 1..Len(p) PROVE p[i] = t[i]
  <2>1. /\ i \in 1..(Len(s) + Len(t) - Len(s)) /\ Len(s) + i \in 1..(Len(s) + Len(t))
        /\ ~(Len(s) + i <= Len(s)) /\ Len(s) + i - Len(s) = i
    BY <1>1, <1>4
  <2>2. QED
    BY <1>1, <1>3, <2>1
<1>6. p = t
  BY <1>3, <1>4, <1>5, SeqEqual DEF Texts
<1>7. QED
  BY <1>6 DEF p

LEMMA NothingLeft == Rest(<<>>, <<>>, <<>>)
<1> DEFINE cut == [i \in 0..0 |-> 0]
<1>1. Len(<<>>) = 0 /\ cut[0] = 0 /\ cut \in [0..0 -> 0..0]
  BY EmptyText
<1>2. <<>> = SubSeq(<<>>, 1, 0)
  BY SubSeqEmpty
<1> HIDE DEF cut
<1>3. \A i \in 1..0 : FALSE
  OBVIOUS
<1>4. QED
  BY <1>1, <1>2, <1>3 DEF Rest

\* Whatever is delivered goes from the rest to the text.
LEMMA RestTaken ==
    ASSUME NEW queue \in Seq(Events), queue # <<>>, NEW text \in Texts, NEW answer \in Texts,
           Rest(queue, text, answer)
    PROVE  Rest(Tail(queue), text \o Head(queue).text, answer)
<1> DEFINE n == Len(queue)
           m == Len(answer)
           rest == Tail(queue)
<1>1. /\ n \in Nat \ {0} /\ m \in Nat /\ Len(rest) = n - 1
      /\ \A i \in 1..Len(rest) : rest[i] = queue[i + 1]
      /\ Head(queue) = queue[1]
  BY EmptySeq, HeadTailProperties, LenProperties DEF Texts
<1> HIDE DEF n, m, rest
<1>2. PICK cut \in [0..n -> 0..m] :
        /\ cut[0] = Len(text) /\ cut[n] = m
        /\ text = SubSeq(answer, 1, cut[0])
        /\ \A i \in 1..n :
             cut[i - 1] <= cut[i] /\ queue[i].text = SubSeq(answer, cut[i - 1] + 1, cut[i])
  BY DEF Rest, n, m
<1>3. /\ cut[0] \in 0..m /\ cut[1] \in cut[0]..m
      /\ queue[1].text = SubSeq(answer, cut[0] + 1, cut[1])
  <2>1. 0 \in 0..n /\ 1 \in 0..n /\ 1 \in 1..n /\ 1 - 1 = 0
    BY <1>1
  <2>2. cut[0] \in 0..m /\ cut[1] \in 0..m
    BY <1>2, <2>1
  <2>3. cut[1 - 1] <= cut[1] /\ queue[1].text = SubSeq(answer, cut[1 - 1] + 1, cut[1])
    BY <1>2, <2>1
  <2>4. QED
    BY <1>1, <2>1, <2>2, <2>3
<1> DEFINE longer == text \o queue[1].text
<1>4. longer = SubSeq(answer, 1, cut[1])
  <2>1. SubSeq(answer, 1, cut[0]) \o SubSeq(answer, cut[0] + 1, cut[1]) = SubSeq(answer, 1, cut[1])
    <3> DEFINE k == cut[0]
               l == cut[1]
    <3>1. 1 \in 1..(m + 1) /\ k \in (1 - 1)..m /\ l \in k..m
      BY <1>1, <1>3
    <3> HIDE DEF k, l
    <3>2. SubSeq(answer, 1, k) \o SubSeq(answer, k + 1, l) = SubSeq(answer, 1, l)
      BY <3>1, ConcatAdjacentSubSeq DEF m, Texts
    <3>3. QED
      BY <3>2 DEF k, l
  <2>2. QED
    BY <1>2, <1>3, <2>1
<1>5. Len(longer) = cut[1]
  <2> DEFINE l == cut[1]
  <2>1. 0 \in 0..m /\ l \in 0..m
    BY <1>1, <1>3
  <2> HIDE DEF l
  <2>2. Len(SubSeq(answer, 0 + 1, l)) = l - 0
    BY <2>1, Part DEF m
  <2>3. Len(SubSeq(answer, 1, l)) = l
    BY <2>1, <2>2
  <2>4. QED
    BY <1>4, <2>3 DEF l
<1> HIDE DEF longer
<1> DEFINE later == [i \in 0..(n - 1) |-> cut[i + 1]]
<1>6. later \in [0..(n - 1) -> 0..m]
  BY <1>1
<1>7. later[0] = cut[1] /\ later[n - 1] = cut[n]
  BY <1>1
<1>8. ASSUME NEW i \in 1..(n - 1)
      PROVE  /\ later[i - 1] <= later[i]
             /\ rest[i].text = SubSeq(answer, later[i - 1] + 1, later[i])
  <2>1. /\ i + 1 \in 1..n /\ i \in 0..(n - 1) /\ i - 1 \in 0..(n - 1) /\ (i + 1) - 1 = i
        /\ (i - 1) + 1 = i /\ i \in 1..Len(rest)
    BY <1>1
  <2>2. later[i] = cut[i + 1] /\ later[i - 1] = cut[i]
    BY <2>1
  <2> HIDE DEF later
  <2>3. /\ cut[(i + 1) - 1] <= cut[i + 1]
        /\ queue[i + 1].text = SubSeq(answer, cut[(i + 1) - 1] + 1, cut[i + 1])
    BY <1>2, <2>1
  <2>4. rest[i] = queue[i + 1]
    BY <1>1, <2>1
  <2>5. QED
    BY <2>1, <2>2, <2>3, <2>4
<1> HIDE DEF later
<1>9. Rest(rest, longer, answer)
  <2>1. /\ later[0] = Len(longer) /\ later[n - 1] = m
        /\ longer = SubSeq(answer, 1, later[0])
    BY <1>2, <1>4, <1>5, <1>7
  <2>2. QED
    BY <1>1, <1>6, <1>8, <2>1 DEF Rest, m
<1>10. QED
  BY <1>1, <1>9 DEF rest, longer

\* Whatever is sent is added to the answer and to the rest.
LEMMA RestGiven ==
    ASSUME NEW queue \in Seq(Events), NEW text \in Texts, NEW answer \in Texts,
           NEW more \in Texts, NEW event \in Events, event.text = more,
           Rest(queue, text, answer)
    PROVE  Rest(Append(queue, event), text, answer \o more)
<1> DEFINE n == Len(queue)
           m == Len(answer)
           k == Len(more)
           longer == Append(queue, event)
           whole == answer \o more
<1>1. /\ n \in Nat /\ m \in Nat /\ k \in Nat
      /\ whole \in Texts /\ Len(whole) = m + k /\ Len(longer) = n + 1
      /\ \A i \in 1..n : longer[i] = queue[i]
      /\ longer[n + 1] = event
  BY LenProperties, ConcatProperties, AppendProperties DEF Texts
<1>2. \A a \in 0..m : \A b \in a..m : SubSeq(whole, a + 1, b) = SubSeq(answer, a + 1, b)
  BY PartOfLonger
<1>3. SubSeq(whole, m + 1, m + k) = more
  BY LastPart
<1> HIDE DEF n, m, k, longer, whole
<1>4. PICK cut \in [0..n -> 0..m] :
        /\ cut[0] = Len(text) /\ cut[n] = m
        /\ text = SubSeq(answer, 1, cut[0])
        /\ \A i \in 1..n :
             cut[i - 1] <= cut[i] /\ queue[i].text = SubSeq(answer, cut[i - 1] + 1, cut[i])
  BY DEF Rest, n, m
<1> DEFINE wider == [i \in 0..(n + 1) |-> IF i = n + 1 THEN m + k ELSE cut[i]]
<1>5. /\ wider \in [0..(n + 1) -> 0..(m + k)]
      /\ wider[n + 1] = m + k /\ \A i \in 0..n : wider[i] = cut[i] /\ cut[i] \in 0..m
  <2>1. \A i \in 0..(n + 1) : i # n + 1 => i \in 0..n
    BY <1>1
  <2>2. \A i \in 0..n : i \in 0..(n + 1) /\ i # n + 1 /\ cut[i] \in 0..m
    BY <1>1
  <2>3. m + k \in 0..(m + k) /\ \A l \in 0..m : l \in 0..(m + k)
    BY <1>1
  <2>4. n + 1 \in 0..(n + 1)
    BY <1>1
  <2>5. QED
    BY <2>1, <2>2, <2>3, <2>4
<1> HIDE DEF wider
<1>6. text = SubSeq(whole, 1, wider[0]) /\ wider[0] = Len(text)
  <2> DEFINE l == cut[0]
  <2>1. 0 \in 0..n /\ l \in 0..m /\ wider[0] = l
    BY <1>1, <1>5
  <2>2. 0 \in 0..m /\ l \in 0..m /\ text = SubSeq(answer, 0 + 1, l) /\ Len(text) = l
    BY <1>1, <1>4, <2>1
  <2> HIDE DEF l
  <2>3. SubSeq(whole, 0 + 1, l) = SubSeq(answer, 0 + 1, l)
    BY <1>2, <2>2
  <2>4. QED
    BY <2>1, <2>2, <2>3
<1>7. ASSUME NEW i \in 1..(n + 1)
      PROVE  /\ wider[i - 1] <= wider[i]
             /\ longer[i].text = SubSeq(whole, wider[i - 1] + 1, wider[i])
  <2>1. CASE i = n + 1
    <3>1. i - 1 = n /\ n \in 0..n
      BY <1>1, <2>1
    <3>2. wider[i - 1] = m /\ wider[i] = m + k
      BY <1>4, <1>5, <2>1, <3>1
    <3>3. QED
      BY <1>1, <1>3, <2>1, <3>2
  <2>2. CASE i \in 1..n
    <3>1. i - 1 \in 0..n /\ i \in 0..n
      BY <1>1, <2>2
    <3> DEFINE a == cut[i - 1]
               b == cut[i]
    <3>2. /\ wider[i - 1] = a /\ wider[i] = b /\ a \in 0..m /\ b \in 0..m
          /\ a <= b /\ queue[i].text = SubSeq(answer, a + 1, b)
      BY <1>4, <1>5, <2>2, <3>1
    <3> HIDE DEF a, b
    <3>3. b \in a..m
      BY <1>1, <3>2
    <3>4. SubSeq(whole, a + 1, b) = SubSeq(answer, a + 1, b)
      BY <1>2, <3>2, <3>3
    <3>5. QED
      BY <1>1, <2>2, <3>2, <3>4
  <2>3. QED
    BY <1>1, <2>1, <2>2
<1>8. Rest(longer, text, whole)
  BY <1>1, <1>5, <1>6, <1>7 DEF Rest
<1>9. QED
  BY <1>8 DEF longer, whole

\* Nothing is sampled from anything.
LEMMA SamplesNone ==
    ASSUME NEW answer \in Texts
    PROVE  Samples(<<>>, answer)
<1> DEFINE at == [i \in 1..Len(<<>>) |-> 1]
<1>1. 1..Len(<<>>) = {}
  BY EmptyText
<1>2. at \in [1..Len(<<>>) -> 1..Len(answer)]
  BY <1>1
<1> HIDE DEF at
<1>3. QED
  BY <1>1, <1>2 DEF Samples

\* What is sampled from the beginning of an answer is sampled from the answer.
LEMMA SamplesLonger ==
    ASSUME NEW text \in Texts, NEW answer \in Texts, NEW k \in 0..Len(answer),
           Samples(text, SubSeq(answer, 1, k))
    PROVE  Samples(text, answer)
<1> DEFINE read == SubSeq(answer, 1, k)
           n == Len(text)
           m == Len(answer)
<1>1. n \in Nat /\ m \in Nat /\ k \in 0..m
  BY LenProperties DEF Texts
<1>2. Len(read) = k /\ \A i \in 1..k : read[i] = answer[i]
  <2>1. 1 \in 1..(m + 1) /\ k \in (1 - 1)..m /\ k - 1 + 1 = k /\ \A i \in 1..k : i + 1 - 1 = i
    BY <1>1
  <2>2. Len(read) = k - 1 + 1 /\ \A i \in 1..(k - 1 + 1) : read[i] = answer[1 + i - 1]
    BY <1>1, <2>1, Part
  <2> HIDE DEF read
  <2>3. QED
    BY <1>1, <2>1, <2>2
<1> HIDE DEF read, n, m
<1>3. PICK at \in [1..n -> 1..k] :
        /\ \A i \in 1..n : text[i] = read[at[i]]
        /\ \A i, j \in 1..n : i < j => at[i] < at[j]
        /\ text # <<>> => at[1] = 1
  BY <1>2 DEF Samples, n, read
<1>4. at \in [1..n -> 1..m] /\ \A i \in 1..n : text[i] = answer[at[i]]
  <2>1. \A i \in 1..k : i \in 1..m
    BY <1>1
  <2>2. QED
    BY <1>2, <1>3, <2>1
<1>5. QED
  BY <1>3, <1>4 DEF Samples, n, m

\* A handler that takes the first character of one more token has still drawn its
\* text from all the tokens.
LEMMA DrawnMore ==
    ASSUME NEW text \in Texts, NEW read \in Texts, NEW more \in Texts, Drawn(text, read)
    PROVE  Drawn(text \o Received(more), read \o more)
<1>1. CASE more = <<>>
  BY <1>1, NothingConcat DEF Received
<1>2. CASE more # <<>>
  <2> DEFINE n == Len(text)
             m == Len(read)
             k == Len(more)
             one == <<Head(more)>>
             longer == text \o one
             whole == read \o more
  <2>1. /\ n \in Nat /\ m \in Nat /\ k \in Nat \ {0} /\ one \in Texts /\ Len(one) = 1
        /\ one[1] = more[1] /\ Received(more) = one
    BY <1>2, HeadTailProperties, EmptySeq, LenProperties, Short DEF Texts, Received
  <2>2. /\ Len(longer) = n + 1 /\ \A i \in 1..n : longer[i] = text[i]
        /\ longer[n + 1] = one[1]
    <3>1. Len(longer) = n + 1 /\ \A i \in 1..(n + 1) : longer[i] = IF i <= n THEN text[i] ELSE one[i - n]
      BY <2>1, ConcatProperties DEF Texts
    <3> HIDE DEF longer, n, one
    <3>2. (n + 1) - n = 1 /\ n + 1 \in 1..(n + 1) /\ ~(n + 1 <= n)
      BY <2>1
    <3>3. \A i \in 1..n : i \in 1..(n + 1) /\ i <= n
      BY <2>1
    <3>4. QED
      BY <3>1, <3>2, <3>3
  <2>3. /\ Len(whole) = m + k /\ \A i \in 1..m : whole[i] = read[i]
        /\ whole[m + 1] = more[1]
    <3>1. /\ Len(whole) = m + k
          /\ \A i \in 1..(m + k) : whole[i] = IF i <= m THEN read[i] ELSE more[i - m]
      BY <2>1, ConcatProperties DEF Texts
    <3> HIDE DEF whole, m, k
    <3>2. (m + 1) - m = 1 /\ m + 1 \in 1..(m + k) /\ ~(m + 1 <= m)
      BY <2>1
    <3>3. \A i \in 1..m : i \in 1..(m + k) /\ i <= m
      BY <2>1
    <3>4. QED
      BY <3>1, <3>2, <3>3
  <2>4. (text = <<>> <=> n = 0) /\ (read = <<>> <=> m = 0) /\ (read # <<>> => text # <<>>)
    BY EmptySeq DEF Drawn, Texts
  <2> HIDE DEF n, m, k, one, longer, whole
  <2>5. PICK at \in [1..n -> 1..m] :
          /\ \A i \in 1..n : text[i] = read[at[i]]
          /\ \A i, j \in 1..n : i < j => at[i] < at[j]
          /\ text # <<>> => at[1] = 1
    BY DEF Drawn, Samples, n, m
  <2> DEFINE farther == [i \in 1..(n + 1) |-> IF i = n + 1 THEN m + 1 ELSE at[i]]
  <2>6. \A i \in 1..(n + 1) : i # n + 1 => i \in 1..n
    BY <2>1
  <2>7. \A i \in 1..n : i \in 1..(n + 1) /\ i # n + 1 /\ at[i] \in 1..m /\ at[i] < m + 1 /\ i < n + 1
    BY <2>1, <2>5
  <2>8. /\ farther \in [1..(n + 1) -> 1..(m + k)] /\ farther[n + 1] = m + 1
        /\ \A i \in 1..n : farther[i] = at[i]
    <3>1. m + 1 \in 1..(m + k) /\ n + 1 \in 1..(n + 1) /\ \A i \in 1..m : i \in 1..(m + k)
      BY <2>1
    <3>2. QED
      BY <2>6, <2>7, <3>1
  <2> HIDE DEF farther
  <2>9. \A i \in 1..(n + 1) : longer[i] = whole[farther[i]]
    <3>1. longer[n + 1] = whole[farther[n + 1]]
      BY <2>1, <2>2, <2>3, <2>8
    <3>2. \A i \in 1..n : longer[i] = whole[farther[i]]
      BY <2>2, <2>3, <2>5, <2>7, <2>8
    <3>3. QED
      BY <2>6, <3>1, <3>2
  <2>10. ASSUME NEW i \in 1..(n + 1), NEW j \in 1..(n + 1), i < j PROVE farther[i] < farther[j]
    <3>1. i \in 1..n
      BY <2>1, <2>10
    <3>2. QED
      BY <2>5, <2>6, <2>7, <2>8, <2>10, <3>1
  <2>11. farther[1] = 1
    <3>1. CASE n = 0
      BY <2>1, <2>4, <2>8, <3>1
    <3>2. CASE n # 0
      <4>1. 1 \in 1..n
        BY <2>1, <3>2
      <4>2. QED
        BY <2>4, <2>5, <2>8, <3>2, <4>1
    <3>3. QED
      BY <3>1, <3>2
  <2>12. Samples(longer, whole)
    <3>1. Len(longer) = n + 1 /\ Len(whole) = m + k
      BY <2>2, <2>3
    <3>2. QED
      BY <2>8, <2>9, <2>10, <2>11, <3>1 DEF Samples
  <2>13. longer # <<>>
    BY <2>1, <2>2, EmptyText
  <2>14. QED
    BY <2>1, <2>12, <2>13 DEF Drawn, longer, whole
<1>3. QED
  BY <1>1, <1>2

\* What the stream of a call depends on.
LEMMA StreamKept ==
    ASSUME StreamInv, UNCHANGED overlapped,
           ~overlapped' => \A c \in Calls :
               /\ stage'[c] = "capturing" => stage[c] = "capturing" /\ events' = events
               /\ stage'[c] = "waiting" =>
                    /\ stage[c] = "waiting" /\ UNCHANGED events
                    /\ UNCHANGED <<backend, handlers, isStreaming, streamedText, started, fullResponse>>
    PROVE  StreamInv'
  BY DEF StreamInv, Streamed, Ahead

LEMMA Asked ==
    ASSUME AdviceTypes, ControlInv, NEW c \in Calls, NEW lang, Ask(c, lang),
           stage[c] \in {"unused", "capturing"}, events = <<>>,
           UNCHANGED <<events, started, isStreaming, streamedText>>
    PROVE  Streamed(c)'
<1>1. c \notin started' /\ c \notin isStreaming' /\ streamedText'[c] = <<>>
  BY DEF ControlInv, Placed
<1>2. handlers' # <<>>
  BY AppendProperties DEF Ask, AdviceTypes
<1>3. events' = <<>> /\ \A i \in DOMAIN events' : FALSE
  BY EmptyText
<1>4. QED
  BY <1>1, <1>2, <1>3 DEF Streamed

LEMMA RunStream ==
    ASSUME AdviceTypes, ControlInv, StreamInv, NEW c \in Calls, NEW lang, RunAdvice(c, lang)
    PROVE  StreamInv'
<1> SUFFICES ASSUME ~overlapped' PROVE StreamInv'
  BY DEF StreamInv
<1>1. /\ InFlight = {} /\ events = <<>> /\ stage[c] = "unused"
      /\ UNCHANGED <<events, started, isStreaming, streamedText>>
  BY DEF RunAdvice
<1>2. \A d \in Calls : d # c => stage'[d] \notin {"capturing", "waiting"}
  BY <1>1 DEF RunAdvice, Ask, AdviceTypes, InFlight
<1>3. stage'[c] = "waiting" => Streamed(c)'
  <2>1. CASE Ask(c, lang)
    BY <1>1, <2>1, Asked
  <2>2. CASE stage' = [stage EXCEPT ![c] = "capturing"]
    BY <2>2 DEF AdviceTypes
  <2>3. QED
    BY <2>1, <2>2 DEF RunAdvice
<1>4. QED
  BY <1>1, <1>2, <1>3 DEF StreamInv

LEMMA CapturedStream ==
    ASSUME AdviceTypes, ControlInv, LanguageInv, StreamInv, NEW c \in Calls, Captured(c)
    PROVE  StreamInv'
<1> SUFFICES ASSUME ~overlapped' PROVE StreamInv'
  BY DEF StreamInv
<1>1. /\ ~overlapped /\ stage[c] = "capturing" /\ Ask(c, currentLang)
      /\ UNCHANGED <<events, started, isStreaming, streamedText>>
  BY DEF Captured
<1>2. events = <<>>
  BY <1>1 DEF StreamInv
<1>3. Streamed(c)'
  BY <1>1, <1>2, Asked
<1>4. \A d \in Calls : d # c => stage'[d] \notin {"capturing", "waiting"}
  BY <1>1 DEF Ask, AdviceTypes, LanguageInv, InFlight
<1>5. stage'[c] = "waiting"
  BY <1>1 DEF Ask, AdviceTypes
<1>6. QED
  BY <1>3, <1>4, <1>5 DEF StreamInv

\* While calls do not overlap, what is bound is the call that waits.
LEMMA AloneBound ==
    ASSUME AdviceTypes, ControlInv, LanguageInv, ~overlapped,
           NEW c \in Calls, stage[c] = "waiting", handlers # <<>>
    PROVE  ToSet(handlers) = {c}
<1>1. /\ DOMAIN handlers = 1..Len(handlers) /\ Len(handlers) \in Nat \ {0}
      /\ \A i \in 1..Len(handlers) : handlers[i] \in Calls
  BY EmptySeq, LenProperties, ElementOfSeq DEF AdviceTypes
<1>2. \A i \in DOMAIN handlers : stage[handlers[i]] = "waiting"
  BY DEF ControlInv, Bound
<1>3. \A d \in Calls : stage[d] = "waiting" => d = c
  BY DEF LanguageInv, InFlight
<1>4. \A i \in DOMAIN handlers : handlers[i] = c
  BY <1>1, <1>2, <1>3
<1>5. 1 \in DOMAIN handlers
  BY <1>1
<1>6. QED
  BY <1>4, <1>5 DEF ToSet

LEMMA DeliverStream ==
    ASSUME AdviceTypes, ControlInv, LanguageInv, StreamInv, Deliver
    PROVE  StreamInv'
<1> SUFFICES ASSUME ~overlapped', NEW c \in Calls
             PROVE  /\ stage'[c] = "capturing" => events' = <<>>
                    /\ stage'[c] = "waiting" => Streamed(c)'
  BY DEF StreamInv
<1>1. /\ UNCHANGED <<stage, backend, fullResponse, started>> /\ ~overlapped
      /\ events # <<>> /\ events' = Tail(events)
  BY DEF Deliver, windowVars
<1>2. stage[c] # "capturing"
  BY <1>1 DEF StreamInv
<1> SUFFICES ASSUME stage[c] = "waiting" PROVE Streamed(c)'
  BY <1>1, <1>2
<1>3. Streamed(c)
  BY <1>1 DEF StreamInv
<1> DEFINE n == Len(events)
           event == Head(events)
<1>4. /\ n \in Nat \ {0} /\ DOMAIN events = 1..n /\ event = events[1] /\ event \in Events
      /\ events' \in Seq(Events) /\ DOMAIN events' = 1..(n - 1) /\ Len(events') = n - 1
      /\ \A i \in 1..(n - 1) : events'[i] = events[i + 1]
  <2>1. n \in Nat \ {0} /\ DOMAIN events = 1..n /\ event = events[1] /\ event \in Events
    BY <1>1, EmptySeq, LenProperties, ElementOfSeq DEF AdviceTypes
  <2>2. /\ events' \in Seq(Events) /\ Len(events') = n - 1
        /\ \A i \in 1..Len(events') : events'[i] = events[i + 1]
    BY <1>1, HeadTailProperties DEF AdviceTypes
  <2>3. QED
    BY <2>1, <2>2, LenProperties
<1> HIDE DEF n, event
<1>5. handlers # <<>>
  BY <1>1, <1>3 DEF Streamed
<1>6. ToSet(handlers) = {c}
  BY <1>1, <1>5, AloneBound
<1>7. ASSUME NEW i \in DOMAIN events', events'[i].name = "llmDone"
      PROVE  i = Len(events') /\ events'[i].text = <<>> /\ backend[c] = "returned"
  <2>1. i + 1 \in DOMAIN events /\ events'[i] = events[i + 1] /\ Len(events) = n
    BY <1>4, <1>7 DEF n
  <2>2. i + 1 = Len(events) /\ events[i + 1].text = <<>> /\ backend[c] = "returned"
    BY <1>3, <1>7, <2>1 DEF Streamed
  <2>3. QED
    BY <1>4, <2>1, <2>2
<1>8. ASSUME c \notin started, NEW i \in DOMAIN events' PROVE events'[i].name # "llmToken"
  BY <1>3, <1>4, <1>8 DEF Streamed
<1>9. 1 \in DOMAIN events
  BY <1>4
<1>10. ASSUME c \in started, streamedText'[c] = streamedText[c] \o Received(event.text)
       PROVE  Ahead(c)'
  <2>1. PICK read \in Texts :
          Rest(events, read, fullResponse[c]) /\ Drawn(streamedText[c], read)
    BY <1>3, <1>10 DEF Streamed, Ahead
  <2>2. /\ event.text \in Texts /\ fullResponse[c] \in Texts /\ streamedText[c] \in Texts
        /\ read \o event.text \in Texts
    BY <1>4, AddedText DEF AdviceTypes, Events
  <2>3. Rest(events', read \o event.text, fullResponse[c])
    BY <1>1, <2>1, <2>2, RestTaken DEF event, AdviceTypes
  <2>4. Drawn(streamedText'[c], read \o event.text)
    BY <1>10, <2>1, <2>2, DrawnMore
  <2>5. fullResponse'[c] = fullResponse[c] /\ fullResponse[c] # <<>>
    BY <1>1, <1>3, <1>10 DEF Streamed, Ahead
  <2>6. QED
    BY <2>2, <2>3, <2>4, <2>5 DEF Ahead
<1>11. CASE event.name = "llmToken"
  <2>1. c \in started
    BY <1>3, <1>4, <1>9, <1>11 DEF Streamed
  <2>2. streamedText'[c] = streamedText[c] \o Received(event.text) /\ UNCHANGED handlers
    BY <1>5, <1>6, <1>11 DEF Deliver, event
  <2>3. QED
    BY <1>1, <1>5, <1>7, <1>10, <2>1, <2>2 DEF Streamed
<1>12. CASE event.name = "llmDone"
  <2>1. 1 = n /\ event.text = <<>> /\ backend[c] = "returned"
    BY <1>3, <1>4, <1>9, <1>12 DEF Streamed, n
  <2>2. UNCHANGED <<isStreaming, streamedText>>
    BY <1>12 DEF Deliver, event
  <2>3. streamedText'[c] = streamedText[c] \o Received(event.text)
    BY <2>1, <2>2, NothingConcat DEF AdviceTypes, Received
  <2>4. events' = <<>>
    <3>1. Len(events') = 0
      BY <1>4, <2>1
    <3>2. QED
      BY <1>4, <3>1, EmptySeq
  <2>5. c \notin started => c \notin isStreaming /\ streamedText[c] = <<>>
    BY <1>3 DEF Streamed
  <2>6. QED
    BY <1>1, <1>7, <1>8, <1>10, <2>1, <2>2, <2>3, <2>4, <2>5 DEF Streamed
<1>13. QED
  BY <1>4, <1>11, <1>12 DEF Events

LEMMA SettleStream ==
    ASSUME AdviceTypes, StreamInv, LanguageInv, NEW c \in Calls, Settle(c)
    PROVE  StreamInv'
<1> SUFFICES ASSUME ~overlapped' PROVE StreamInv'
  BY DEF StreamInv
<1>1. ~overlapped /\ stage[c] = "waiting" /\ stage'[c] = "settled"
  BY DEF Settle, AdviceTypes
<1>2. \A d \in Calls : d # c => stage'[d] \notin {"capturing", "waiting"}
  BY <1>1 DEF Settle, LanguageInv, InFlight, AdviceTypes
<1>3. QED
  BY <1>1, <1>2 DEF StreamInv

\* One more event, of the call that is streamed.
LEMMA EventSent ==
    ASSUME AdviceTypes, NEW event \in Events, events' = Append(events, event)
    PROVE  /\ events' # <<>> /\ DOMAIN events' = 1..(Len(events) + 1)
           /\ Len(events') = Len(events) + 1
           /\ events'[Len(events) + 1] = event
           /\ \A i \in DOMAIN events' : i # Len(events) + 1 =>
                i \in DOMAIN events /\ events'[i] = events[i]
<1>1. /\ events' \in Seq(Events) /\ events' # <<>> /\ Len(events') = Len(events) + 1
      /\ events'[Len(events) + 1] = event
      /\ \A i \in 1..Len(events) : events'[i] = events[i]
  BY AppendProperties DEF AdviceTypes
<1>2. Len(events) \in Nat /\ DOMAIN events = 1..Len(events)
  BY LenProperties DEF AdviceTypes
<1>3. DOMAIN events' = 1..(Len(events) + 1)
  BY <1>1, LenProperties
<1>4. QED
  BY <1>1, <1>2, <1>3

LEMMA ReturnStream ==
    ASSUME AdviceTypes, ControlInv, LanguageInv, StreamInv, NEW c \in Calls, Return(c)
    PROVE  StreamInv'
<1> SUFFICES ASSUME ~overlapped' PROVE StreamInv'
  BY DEF StreamInv
<1>1. /\ ~overlapped /\ backend[c] = "streaming"
      /\ UNCHANGED <<stage, handlers, isStreaming, streamedText, fullResponse, started>>
  BY DEF Return, windowVars, panelVars, historyVars
<1>2. stage[c] = "waiting" \/ stage[c] = "settled"
  BY <1>1 DEF ControlInv, Placed, AdviceTypes
<1>3. stage[c] = "waiting" /\ \A d \in Calls : d # c => stage[d] \notin {"capturing", "waiting"}
  BY <1>1, <1>2 DEF ControlInv, Placed, LanguageInv, InFlight
<1>4. Streamed(c)
  BY <1>1, <1>3 DEF StreamInv
<1>5. handlers # <<>> /\ \A i \in DOMAIN events : events[i].name # "llmDone"
  BY <1>1, <1>4 DEF Streamed
<1>6. CASE backend' = [backend EXCEPT ![c] = "failed"] /\ UNCHANGED events
  <2>1. backend'[c] = "failed"
    BY <1>6 DEF AdviceTypes
  <2>2. Streamed(c)'
    <3>1. c \in started => Ahead(c)'
      BY <1>1, <1>4, <1>6 DEF Streamed, Ahead
    <3>2. QED
      BY <1>1, <1>4, <1>5, <1>6, <2>1, <3>1 DEF Streamed
  <2>3. QED
    BY <1>1, <1>3, <2>2 DEF StreamInv
<1>7. CASE backend' = [backend EXCEPT ![c] = "returned"] /\ events' = Append(events, Done)
  <2>1. Done.name = "llmDone" /\ Done.text = <<>> /\ Done \in Events
    BY ContentTypes DEF Done
  <2>2. /\ events' # <<>> /\ Len(events') = Len(events) + 1
        /\ events'[Len(events) + 1] = Done
        /\ \A i \in DOMAIN events' : i # Len(events) + 1 =>
             i \in DOMAIN events /\ events'[i] = events[i]
    BY <1>7, <2>1, EventSent
  <2>3. backend'[c] = "returned"
    BY <1>7 DEF AdviceTypes
  <2>4. ASSUME NEW i \in DOMAIN events', events'[i].name = "llmDone"
        PROVE  i = Len(events') /\ events'[i].text = <<>>
    BY <1>5, <2>1, <2>2, <2>4
  <2>5. ASSUME c \notin started, NEW i \in DOMAIN events' PROVE events'[i].name # "llmToken"
    BY <1>4, <2>1, <2>2, <2>5 DEF Streamed
  <2>6. ASSUME c \in started PROVE Ahead(c)'
    <3>1. PICK read \in Texts :
            Rest(events, read, fullResponse[c]) /\ Drawn(streamedText[c], read)
      BY <1>4, <2>6 DEF Streamed, Ahead
    <3>2. /\ fullResponse[c] \in Texts /\ <<>> \in Texts
          /\ events \in Seq(Events) /\ fullResponse[c] \o <<>> = fullResponse[c]
      BY EmptyText, NothingConcat DEF AdviceTypes
    <3>3. Rest(Append(events, Done), read, fullResponse[c] \o <<>>)
      BY <2>1, <3>1, <3>2, RestGiven
    <3>4. fullResponse[c] # <<>>
      BY <1>4, <2>6 DEF Streamed, Ahead
    <3>5. QED
      BY <1>1, <1>7, <3>1, <3>2, <3>3, <3>4 DEF Ahead
  <2>7. Streamed(c)'
    <3>1. c \notin started => c \notin isStreaming /\ streamedText[c] = <<>>
      BY <1>4 DEF Streamed
    <3>2. QED
      BY <1>1, <1>5, <2>2, <2>3, <2>4, <2>5, <2>6, <3>1 DEF Streamed
  <2>8. QED
    BY <1>1, <1>3, <2>7 DEF StreamInv
<1>8. QED
  BY <1>6, <1>7 DEF Return

LEMMA ScanStream ==
    ASSUME AdviceTypes, ControlInv, LanguageInv, StreamInv, NEW c \in Calls, Scan(c)
    PROVE  StreamInv'
<1> SUFFICES ASSUME ~overlapped' PROVE StreamInv'
  BY DEF StreamInv
<1>1. /\ ~overlapped /\ backend[c] = "streaming"
      /\ UNCHANGED <<stage, handlers, isStreaming, streamedText, backend>>
  BY DEF Scan, windowVars, panelVars, historyVars
<1>2. stage[c] = "waiting" \/ stage[c] = "settled"
  BY <1>1 DEF ControlInv, Placed, AdviceTypes
<1>3. stage[c] = "waiting" /\ \A d \in Calls : d # c => stage[d] \notin {"capturing", "waiting"}
  BY <1>1, <1>2 DEF ControlInv, Placed, LanguageInv, InFlight
<1>4. Streamed(c)
  BY <1>1, <1>3 DEF StreamInv
<1>5. handlers # <<>> /\ \A i \in DOMAIN events : events[i].name # "llmDone"
  BY <1>1, <1>4 DEF Streamed
<1>6. tokens'[c] \in Nat
  BY DEF Scan, AdviceTypes
<1>7. PICK token \in Given(c, tokens'[c]) :
        LET text == fullResponse[c] \o token IN
        \/ /\ c \in started
           /\ fullResponse' = [fullResponse EXCEPT ![c] = text]
           /\ events' = Append(events, Token(token))
           /\ UNCHANGED started
        \/ c \notin started /\ TrimLeft(text) # <<>> /\ Trimmed(c, TrimLeft(text))
        \/ /\ c \notin started /\ TrimLeft(text) = <<>>
           /\ fullResponse' = [fullResponse EXCEPT ![c] = text]
           /\ UNCHANGED <<started, events>>
  BY DEF Scan
<1>8. /\ token \in Texts /\ fullResponse[c] \in Texts /\ streamedText[c] \in Texts
      /\ fullResponse[c] \o token \in Texts /\ TrimLeft(fullResponse[c] \o token) \in Texts
      /\ events \in Seq(Events)
  BY <1>6, GivenTypes, AddedText, TrimmedText DEF AdviceTypes
\* It suffices that what is sent is a token that prolongs the answer.
<1>9. ASSUME NEW more \in Texts, NEW answer \in Texts, NEW read \in Texts,
             Rest(events, read, answer), Drawn(streamedText[c], read),
             events' = Append(events, Token(more)), fullResponse'[c] = answer \o more,
             answer # <<>> \/ more # <<>>, c \in started'
      PROVE  Streamed(c)'
  <2>1. Token(more).name = "llmToken" /\ Token(more).text = more /\ Token(more) \in Events
    BY ContentTypes DEF Token
  <2>2. /\ events' # <<>> /\ events'[Len(events) + 1] = Token(more)
        /\ \A i \in DOMAIN events' : i # Len(events) + 1 =>
             i \in DOMAIN events /\ events'[i] = events[i]
    BY <1>9, <2>1, EventSent
  <2>3. \A i \in DOMAIN events' : events'[i].name # "llmDone"
    BY <1>5, <2>1, <2>2
  <2>4. Rest(Append(events, Token(more)), read, answer \o more)
    BY <1>8, <1>9, <2>1, RestGiven
  <2>5. answer \o more # <<>>
    <3>1. /\ Len(answer) \in Nat /\ Len(more) \in Nat
          /\ Len(answer \o more) = Len(answer) + Len(more)
          /\ Len(answer) # 0 \/ Len(more) # 0
      BY <1>9, EmptySeq, LenProperties, ConcatProperties DEF Texts
    <3>2. QED
      BY <3>1, EmptyText
  <2>6. Ahead(c)'
    BY <1>1, <1>9, <2>4, <2>5 DEF Ahead
  <2>7. QED
    BY <1>1, <1>5, <1>9, <2>3, <2>6 DEF Streamed
<1>10. Streamed(c)'
  <2>1. CASE /\ c \in started
             /\ fullResponse' = [fullResponse EXCEPT ![c] = fullResponse[c] \o token]
             /\ events' = Append(events, Token(token))
             /\ UNCHANGED started
    <3>1. fullResponse'[c] = fullResponse[c] \o token
      BY <2>1 DEF AdviceTypes
    <3>2. PICK read \in Texts :
            Rest(events, read, fullResponse[c]) /\ Drawn(streamedText[c], read)
      BY <1>4, <2>1 DEF Streamed, Ahead
    <3>3. fullResponse[c] # <<>>
      BY <1>4, <2>1 DEF Streamed, Ahead
    <3>4. QED
      BY <1>8, <1>9, <2>1, <3>1, <3>2, <3>3
  <2>2. CASE /\ c \notin started /\ TrimLeft(fullResponse[c] \o token) # <<>>
             /\ Trimmed(c, TrimLeft(fullResponse[c] \o token))
    <3> DEFINE text == TrimLeft(fullResponse[c] \o token)
    <3>1. /\ fullResponse'[c] = text /\ events' = Append(events, Token(text))
          /\ c \in started' /\ text \in Texts /\ text # <<>>
      BY <1>8, <2>2 DEF Trimmed, AdviceTypes
    <3>2. events = <<>> /\ streamedText[c] = <<>>
      <4>1. /\ streamedText[c] = <<>>
            /\ \A i \in DOMAIN events : events[i].name # "llmToken"
        BY <1>4, <2>2 DEF Streamed
      <4>2. events # <<>> => Len(events) \in Nat \ {0} /\ DOMAIN events = 1..Len(events)
        BY <1>8, EmptySeq, LenProperties
      <4>3. events # <<>> => events[1] \in Events /\ 1 \in DOMAIN events
        BY <1>8, <4>2, ElementOfSeq
      <4>4. QED
        BY <1>5, <4>1, <4>3 DEF Events
    <3> HIDE DEF text
    <3>3. <<>> \in Texts /\ <<>> \o text = text
      BY <3>1, EmptyText, NothingConcat
    <3>4. Rest(events, <<>>, <<>>) /\ Drawn(streamedText[c], <<>>)
      BY <3>2, <3>3, NothingLeft, SamplesNone DEF Drawn
    <3>5. QED
      BY <1>9, <3>1, <3>3, <3>4
  <2>3. CASE c \notin started /\ UNCHANGED <<started, events>>
    BY <1>1, <1>4, <2>3 DEF Streamed
  <2>4. QED
    BY <1>7, <2>1, <2>2, <2>3
<1>11. QED
  BY <1>1, <1>3, <1>10 DEF StreamInv

LEMMA StreamStep ==
    ASSUME AdviceTypes, ControlInv, LanguageInv, StreamInv, [Next]_vars
    PROVE  StreamInv'
<1>1. ASSUME NEW c \in Calls, Analysed(c) PROVE StreamInv'
  BY <1>1, RunStream DEF Analysed
<1>2. CASE SetLanguage
  <2>1. ASSUME NEW c \in Calls, RunAdvice(c, currentLang') PROVE StreamInv'
    BY <2>1, RunStream
  <2>2. CASE UNCHANGED <<stage, language, panelVars, backendVars, historyVars>>
    BY <2>2, StreamKept DEF panelVars, backendVars, historyVars
  <2>3. QED
    BY <1>2, <2>1, <2>2 DEF SetLanguage
<1>3. ASSUME NEW c \in Calls, Type(c) PROVE StreamInv'
  BY <1>3, StreamKept DEF Type, windowVars, backendVars, historyVars
<1>4. CASE UNCHANGED vars
  BY <1>4, StreamKept DEF vars, windowVars, panelVars, backendVars, historyVars
<1>5. QED
  BY <1>1, <1>2, <1>3, <1>4, CapturedStream, SettleStream, DeliverStream, ScanStream, ReturnStream
     DEF Next

----------------------------------------------------------------------------
(***************************************************************************)
(* Theorems.                                                               *)
(***************************************************************************)

\* The inductive invariant: where the calls are, what is typed, in which language,
\* and what is on its way to the window, however many calls overlap.
THEOREM AdviceInvariance == Spec => []AdviceInv
<1>1. AdviceInv /\ [Next]_vars => AdviceInv'
  BY TypesStep, ControlStep, AnswerStep, LanguageStep, StreamStep DEF AdviceInv
<1>2. QED
  BY InitAdvice, <1>1, PTL DEF Spec

\* The "finally" of runAdvice and the llmDone of whichever call is enough: the
\* listeners of a call that is over are never called again.
THEOREM HandlersCorrect == Spec => []HandlersInFlight
<1>1. AdviceInv => HandlersInFlight
  BY DEF AdviceInv, ControlInv, Bound, HandlersInFlight
<1>2. QED
  BY <1>1, AdviceInvariance, PTL

\* What runAdvice leaves in the panel is the whole answer or the error of the call
\* that settled last, streamed or typed, unless something disturbed the typewriter.
THEOREM AnswersWhole == Spec => []SettledAnswerComplete
<1>1. AdviceInv => SettledAnswerComplete
  BY DEF AdviceInv, AnswerInv, SettledAnswerComplete, Quiet
<1>2. QED
  BY <1>1, AdviceInvariance, PTL

\* setLanguage asks again: calls that do not overlap end in the language of the window.
THEOREM LanguageCorrect == Spec => []AdviceInLanguage
<1>1. AdviceInv => AdviceInLanguage
  BY DEF AdviceInv, LanguageInv, AdviceInLanguage, Quiet
<1>2. QED
  BY <1>1, AdviceInvariance, PTL

\* The handler of a call that is alone draws its text, in order and from the first
\* character on, from what GenerateRenovationAdvice has put together, wherever the
\* tokens are cut; and it has drawn some once nothing is under way.
THEOREM StreamsCorrect == Spec => []StreamSamplesAnswer
<1>1. ASSUME AdviceInv, ~overlapped, NEW c \in Calls, stage[c] = "waiting"
      PROVE  /\ Samples(streamedText[c], fullResponse[c])
             /\ events = <<>> /\ c \in started => streamedText[c] # <<>>
  <2> DEFINE text == streamedText[c]
             answer == fullResponse[c]
  <2>1. text \in Texts /\ answer \in Texts /\ events \in Seq(Events)
    BY <1>1 DEF AdviceInv, AdviceTypes
  <2>2. CASE c \notin started
    <3>1. text = <<>>
      BY <1>1, <2>2 DEF AdviceInv, StreamInv, Streamed
    <3> HIDE DEF answer
    <3>2. Samples(<<>>, answer)
      BY <2>1, SamplesNone
    <3>3. QED
      BY <2>2, <3>1, <3>2 DEF answer
  <2>3. CASE c \in started
    <3>1. answer # <<>> /\ \E read \in Texts : Rest(events, read, answer) /\ Drawn(text, read)
      BY <1>1, <2>3 DEF AdviceInv, StreamInv, Streamed, Ahead
    <3> HIDE DEF text, answer
    <3>2. PICK read \in Texts : Rest(events, read, answer) /\ Drawn(text, read)
      BY <3>1
    <3>3. PICK cut \in [0..Len(events) -> 0..Len(answer)] :
            /\ cut[0] = Len(read) /\ cut[Len(events)] = Len(answer)
            /\ read = SubSeq(answer, 1, cut[0])
      BY <3>2 DEF Rest
    <3>4. Len(events) \in Nat /\ cut[0] \in 0..Len(answer)
      BY <2>1, <3>3, LenProperties
    <3>5. Samples(text, answer)
      BY <2>1, <3>2, <3>3, <3>4, SamplesLonger DEF Drawn
    <3>6. ASSUME events = <<>> PROVE text # <<>>
      <4>1. cut[0] = Len(answer)
        BY <3>3, <3>6, EmptyText
      <4>2. read = answer
        BY <2>1, <3>3, <4>1, SubSeqFull DEF Texts
      <4>3. QED
        BY <3>1, <3>2, <4>2 DEF Drawn
    <3>7. QED
      BY <3>5, <3>6 DEF text, answer
  <2>4. QED
    BY <2>2, <2>3
<1>2. AdviceInv => StreamSamplesAnswer
  BY <1>1 DEF StreamSamplesAnswer
<1>3. QED
  BY <1>2, AdviceInvariance, PTL
=============================================================================
