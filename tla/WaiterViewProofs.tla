--------------------------- MODULE WaiterViewProofs ---------------------------
(***************************************************************************)
(* Proofs about WaiterView, for any browsers, tabs and tokens, on top of   *)
(* the invariant of the admission loop.                                    *)
(*                                                                         *)
(* ViewInv says what a tab may hold between two of its steps.  Dated ties  *)
(* a place that was told once to the queue as it is now: the waiter still  *)
(* has that number and at most that place, or has joined again and has a   *)
(* later number.  Every step of the loop keeps it, however old the place   *)
(* is, so an answer can be overtaken by anything on its way to the tab.    *)
(***************************************************************************)
EXTENDS WaiterView, AdmissionLoopProofs

Shown == [token : Tokens \cup {NoToken}, number : Places, position : Places]

Answers == [state : {"none", "waiting", "admitted", "unknown_event", "unknown_token"},
            number : Places, position : Places, total_waiting : Nat, admitted_total : Nat]

TabRecords == [at : {"idle", "joining", "polling", "answered"},
               token : Tokens \cup {NoToken}, mine : Tokens \cup {NoToken},
               tries : 0 .. MaxRetries, answer : Answers, shown : Shown]

\* A token the browser of this tab got back from a join, or got a place with.
Known(x, t) == t # NoToken => holder[t] = Owner[x] /\ HadPlace(t)

\* What was told of a token's place once is the truth, or was.
Dated(t, n, place) ==
    /\ n <= seq
    /\ t \in DOMAIN queue => n <= queue[t] /\ (queue[t] = n => n - admitted <= place)

OneInstant(a) ==
    /\ a.state = "waiting" =>
         1 <= a.position /\ a.position <= a.total_waiting /\ a.number = a.admitted_total + a.position
    /\ a.state = "admitted" => a.number \in 1 .. a.admitted_total

\* An answer about token t is no step back from a place that is shown.
NoStepBack(t, a, old) ==
    /\ a.state = "admitted" => a.position = 0
    /\ a.state = "waiting" /\ old.token = t =>
         \/ old.number < a.number
         \/ old.number = a.number /\ a.position <= old.position

Told(x) ==
    /\ OneInstant(tab[x].answer)
    /\ tab[x].answer.state \in {"waiting", "admitted"} =>
         /\ tab[x].token # NoToken
         /\ HadPlace(tab[x].token)
         /\ Dated(tab[x].token, tab[x].answer.number, tab[x].answer.position)
         /\ NoStepBack(tab[x].token, tab[x].answer, tab[x].shown)

TabOK(x) ==
    /\ tab[x].token # NoToken => holder[tab[x].token] = Owner[x]
    /\ Known(x, tab[x].mine)
    /\ Doing(x, "joining") => tab[x].token # NoToken
    /\ Doing(x, "polling") => tab[x].token # NoToken /\ HadPlace(tab[x].token)
    /\ ~Doing(x, "answered") => tab[x].answer = NoAnswer
    /\ Told(x)
    /\ Dated(tab[x].shown.token, tab[x].shown.number, tab[x].shown.position)

ViewTypes ==
    /\ jar \in [Browsers -> Tokens \cup {NoToken}]
    /\ tab \in [Tabs -> TabRecords]
    /\ holder \in [Tokens -> Browsers \cup {NoBrowser}]

Jars == \A b \in Browsers : jar[b] # NoToken => holder[jar[b]] = b /\ HadPlace(jar[b])

Minted == \A t \in DOMAIN queue : ~Fresh(t)

ViewInv == ViewTypes /\ Jars /\ Minted /\ \A x \in Tabs : TabOK(x)

-----------------------------------------------------------------------------
(* What a step of the loop does to what was told.                          *)

LEMMA PlaceKept ==
    ASSUME LoopInv, [LoopNext]_loopVars, NEW t, HadPlace(t)
    PROVE  \E k \in DOMAIN arrivals' : arrivals'[k] = t
<1>1. LoopInv'
  BY LoopNextKeeps
<1>2. DOMAIN arrivals = 1 .. seq /\ DOMAIN arrivals' = 1 .. seq'
  BY <1>1 DEF LoopInv, Types
<1>3. \A k \in 1 .. seq : k \in 1 .. seq' /\ arrivals'[k] = arrivals[k]
  BY QueueMoves, HistoryGrows
<1>4. QED
  BY <1>2, <1>3 DEF HadPlace

LEMMA DatedKept ==
    ASSUME LoopInv, [LoopNext]_loopVars, NEW t, NEW n \in Nat, NEW place \in Nat,
           Dated(t, n, place)
    PROVE  /\ n <= seq'
           /\ t \in DOMAIN queue' =>
                n <= queue'[t] /\ (queue'[t] = n => n - admitted' <= place)
<1>1. /\ seq \in Nat /\ seq' \in Nat /\ seq <= seq'
      /\ t \in DOMAIN queue' => (t \in DOMAIN queue /\ queue'[t] = queue[t]) \/ queue'[t] = seq + 1
  BY QueueMoves
<1>2. admitted \in Nat /\ admitted' \in Nat /\ admitted <= admitted'
  BY HistoryGrows
<1>3. CASE t \in DOMAIN queue /\ queue'[t] = queue[t]
  BY <1>1, <1>2, <1>3 DEF Dated
<1>4. CASE queue'[t] = seq + 1
  BY <1>1, <1>2, <1>4 DEF Dated
<1>5. CASE t \notin DOMAIN queue'
  BY <1>1, <1>5 DEF Dated
<1>6. QED
  BY <1>1, <1>3, <1>4, <1>5

\* What the queue says of a waiter's place.
Placed(t) ==
    /\ t \in Tokens /\ queue[t] \in Places /\ queue[t] - admitted \in Places
    /\ 1 <= queue[t] - admitted /\ queue[t] - admitted <= ZCard
    /\ ZCard \in Nat /\ admitted \in Nat
    /\ queue[t] = admitted + (queue[t] - admitted)
    /\ PlaceFromJoin(t) = queue[t] - admitted
    /\ PlaceFromPoll(t) = queue[t] - admitted
    /\ HadPlace(t)

LEMMA PlaceOf == LoopInv => \A t \in DOMAIN queue : Placed(t)
<1> SUFFICES ASSUME LoopInv, NEW t \in DOMAIN queue
             PROVE  Placed(t)
  OBVIOUS
<1>1. /\ TypeOK /\ Dense /\ Lined /\ seq \in Nat /\ seq <= MaxSeq /\ MaxSeq \in Nat
      /\ admitted \in Nat /\ admitted <= seq /\ DOMAIN arrivals = 1 .. seq
  BY MaxSeqAssumption DEF LoopInv, Types, TypeOK, Dense
<1>2. queue[t] \in admitted + 1 .. seq /\ t \in Tokens
  BY <1>1 DEF Dense, TypeOK
<1>3. ZCard = seq - admitted /\ ZRank(t) = queue[t] - admitted - 1
  BY <1>1, QueueCard, RankIsArithmetic
<1>4. HadPlace(t)
  BY <1>1, <1>2 DEF Lined, HadPlace
<1>5. QED
  BY <1>1, <1>2, <1>3, <1>4 DEF Placed, Places, PlaceFromJoin, PlaceFromPoll

\* The same, of the queue a step leaves.
LEMMA PlaceOfNext == LoopInv' => (\A t \in DOMAIN queue : Placed(t))'
BY PlaceOf, PTL

-----------------------------------------------------------------------------
(* What a step does to a tab it leaves alone, and to one it changes.       *)

\* Nobody takes a token away from the browser it was minted for.
Minting == \A t \in Tokens : ~Fresh(t) => holder'[t] = holder[t]

LEMMA HeldKept ==
    ASSUME Minting, NEW x \in Tabs, NEW t \in Tokens, holder[t] = Owner[x]
    PROVE  holder'[t] = Owner[x]
BY ViewAssumption DEF Minting, Fresh

LEMMA TabFields ==
    ASSUME ViewTypes, NEW x \in Tabs
    PROVE  /\ tab[x] \in TabRecords
           /\ tab[x].token \in Tokens \cup {NoToken} /\ tab[x].mine \in Tokens \cup {NoToken}
           /\ tab[x].tries \in 0 .. MaxRetries
           /\ tab[x].answer \in Answers
           /\ tab[x].answer.number \in Nat /\ tab[x].answer.position \in Nat
           /\ tab[x].shown \in Shown
           /\ tab[x].shown.number \in Nat /\ tab[x].shown.position \in Nat
<1>1. tab[x] \in TabRecords
  BY DEF ViewTypes
<1>2. Places \subseteq Nat
  BY DEF Places
<1>3. tab[x].answer \in Answers /\ tab[x].shown \in Shown
  BY <1>1 DEF TabRecords
<1>4. QED
  BY <1>1, <1>2, <1>3 DEF TabRecords, Answers, Shown

LEMMA TabKept ==
    ASSUME LoopInv, [LoopNext]_loopVars, Minting, ViewTypes,
           NEW x \in Tabs, TabOK(x), tab'[x] = tab[x]
    PROVE  TabOK(x)'
<1>1. PICK r : r = tab[x]
  OBVIOUS
<1>2. /\ r.token \in Tokens \cup {NoToken} /\ r.mine \in Tokens \cup {NoToken}
      /\ r.answer.number \in Nat /\ r.answer.position \in Nat
      /\ r.shown.number \in Nat /\ r.shown.position \in Nat
  BY <1>1, TabFields
<1>3. \A t \in Tokens : holder[t] = Owner[x] => holder'[t] = Owner[x]
  BY HeldKept
<1>4. \A t : HadPlace(t) => HadPlace(t)'
  BY PlaceKept DEF HadPlace
<1>5. \A t, n, place : n \in Nat /\ place \in Nat /\ Dated(t, n, place)
                          => Dated(t, n, place)'
  BY DatedKept DEF Dated
<1>6. tab'[x] = r
  BY <1>1
<1>7. Known(x, r.mine)'
  BY <1>1, <1>2, <1>3, <1>4 DEF TabOK, Known
<1>8. (r.token # NoToken => holder[r.token] = Owner[x])'
  BY <1>1, <1>2, <1>3 DEF TabOK
<1>9. Told(x)'
  BY <1>1, <1>2, <1>4, <1>5, <1>6 DEF TabOK, Told, NoStepBack
<1>10. Dated(r.shown.token, r.shown.number, r.shown.position)'
  BY <1>1, <1>2, <1>5 DEF TabOK
<1>11. QED
  BY <1>1, <1>4, <1>6, <1>7, <1>8, <1>9, <1>10 DEF TabOK, Doing

\* The invariant of the views after a step of at most one tab.
LEMMA OneTab ==
    ASSUME LoopInv, [LoopNext]_loopVars, Minting, ViewInv,
           NEW x \in Tabs, NEW r \in TabRecords, tab' = [tab EXCEPT ![x] = r],
           holder' \in [Tokens -> Browsers \cup {NoBrowser}],
           jar' \in [Browsers -> Tokens \cup {NoToken}],
           Jars', Minted', TabOK(x)'
    PROVE  ViewInv'
<1>1. ViewTypes /\ tab'[x] = r /\ \A y \in Tabs \ {x} : tab'[y] = tab[y]
  BY DEF ViewInv, ViewTypes
<1>2. tab' \in [Tabs -> TabRecords]
  BY <1>1 DEF ViewTypes
<1>3. ASSUME NEW y \in Tabs, y # x PROVE TabOK(y)'
  BY <1>1, <1>3, TabKept DEF ViewInv
<1>4. QED
  BY <1>2, <1>3 DEF ViewInv, ViewTypes

\* A cookie nobody touches is still that of a token with a place.
LEMMA JarsKept ==
    ASSUME LoopInv, [LoopNext]_loopVars, Minting, ViewInv, UNCHANGED jar
    PROVE  Jars'
<1>1. \A t : HadPlace(t) => HadPlace(t)'
  BY PlaceKept DEF HadPlace
<1>2. ASSUME NEW b \in Browsers, jar[b] # NoToken PROVE holder'[jar[b]] = b /\ jar[b] \in Tokens
  BY <1>2, ViewAssumption DEF ViewInv, ViewTypes, Jars, Minting, Fresh
<1>3. ASSUME NEW b \in Browsers, NEW t, t = jar[b], t # NoToken
      PROVE  holder'[t] = b /\ HadPlace(t)'
  BY <1>1, <1>2, <1>3 DEF ViewInv, Jars
<1>4. QED
  BY <1>3 DEF Jars

\* A step that lets nobody into the queue.
LEMMA MintedKept ==
    ASSUME LoopInv, Minting, Minted, \A t \in DOMAIN queue' : t \in DOMAIN queue
    PROVE  Minted'
<1>1. \A t \in DOMAIN queue : t \in Tokens
  BY DEF LoopInv, Types, TypeOK
<1>2. QED
  BY <1>1 DEF Minted, Minting, Fresh

-----------------------------------------------------------------------------
(* The two ways a tab's record is replaced.                                *)

LEMMA NoAnswerIs ==
    NoAnswer \in Answers /\ NoAnswer.state = "none"
BY MaxSeqAssumption DEF NoAnswer, Answers, Places

\* A tab that is left with no answer, and shows what it showed.
LEMMA QuietTab ==
    ASSUME LoopInv, [LoopNext]_loopVars, Minting, ViewInv,
           NEW x \in Tabs, NEW r \in TabRecords, tab'[x] = r,
           r.at # "answered", r.answer = NoAnswer, r.shown = tab[x].shown,
           r.mine \in {tab[x].mine, NoToken},
           r.token # NoToken => holder'[r.token] = Owner[x],
           r.at = "joining" => r.token # NoToken,
           r.at = "polling" => r.token # NoToken /\ HadPlace(r.token)
    PROVE  TabOK(x)'
<1>1. ViewTypes /\ TabOK(x)
  BY DEF ViewInv
<1>2. /\ r.mine \in Tokens \cup {NoToken}
      /\ r.shown.number \in Nat /\ r.shown.position \in Nat
  BY <1>1, TabFields DEF TabRecords
<1>3. \A t : HadPlace(t) => HadPlace(t)'
  BY PlaceKept DEF HadPlace
<1>4. Known(x, r.mine)'
  BY <1>1, <1>2, <1>3, HeldKept DEF TabOK, Known
<1>5. Dated(r.shown.token, r.shown.number, r.shown.position)'
  BY <1>1, <1>2, DatedKept DEF TabOK, Dated
<1>6. Told(x)'
  BY NoAnswerIs DEF Told, OneInstant
<1>7. QED
  BY <1>3, <1>4, <1>5, <1>6 DEF TabOK, Doing

\* A tab whose request has been served, with the answer on its way.
LEMMA AnsweredTab ==
    ASSUME LoopInv, [LoopNext]_loopVars, Minting, ViewInv,
           NEW x \in Tabs, NEW r \in TabRecords, tab'[x] = r,
           r.at = "answered", r.shown = tab[x].shown,
           r.mine = tab[x].mine, r.token = tab[x].token,
           OneInstant(r.answer),
           r.answer.state = "waiting" =>
             /\ r.token \in DOMAIN queue'
             /\ r.answer.number = queue'[r.token]
             /\ r.answer.position = queue'[r.token] - admitted',
           r.answer.state = "admitted" =>
             /\ r.token # NoToken /\ HadPlace(r.token)
             /\ r.answer.number <= admitted'
             /\ r.answer.position = 0
    PROVE  TabOK(x)'
<1>1. ViewTypes /\ TabOK(x) /\ LoopInv'
  BY LoopNextKeeps DEF ViewInv
<1>2. /\ r.mine \in Tokens \cup {NoToken} /\ r.token \in Tokens \cup {NoToken}
      /\ r.answer.number \in Nat /\ r.answer.position \in Nat
      /\ r.shown.number \in Nat /\ r.shown.position \in Nat
      /\ r.shown.token = tab[x].shown.token
  <2>1. Places \subseteq Nat /\ r.answer \in Answers
    BY DEF Places, TabRecords
  <2>2. QED
    BY <1>1, <2>1, TabFields DEF Answers
<1>3. \A t : HadPlace(t) => HadPlace(t)'
  BY PlaceKept DEF HadPlace
<1>4. Known(x, r.mine)'
  BY <1>1, <1>2, <1>3, HeldKept DEF TabOK, Known
<1>5. (r.token # NoToken => holder[r.token] = Owner[x])'
  BY <1>1, <1>2, HeldKept DEF TabOK
<1>6. Dated(r.shown.token, r.shown.number, r.shown.position)'
  BY <1>1, <1>2, DatedKept DEF TabOK, Dated
<1>7. /\ seq' \in Nat /\ admitted' \in Nat /\ admitted' <= seq'
      /\ \A t \in DOMAIN queue' : queue'[t] \in admitted' + 1 .. seq' /\ t \in Tokens
  BY <1>1 DEF LoopInv, Types, TypeOK, Dense
<1>8. CASE r.answer.state = "waiting"
  <2>1. HadPlace(r.token)' /\ r.token # NoToken
    BY <1>1, <1>7, <1>8, PlaceOfNext, ViewAssumption DEF Placed
  <2>2. Dated(r.token, r.answer.number, r.answer.position)'
    BY <1>2, <1>7, <1>8 DEF Dated
  <2>3. NoStepBack(r.token, r.answer, r.shown)
    <3>1. r.shown.token = r.token =>
            \/ r.shown.number < r.answer.number
            \/ r.shown.number = r.answer.number /\ r.answer.position <= r.shown.position
      BY <1>2, <1>6, <1>7, <1>8 DEF Dated
    <3>2. QED
      BY <1>2, <1>8, <3>1 DEF NoStepBack
  <2>4. Told(x)'
    BY <1>8, <2>1, <2>2, <2>3 DEF Told, OneInstant
  <2>5. QED
    BY <1>4, <1>5, <1>6, <2>4 DEF TabOK, Doing
<1>9. CASE r.answer.state = "admitted"
  <2>1. HadPlace(r.token)' /\ r.token # NoToken
    BY <1>3, <1>9
  <2>2. Dated(r.token, r.answer.number, r.answer.position)'
    BY <1>2, <1>7, <1>9 DEF Dated
  <2>3. Told(x)'
    BY <1>9, <2>1, <2>2 DEF Told, NoStepBack, OneInstant
  <2>4. QED
    BY <1>4, <1>5, <1>6, <2>3 DEF TabOK, Doing
<1>10. CASE r.answer.state \notin {"waiting", "admitted"}
  <2>1. Told(x)'
    BY <1>10 DEF Told, OneInstant
  <2>2. QED
    BY <1>4, <1>5, <1>6, <2>1 DEF TabOK, Doing
<1>11. QED
  BY <1>8, <1>9, <1>10

-----------------------------------------------------------------------------
(* The answers.                                                            *)

\* An answer without a place.
LEMMA Refusal ==
    ASSUME NEW state \in {"unknown_event", "unknown_token"}, NEW a,
           a = [NoAnswer EXCEPT !.state = state]
    PROVE  a \in Answers /\ a.state = state /\ OneInstant(a)
BY MaxSeqAssumption DEF NoAnswer, Answers, Places, OneInstant

\* An answer with the place of somebody in the queue, in either form.
LEMMA WaitingIs ==
    ASSUME LoopInv, NEW t \in DOMAIN queue, NEW a, a = Waiting(t, queue[t] - admitted)
    PROVE  /\ a \in Answers /\ a.state = "waiting" /\ OneInstant(a)
           /\ a.number = queue[t] /\ a.position = queue[t] - admitted
<1>1. Placed(t)
  BY PlaceOf
<1>2. QED
  BY <1>1 DEF Placed, Waiting, Answers, OneInstant

LEMMA AdmittedIs ==
    ASSUME LoopInv, NEW t \in Tokens, Live(t), NEW a, a = Admitted(t)
    PROVE  /\ a \in Answers /\ a.state = "admitted" /\ OneInstant(a)
           /\ a.number <= admitted /\ a.position = 0
<1>1. passes[t].number \in 1 .. admitted
  BY DEF LoopInv, Kept, Ledger, Live
<1>2. /\ ZCard \in Nat /\ admitted \in Nat /\ admitted <= MaxSeq /\ MaxSeq \in Nat
  <2>1. TypeOK /\ Dense /\ seq \in Nat /\ admitted \in Nat /\ admitted <= seq /\ seq <= MaxSeq
    BY DEF LoopInv, Types, TypeOK, Dense
  <2>2. QED
    BY <2>1, QueueCard, MaxSeqAssumption
<1>3. a = [state |-> "admitted", number |-> passes[t].number, position |-> 0,
           total_waiting |-> ZCard, admitted_total |-> admitted]
  BY DEF Admitted, NoAnswer
<1>4. passes[t].number \in Places /\ 0 \in Places
  BY <1>1, <1>2 DEF Places
<1>5. a \in Answers
  BY <1>2, <1>3, <1>4 DEF Answers
<1>6. QED
  BY <1>1, <1>2, <1>3, <1>5 DEF OneInstant

LEMMA PollAnswerIs ==
    ASSUME LoopInv, NEW t \in Tokens, NEW a, a = PollAnswer(t)
    PROVE  /\ a \in Answers /\ OneInstant(a)
           /\ a.state = "waiting" =>
                /\ t \in DOMAIN queue
                /\ a.number = queue[t] /\ a.position = queue[t] - admitted
           /\ a.state = "admitted" => a.number <= admitted /\ a.position = 0
           /\ a.state = "unknown_token" => ~Queued(t) /\ ~Live(t)
<1>1. CASE config = NoConfig
  <2>1. a = [NoAnswer EXCEPT !.state = "unknown_event"]
    BY <1>1 DEF PollAnswer
  <2>2. QED
    BY <2>1, Refusal
<1>2. CASE config # NoConfig /\ Queued(t)
  <2>1. a = Waiting(t, queue[t] - admitted) /\ t \in DOMAIN queue
    BY <1>2, PlaceOf DEF PollAnswer, Placed, Queued
  <2>2. QED
    BY <2>1, WaitingIs
<1>3. CASE config # NoConfig /\ ~Queued(t) /\ Live(t)
  <2>1. a = Admitted(t)
    BY <1>3 DEF PollAnswer
  <2>2. QED
    BY <1>3, <2>1, AdmittedIs
<1>4. CASE config # NoConfig /\ ~Queued(t) /\ ~Live(t)
  <2>1. a = [NoAnswer EXCEPT !.state = "unknown_token"]
    BY <1>4 DEF PollAnswer
  <2>2. QED
    BY <1>4, <2>1, Refusal
<1>5. QED
  BY <1>1, <1>2, <1>3, <1>4

-----------------------------------------------------------------------------
(* The invariant, action by action.                                        *)

\* What a tab's step that leaves the event and the tokens alone preserves.
LEMMA EventStands ==
    ASSUME LoopInv, ViewInv, UNCHANGED <<loopVars, holder>>
    PROVE  /\ [LoopNext]_loopVars /\ Minting /\ Minted'
           /\ holder' \in [Tokens -> Browsers \cup {NoBrowser}]
<1>1. [LoopNext]_loopVars /\ Minting /\ UNCHANGED <<queue, holder>>
  BY DEF loopVars, queueVars, Minting
<1>2. QED
  BY <1>1, MintedKept DEF ViewInv, ViewTypes

LEMMA LoadPageOK ==
    ASSUME LoopInv, ViewInv, NEW x \in Tabs, NEW t \in Tokens, LoadPage(x, t)
    PROVE  ViewInv'
<1>1. PICK b \in Browsers : b = Owner[x]
  BY ViewAssumption
<1>2. /\ Doing(x, "idle") /\ UNCHANGED <<loopVars, jar>>
      /\ IF jar[b] = NoToken THEN Fresh(t) \/ t = tab[x].mine ELSE t = jar[b]
      /\ holder' = [holder EXCEPT ![t] = b]
      /\ tab' = [tab EXCEPT ![x].at = "joining", ![x].token = t,
                            ![x].mine = NoToken, ![x].tries = 0]
  BY <1>1 DEF LoadPage
<1>3. /\ ViewTypes /\ Jars /\ Minted /\ TabOK(x) /\ [LoopNext]_loopVars /\ t # NoToken
      /\ queue' = queue
  BY <1>2, ViewAssumption DEF ViewInv, loopVars, queueVars
<1>4. holder[t] = NoBrowser \/ holder[t] = b
  BY <1>1, <1>2, <1>3 DEF TabOK, Known, Fresh, Jars
<1>5. /\ holder' \in [Tokens -> Browsers \cup {NoBrowser}] /\ holder'[t] = b
      /\ Minting
  BY <1>2, <1>3, <1>4 DEF ViewTypes, Minting, Fresh
<1>6. PICK r : r = [tab[x] EXCEPT !.at = "joining", !.token = t, !.mine = NoToken, !.tries = 0]
  OBVIOUS
<1>7. tab' = [tab EXCEPT ![x] = r] /\ tab'[x] = r
  BY <1>2, <1>3, <1>6 DEF ViewTypes
<1>8. /\ r.at = "joining" /\ r.token = t /\ r.mine = NoToken
      /\ r.answer = tab[x].answer /\ r.shown = tab[x].shown
      /\ r \in TabRecords
  <2>1. 0 \in 0 .. MaxRetries /\ "joining" \in {"idle", "joining", "polling", "answered"}
    BY LoopAssumption
  <2>2. tab[x] \in TabRecords
    BY <1>3, TabFields
  <2>3. r \in TabRecords
    BY <1>6, <2>1, <2>2 DEF TabRecords
  <2>4. QED
    BY <1>6, <2>2, <2>3 DEF TabRecords
<1>9. r.answer = NoAnswer
  BY <1>2, <1>3, <1>8 DEF TabOK, Doing
<1>10. TabOK(x)'
  BY <1>1, <1>3, <1>5, <1>7, <1>8, <1>9, QuietTab
<1>11. Jars' /\ Minted' /\ jar' \in [Browsers -> Tokens \cup {NoToken}]
  <2>1. Minted'
    BY <1>3, <1>5, MintedKept
  <2>2. Jars'
    BY <1>2, <1>3, <1>5, JarsKept
  <2>3. QED
    BY <1>2, <1>3, <2>1, <2>2 DEF ViewTypes
<1>12. QED
  BY <1>3, <1>5, <1>7, <1>8, <1>10, <1>11, OneTab

LEMMA PollOK ==
    ASSUME LoopInv, ViewInv, NEW x \in Tabs, Poll(x)
    PROVE  ViewInv'
<1>1. PICK t : t = Credential(x)
  OBVIOUS
<1>2. /\ Doing(x, "idle") /\ tab[x].mine # NoToken
      /\ tab' = [tab EXCEPT ![x].at = "polling", ![x].token = t]
      /\ UNCHANGED <<loopVars, jar, holder, clears>>
  BY <1>1 DEF Poll
<1>3. ViewTypes /\ Jars /\ TabOK(x)
  BY DEF ViewInv
<1>4. Owner[x] \in Browsers
  BY ViewAssumption
<1>5. t \in Tokens /\ t # NoToken /\ HadPlace(t) /\ holder[t] = Owner[x]
  <2>1. CASE jar[Owner[x]] # NoToken
    BY <1>1, <1>3, <1>4, <2>1 DEF Credential, Jars, ViewTypes
  <2>2. CASE jar[Owner[x]] = NoToken
    BY <1>1, <1>2, <1>3, <2>2, TabFields DEF Credential, TabOK, Known
  <2>3. QED
    BY <2>1, <2>2
<1>6. PICK r : r = [tab[x] EXCEPT !.at = "polling", !.token = t]
  OBVIOUS
<1>7. tab' = [tab EXCEPT ![x] = r] /\ tab'[x] = r
  BY <1>2, <1>3, <1>6 DEF ViewTypes
<1>8. /\ r.at = "polling" /\ r.token = t /\ r.mine = tab[x].mine
      /\ r.answer = tab[x].answer /\ r.shown = tab[x].shown
      /\ r \in TabRecords
  BY <1>3, <1>5, <1>6, TabFields DEF TabRecords
<1>9. r.answer = NoAnswer
  BY <1>2, <1>3, <1>8 DEF TabOK, Doing
<1>10. /\ [LoopNext]_loopVars /\ Minting /\ Minted'
       /\ holder' \in [Tokens -> Browsers \cup {NoBrowser}]
  BY <1>2, EventStands
<1>11. TabOK(x)'
  BY <1>2, <1>5, <1>7, <1>8, <1>9, <1>10, QuietTab
<1>12. Jars' /\ jar' \in [Browsers -> Tokens \cup {NoToken}]
  BY <1>2, <1>3, <1>10, JarsKept DEF ViewTypes
<1>13. QED
  BY <1>7, <1>8, <1>10, <1>11, <1>12, OneTab

\* The tab's request or its answer is lost, or is an error.
LEMMA FailsOK ==
    ASSUME LoopInv, ViewInv, NEW x \in Tabs, Fails(x), [LoopNext]_loopVars, Minted',
           UNCHANGED <<jar, holder>>
    PROVE  ViewInv'
<1>1. ViewTypes /\ TabOK(x) /\ Minting /\ holder' \in [Tokens -> Browsers \cup {NoBrowser}]
  BY DEF ViewInv, ViewTypes, Minting
<1>2. PICK r : r = [tab[x] EXCEPT !.at = "idle", !.answer = NoAnswer]
  OBVIOUS
<1>3. tab' = [tab EXCEPT ![x] = r] /\ tab'[x] = r
  BY <1>1, <1>2 DEF Fails, ViewTypes
<1>4. /\ r.at = "idle" /\ r.token = tab[x].token /\ r.mine = tab[x].mine
      /\ r.answer = NoAnswer /\ r.shown = tab[x].shown
      /\ r \in TabRecords
  BY <1>1, <1>2, TabFields, NoAnswerIs DEF TabRecords
<1>5. r.token # NoToken => holder'[r.token] = Owner[x]
  BY <1>1, <1>4 DEF TabOK
<1>6. TabOK(x)'
  BY <1>1, <1>3, <1>4, <1>5, QuietTab
<1>7. Jars' /\ jar' \in [Browsers -> Tokens \cup {NoToken}]
  BY <1>1, JarsKept DEF ViewTypes
<1>8. QED
  BY <1>1, <1>3, <1>4, <1>6, <1>7, OneTab

\* An answer is on its way to the tab.
LEMMA AnswerOK ==
    ASSUME LoopInv, ViewInv, NEW x \in Tabs, [LoopNext]_loopVars, Minted',
           UNCHANGED <<jar, holder>>,
           NEW a \in Answers, Answer(x, a), OneInstant(a),
           a.state = "waiting" =>
             /\ tab[x].token \in DOMAIN queue'
             /\ a.number = queue'[tab[x].token]
             /\ a.position = queue'[tab[x].token] - admitted',
           a.state = "admitted" =>
             /\ tab[x].token # NoToken /\ HadPlace(tab[x].token)
             /\ a.number <= admitted' /\ a.position = 0
    PROVE  ViewInv'
<1>1. ViewTypes /\ Minting /\ holder' \in [Tokens -> Browsers \cup {NoBrowser}]
  BY DEF ViewInv, ViewTypes, Minting
<1>2. PICK r : r = [tab[x] EXCEPT !.at = "answered", !.answer = a]
  OBVIOUS
<1>3. tab' = [tab EXCEPT ![x] = r] /\ tab'[x] = r
  BY <1>1, <1>2 DEF Answer, ViewTypes
<1>4. /\ r.at = "answered" /\ r.token = tab[x].token /\ r.mine = tab[x].mine
      /\ r.answer = a /\ r.shown = tab[x].shown
      /\ r \in TabRecords
  BY <1>1, <1>2, TabFields DEF TabRecords
<1>5. TabOK(x)'
  BY <1>1, <1>3, <1>4, AnsweredTab
<1>6. Jars' /\ jar' \in [Browsers -> Tokens \cup {NoToken}]
  BY <1>1, JarsKept DEF ViewTypes
<1>7. QED
  BY <1>1, <1>3, <1>4, <1>5, <1>6, OneTab

\* The token of a tab that joins, and what its join does to the queue.
LEMMA JoinerIs ==
    ASSUME ViewInv, NEW x \in Tabs, Doing(x, "joining")
    PROVE  tab[x].token \in Tokens /\ holder[tab[x].token] = Owner[x]
BY TabFields DEF ViewInv, TabOK

LEMMA JoinMinted ==
    ASSUME LoopInv, ViewInv, NEW x \in Tabs, Doing(x, "joining"),
           JoinQueue(tab[x].token), UNCHANGED holder
    PROVE  Minted' /\ [LoopNext]_loopVars /\ tab[x].token \in DOMAIN queue'
<1>1. PICK t \in Tokens : t = tab[x].token /\ holder[t] = Owner[x]
  BY JoinerIs
<1>2. t \in DOMAIN queue' /\ \A u \in DOMAIN queue' : u \in DOMAIN queue \/ u = t
  BY <1>1, JoinMoves
<1>3. Minted'
  BY <1>1, <1>2, ViewAssumption DEF ViewInv, Minted, Fresh
<1>4. QED
  BY <1>1, <1>2, <1>3 DEF LoopNext

LEMMA JoinServedOK ==
    ASSUME LoopInv, ViewInv, NEW x \in Tabs, JoinServed(x)
    PROVE  ViewInv'
<1>1. PICK t \in Tokens :
        /\ Doing(x, "joining") /\ tab[x].token = t
        /\ JoinQueue(t)
        /\ Answer(x, JoinAnswer(t)')
        /\ UNCHANGED <<jar, holder, clears>>
  BY DEF JoinServed
<1>2. Minted' /\ [LoopNext]_loopVars /\ t \in DOMAIN queue'
  BY <1>1, JoinMinted
<1>3. LoopInv'
  BY <1>2, LoopNextKeeps
<1>4. Placed(t)'
  BY <1>2, <1>3, PlaceOfNext
<1>5. PICK a : a = JoinAnswer(t)'
  OBVIOUS
<1>6. a = [state |-> "waiting", number |-> queue'[t], position |-> queue'[t] - admitted',
           total_waiting |-> ZCard', admitted_total |-> admitted']
  BY <1>4, <1>5 DEF JoinAnswer, Waiting, Placed
<1>7. /\ a \in Answers /\ a.state = "waiting" /\ OneInstant(a)
      /\ a.number = queue'[t] /\ a.position = queue'[t] - admitted'
  BY <1>4, <1>6 DEF Placed, Answers, OneInstant
<1>8. Answer(x, a)
  BY <1>1, <1>5
<1>9. QED
  BY <1>1, <1>2, <1>7, <1>8, AnswerOK

LEMMA JoinRefusedOK ==
    ASSUME LoopInv, ViewInv, NEW x \in Tabs, JoinRefused(x)
    PROVE  ViewInv'
<1>1. PICK a : a = [NoAnswer EXCEPT !.state = "unknown_event"]
  OBVIOUS
<1>2. Answer(x, a) /\ UNCHANGED <<loopVars, jar, holder>>
  BY <1>1 DEF JoinRefused
<1>3. a \in Answers /\ a.state = "unknown_event" /\ OneInstant(a)
  BY <1>1, Refusal
<1>4. QED
  BY <1>2, <1>3, EventStands, AnswerOK

LEMMA JoinBrokenOK ==
    ASSUME LoopInv, ViewInv, NEW x \in Tabs, JoinBroken(x)
    PROVE  ViewInv'
<1>1. /\ Doing(x, "joining") /\ UNCHANGED <<jar, holder>>
      /\ JoinQueue(tab[x].token) \/ UNCHANGED loopVars
      /\ JoinAgain(x) \/ Fails(x)
  BY DEF JoinBroken
<1>2. Minted' /\ [LoopNext]_loopVars
  BY <1>1, JoinMinted, EventStands
<1>3. CASE JoinAgain(x) /\ tab[x].tries < MaxRetries
  <2>1. PICK r : r = [tab[x] EXCEPT !.tries = tab[x].tries + 1]
    OBVIOUS
  <2>2. /\ ViewTypes /\ TabOK(x) /\ Minting
        /\ holder' \in [Tokens -> Browsers \cup {NoBrowser}]
    BY <1>1 DEF ViewInv, ViewTypes, Minting
  <2>3. tab' = [tab EXCEPT ![x] = r] /\ tab'[x] = r
    BY <1>1, <1>3, <2>1, <2>2 DEF JoinAgain, ViewTypes
  <2>4. /\ r.at = tab[x].at /\ r.token = tab[x].token /\ r.mine = tab[x].mine
        /\ r.answer = tab[x].answer /\ r.shown = tab[x].shown
        /\ r \in TabRecords
    BY <1>3, <2>1, <2>2, TabFields, LoopAssumption DEF TabRecords
  <2>5. r.at = "joining" /\ r.answer = NoAnswer
    BY <1>1, <2>2, <2>4 DEF TabOK, Doing
  <2>6. r.token # NoToken /\ holder'[r.token] = Owner[x]
    BY <1>1, <2>4, JoinerIs, ViewAssumption
  <2>7. TabOK(x)'
    BY <1>2, <2>2, <2>3, <2>4, <2>5, <2>6, QuietTab
  <2>8. Jars' /\ jar' \in [Browsers -> Tokens \cup {NoToken}]
    BY <1>1, <1>2, <2>2, JarsKept DEF ViewTypes
  <2>9. QED
    BY <1>2, <2>2, <2>3, <2>4, <2>7, <2>8, OneTab
<1>4. CASE Fails(x)
  BY <1>1, <1>2, <1>4, FailsOK
<1>5. QED
  BY <1>1, <1>3, <1>4 DEF JoinAgain

LEMMA PollServedOK ==
    ASSUME LoopInv, ViewInv, NEW x \in Tabs, PollServed(x)
    PROVE  ViewInv'
<1>1. PICK t : t = tab[x].token
  OBVIOUS
<1>2. PICK a : a = PollAnswer(t)
  OBVIOUS
<1>3. Doing(x, "polling") /\ Answer(x, a) /\ UNCHANGED <<loopVars, jar, holder>>
  BY <1>1, <1>2 DEF PollServed
<1>4. t \in Tokens /\ t # NoToken /\ HadPlace(t)
  BY <1>1, <1>3, TabFields DEF ViewInv, TabOK
<1>5. /\ a \in Answers /\ OneInstant(a)
      /\ a.state = "waiting" =>
           t \in DOMAIN queue /\ a.number = queue[t] /\ a.position = queue[t] - admitted
      /\ a.state = "admitted" => a.number <= admitted /\ a.position = 0
  BY <1>2, <1>4, PollAnswerIs
<1>6. UNCHANGED <<queue, admitted>> /\ Minted' /\ [LoopNext]_loopVars
  BY <1>3, EventStands DEF loopVars, queueVars
<1>7. QED
  BY <1>1, <1>3, <1>4, <1>5, <1>6, AnswerOK

LEMMA ShowNothingOK ==
    ASSUME LoopInv, ViewInv, NEW x \in Tabs, ShowNothing(x)
    PROVE  ViewInv'
BY EventStands, FailsOK DEF ShowNothing

LEMMA ShowAnswerOK ==
    ASSUME LoopInv, ViewInv, NEW x \in Tabs, ShowAnswer(x)
    PROVE  ViewInv'
<1>1. PICK s, m : s = Shows(x) /\ m = Remembers(x)
  OBVIOUS
<1>2. PICK r : r = [tab[x] EXCEPT !.at = "idle", !.answer = NoAnswer, !.mine = m, !.shown = s]
  OBVIOUS
<1>3. /\ Doing(x, "answered") /\ tab[x].answer.state \in {"waiting", "admitted"}
      /\ UNCHANGED <<loopVars, holder>>
      /\ jar' = IF tab[x].mine = NoToken THEN [jar EXCEPT ![Owner[x]] = tab[x].token] ELSE jar
  BY DEF ShowAnswer
<1>4. ViewTypes /\ Jars /\ TabOK(x) /\ Told(x)
  BY DEF ViewInv, TabOK
<1>5. tab' = [tab EXCEPT ![x] = r] /\ tab'[x] = r
  BY <1>1, <1>2, <1>4 DEF ShowAnswer, ViewTypes
<1>6. /\ tab[x].token \in Tokens /\ tab[x].token # NoToken /\ HadPlace(tab[x].token)
      /\ holder[tab[x].token] = Owner[x]
      /\ Dated(tab[x].token, tab[x].answer.number, tab[x].answer.position)
  BY <1>3, <1>4, TabFields DEF Told, TabOK
<1>7. /\ m \in Tokens \cup {NoToken} /\ Known(x, m)
  BY <1>1, <1>4, <1>6, TabFields DEF Remembers, TabOK, Known
<1>8. /\ s.token = tab[x].token /\ s.number = tab[x].answer.number
      /\ s.position = tab[x].answer.position /\ s \in Shown
  BY <1>1, <1>4, <1>6, TabFields DEF Shows, Shown, Answers
<1>9. /\ r.at = "idle" /\ r.token = tab[x].token /\ r.mine = m
      /\ r.answer = NoAnswer /\ r.shown = s /\ r \in TabRecords
  BY <1>2, <1>4, <1>7, <1>8, TabFields, NoAnswerIs DEF TabRecords
<1>10. /\ [LoopNext]_loopVars /\ Minting /\ Minted'
       /\ holder' \in [Tokens -> Browsers \cup {NoBrowser}]
       /\ UNCHANGED <<queue, admitted, seq, arrivals, holder>>
  BY <1>3, EventStands DEF loopVars, queueVars, history
<1>11. TabOK(x)'
  <2>1. Told(x)'
    BY <1>5, <1>9, NoAnswerIs DEF Told, OneInstant
  <2>2. Dated(s.token, s.number, s.position)'
    BY <1>6, <1>8, <1>10 DEF Dated
  <2>3. Known(x, m)' /\ holder'[r.token] = Owner[x]
    BY <1>6, <1>7, <1>9, <1>10 DEF Known, HadPlace
  <2>4. QED
    BY <1>5, <1>9, <2>1, <2>2, <2>3 DEF TabOK, Doing
<1>12. jar' \in [Browsers -> Tokens \cup {NoToken}]
  BY <1>3, <1>4, <1>6 DEF ViewTypes
<1>13. Jars'
  <2>1. ASSUME NEW b \in Browsers, NEW t, t = jar'[b], t # NoToken
        PROVE  holder'[t] = b /\ HadPlace(t)'
    <3>1. t = jar[b] \/ (t = tab[x].token /\ b = Owner[x])
      BY <1>3, <1>4, <2>1, ViewAssumption DEF ViewTypes
    <3>2. holder[t] = b /\ HadPlace(t)
      BY <1>4, <1>6, <2>1, <3>1 DEF Jars
    <3>3. QED
      BY <1>10, <3>2 DEF HadPlace
  <2>2. QED
    BY <2>1 DEF Jars
<1>14. QED
  BY <1>5, <1>9, <1>10, <1>11, <1>12, <1>13, OneTab

\* The event goes on, and lets nobody into the queue.
LEMMA BackstageOK ==
    ASSUME LoopInv, ViewInv, [LoopNext]_loopVars,
           \A t \in DOMAIN queue' : t \in DOMAIN queue,
           tab' = tab, holder' = holder, jar' = jar
    PROVE  ViewInv'
<1>1. Minting
  BY DEF Minting
<1>2. Minted' /\ Jars'
  BY <1>1, MintedKept, JarsKept DEF ViewInv
<1>3. \A x \in Tabs : TabOK(x)'
  BY <1>1, TabKept DEF ViewInv
<1>4. QED
  BY <1>2, <1>3 DEF ViewInv, ViewTypes

LEMMA ClearJarOK ==
    ASSUME LoopInv, ViewInv, NEW b \in Browsers, ClearJar(b)
    PROVE  ViewInv'
<1>1. UNCHANGED <<loopVars, tab, holder>> /\ jar' = [jar EXCEPT ![b] = NoToken]
  BY DEF ClearJar
<1>2. ViewTypes /\ Jars
  BY DEF ViewInv
<1>3. [LoopNext]_loopVars /\ Minting /\ Minted'
  BY <1>1, EventStands
<1>4. \A x \in Tabs : TabOK(x)'
  BY <1>1, <1>3, TabKept DEF ViewInv
<1>5. Jars'
  BY <1>1, <1>2 DEF Jars, ViewTypes, HadPlace, loopVars, history
<1>6. QED
  BY <1>1, <1>2, <1>3, <1>4, <1>5 DEF ViewInv, ViewTypes

\* What the waiters' steps do to the event, they do as the loop allows.
LEMMA WaitersOnlyJoin ==
    ASSUME LoopInv, ViewInv, [WaiterNext]_waiterVars
    PROVE  [LoopNext]_loopVars
<1>1. ASSUME NEW x \in Tabs, JoinBroken(x) PROVE [LoopNext]_loopVars
  BY <1>1, JoinerIs DEF JoinBroken, LoopNext
<1>2. ASSUME NEW x \in Tabs, JoinServed(x) PROVE [LoopNext]_loopVars
  BY <1>2 DEF JoinServed, LoopNext
<1>3. ASSUME NEW x \in Tabs, Browse(x) PROVE [LoopNext]_loopVars
  BY <1>1, <1>2, <1>3
     DEF Browse, LoadPage, JoinRefused, Poll, PollServed, ShowAnswer, ShowNothing
<1>4. ASSUME Backstage PROVE [LoopNext]_loopVars
  BY <1>4 DEF Backstage, LoopNext
<1>5. ASSUME NEW b \in Browsers, ClearJar(b) PROVE [LoopNext]_loopVars
  BY <1>5 DEF ClearJar
<1>6. QED
  BY <1>3, <1>4, <1>5 DEF WaiterNext, waiterVars

LEMMA BrowseOK ==
    ASSUME LoopInv, ViewInv, NEW x \in Tabs, Browse(x)
    PROVE  ViewInv'
BY LoadPageOK, JoinServedOK, JoinRefusedOK, JoinBrokenOK, PollOK, PollServedOK,
   ShowAnswerOK, ShowNothingOK DEF Browse

LEMMA WaiterNextKeeps ==
    ASSUME LoopInv, ViewInv, [WaiterNext]_waiterVars
    PROVE  LoopInv' /\ ViewInv'
<1>1. LoopInv'
  BY WaitersOnlyJoin, LoopNextKeeps
<1>2. ASSUME Backstage, UNCHANGED viewVars PROVE ViewInv'
  <2>1. \A t \in DOMAIN queue' : t \in DOMAIN queue
    BY <1>2, QueueShrinks DEF Backstage
  <2>2. [LoopNext]_loopVars
    BY <1>2 DEF Backstage, LoopNext
  <2>3. QED
    BY <1>2, <2>1, <2>2, BackstageOK DEF viewVars
<1>3. CASE UNCHANGED waiterVars
  <2>1. /\ tab' = tab /\ holder' = holder /\ jar' = jar
        /\ \A t \in DOMAIN queue' : t \in DOMAIN queue
    BY <1>3 DEF waiterVars, viewVars, loopVars, queueVars
  <2>2. QED
    BY <1>1, <2>1, WaitersOnlyJoin, BackstageOK
<1>4. QED
  BY <1>1, <1>2, <1>3, BrowseOK, ClearJarOK DEF WaiterNext

LEMMA WaiterInitOK == WaiterInit => LoopInv /\ ViewInv
<1> SUFFICES ASSUME WaiterInit PROVE LoopInv /\ ViewInv
  OBVIOUS
<1>1. LoopInv /\ seq = 0 /\ DOMAIN queue = {}
  BY LoopInitOK DEF WaiterInit, LoopInit, Init
<1>2. PICK r : r = [at |-> "idle", token |-> NoToken, mine |-> NoToken,
                    tries |-> 0, answer |-> NoAnswer,
                    shown |-> [token |-> NoToken, number |-> 0, position |-> 0]]
  OBVIOUS
<1>3. r \in TabRecords
  BY <1>2, NoAnswerIs, LoopAssumption, MaxSeqAssumption DEF TabRecords, Shown, Places
<1>4. tab = [x \in Tabs |-> r]
  BY <1>2 DEF WaiterInit
<1>5. ViewTypes
  BY <1>3, <1>4 DEF WaiterInit, ViewTypes
<1>6. ASSUME NEW x \in Tabs PROVE TabOK(x)
  <2>1. tab[x] = r
    BY <1>4
  <2>2. /\ tab[x].at = "idle" /\ tab[x].token = NoToken /\ tab[x].mine = NoToken
        /\ tab[x].answer = NoAnswer /\ tab[x].shown.token = NoToken
        /\ tab[x].shown.number = 0 /\ tab[x].shown.position = 0
    BY <1>2, <2>1
  <2>3. Told(x)
    BY <2>2, NoAnswerIs DEF Told, OneInstant
  <2>4. Dated(tab[x].shown.token, tab[x].shown.number, tab[x].shown.position)
    BY <1>1, <2>2 DEF Dated
  <2>5. QED
    BY <2>2, <2>3, <2>4 DEF TabOK, Known, Doing
<1>7. Jars /\ Minted
  BY <1>1 DEF WaiterInit, Jars, Minted
<1>8. QED
  BY <1>1, <1>5, <1>6, <1>7 DEF ViewInv

-----------------------------------------------------------------------------
(* The theorems.                                                           *)

\* However the requests of the tabs, their losses and the admissions
\* interleave, what a tab holds is or was true of its token.
THEOREM ViewInvariant == WaiterSpec => [](LoopInv /\ ViewInv)
<1>1. LoopInv /\ ViewInv /\ [WaiterNext]_waiterVars => (LoopInv /\ ViewInv)'
  BY WaiterNextKeeps
<1>2. QED
  BY <1>1, WaiterInitOK, PTL DEF WaiterSpec

\* A browser uses no token but its own, and keeps or polls with none that
\* never had a place.
THEOREM BrowsersUseTheirOwn == WaiterSpec => []ViewTypeOK
<1>1. LoopInv /\ ViewInv => ViewTypeOK
  <2> SUFFICES ASSUME LoopInv, ViewInv PROVE ViewTypeOK
    OBVIOUS
  <2>1. ViewTypes /\ Jars /\ Minted
    BY DEF ViewInv
  <2>2. ASSUME NEW x \in Tabs
        PROVE  /\ tab[x].at \in {"idle", "joining", "polling", "answered"}
               /\ tab[x].tries \in 0 .. MaxRetries
               /\ tab[x].token # NoToken => holder[tab[x].token] = Owner[x]
               /\ Known(x, tab[x].mine)
               /\ tab[x].shown.number \in Places /\ tab[x].shown.position \in Places
    BY <2>1, TabFields DEF ViewInv, TabOK, TabRecords, Shown
  <2>3. QED
    BY <2>1, <2>2 DEF ViewTypeOK, ViewTypes, Jars, Minted, Known
<1>2. QED
  BY <1>1, ViewInvariant, PTL

\* The numbers of every answer fit together, as those of one instant do.
THEOREM AnswersAreOfOneInstant == WaiterSpec => []AnswersOfOneInstant
<1>1. LoopInv /\ ViewInv => AnswersOfOneInstant
  BY DEF ViewInv, TabOK, Told, OneInstant, AnswersOfOneInstant
<1>2. QED
  BY <1>1, ViewInvariant, PTL

\* What a tab shows changes only when an answer reaches it.
LEMMA OnlyAnswersShow ==
    ASSUME ViewInv, [WaiterNext]_waiterVars, NEW x \in Tabs, ~ShowAnswer(x)
    PROVE  tab'[x].shown = tab[x].shown
<1>1. tab \in [Tabs -> TabRecords]
  BY DEF ViewInv, ViewTypes
<1>2. ASSUME NEW y \in Tabs, NEW r, tab' = [tab EXCEPT ![y] = r], r.shown = tab[y].shown
      PROVE  tab'[x].shown = tab[x].shown
  BY <1>1, <1>2
<1>3. ASSUME NEW y \in Tabs, Fails(y) PROVE tab'[x].shown = tab[x].shown
  BY <1>1, <1>3 DEF Fails, TabRecords
<1>4. ASSUME NEW y \in Tabs, NEW a, Answer(y, a) PROVE tab'[x].shown = tab[x].shown
  BY <1>1, <1>4 DEF Answer, TabRecords
<1>5. ASSUME NEW y \in Tabs, Browse(y) PROVE tab'[x].shown = tab[x].shown
  <2>1. CASE \E t \in Tokens : LoadPage(y, t)
    BY <1>1, <2>1 DEF LoadPage, TabRecords
  <2>2. CASE JoinServed(y) \/ JoinRefused(y) \/ PollServed(y)
    BY <1>4, <2>2 DEF JoinServed, JoinRefused, PollServed
  <2>3. CASE JoinBroken(y)
    BY <1>1, <1>3, <2>3 DEF JoinBroken, JoinAgain, TabRecords
  <2>4. CASE Poll(y)
    BY <1>1, <2>4 DEF Poll, TabRecords
  <2>5. CASE ShowAnswer(y)
    BY <1>1, <2>5 DEF ShowAnswer, TabRecords
  <2>6. CASE ShowNothing(y)
    BY <1>3, <2>6 DEF ShowNothing
  <2>7. QED
    BY <1>5, <2>1, <2>2, <2>3, <2>4, <2>5, <2>6 DEF Browse
<1>6. ASSUME UNCHANGED tab PROVE tab'[x].shown = tab[x].shown
  BY <1>6
<1>7. QED
  BY <1>5, <1>6 DEF WaiterNext, viewVars, waiterVars, ClearJar

\* The place a tab shows only improves, however late its answers are and
\* whatever they were overtaken by.
THEOREM PlacesOnlyImprove == WaiterSpec => ShownOnlyImproves
<1> DEFINE Improves ==
      \A x \in Tabs :
          LET old == tab[x].shown
              new == tab'[x].shown
          IN  new.token = old.token =>
                \/ new.position = 0
                \/ new.number > old.number
                \/ new.number = old.number /\ new.position <= old.position
<1>1. LoopInv /\ ViewInv /\ [WaiterNext]_waiterVars => Improves
  <2> SUFFICES ASSUME LoopInv, ViewInv, [WaiterNext]_waiterVars, NEW x \in Tabs,
                      tab'[x].shown.token = tab[x].shown.token
               PROVE  \/ tab'[x].shown.position = 0
                      \/ tab'[x].shown.number > tab[x].shown.number
                      \/ /\ tab'[x].shown.number = tab[x].shown.number
                         /\ tab'[x].shown.position <= tab[x].shown.position
    OBVIOUS
  <2>1. /\ ViewTypes /\ Told(x)
        /\ tab[x].shown.number \in Nat /\ tab[x].shown.position \in Nat
        /\ tab[x].answer.number \in Nat /\ tab[x].answer.position \in Nat
    BY TabFields DEF ViewInv, TabOK
  <2>2. CASE ShowAnswer(x)
    <3>1. tab[x].answer.state \in {"waiting", "admitted"}
      BY <2>2 DEF ShowAnswer
    <3>2. tab'[x].shown = Shows(x)
      BY <2>1, <2>2 DEF ShowAnswer, ViewTypes, TabRecords
    <3>3. /\ tab'[x].shown.token = tab[x].token
          /\ tab'[x].shown.number = tab[x].answer.number
          /\ tab'[x].shown.position = tab[x].answer.position
      BY <3>2 DEF Shows
    <3>4. NoStepBack(tab[x].token, tab[x].answer, tab[x].shown)
      BY <2>1, <3>1 DEF Told
    <3>5. QED
      BY <2>1, <3>1, <3>3, <3>4 DEF NoStepBack
  <2>3. CASE ~ShowAnswer(x)
    BY <2>1, <2>3, OnlyAnswersShow
  <2>4. QED
    BY <2>2, <2>3
<1>2. ShownOnlyImproves <=> [][Improves]_waiterVars
  BY DEF ShownOnlyImproves
<1>3. QED
  BY <1>1, <1>2, ViewInvariant, PTL DEF WaiterSpec

\* The answer a tab receives while it polls is that of the poll.
LEMMA OnlyPollsAnswer ==
    ASSUME ViewInv, [WaiterNext]_waiterVars, NEW x \in Tabs, Doing(x, "polling"),
           ~PollServed(x)
    PROVE  tab'[x].answer = NoAnswer
<1>1. tab \in [Tabs -> TabRecords] /\ tab[x].answer = NoAnswer
  BY DEF ViewInv, ViewTypes, TabOK, Doing
<1>2. ASSUME NEW y \in Tabs, Fails(y) PROVE tab'[x].answer = NoAnswer
  BY <1>1, <1>2 DEF Fails, TabRecords
<1>3. ASSUME NEW y \in Tabs, NEW a, Answer(y, a), ~Doing(y, "polling")
      PROVE  tab'[x].answer = NoAnswer
  BY <1>1, <1>3 DEF Answer, TabRecords, Doing
<1>4. ASSUME NEW y \in Tabs, Browse(y) PROVE tab'[x].answer = NoAnswer
  <2>1. CASE \E t \in Tokens : LoadPage(y, t)
    BY <1>1, <2>1 DEF LoadPage, TabRecords
  <2>2. CASE JoinServed(y) \/ JoinRefused(y)
    BY <1>3, <2>2 DEF JoinServed, JoinRefused, Doing
  <2>3. CASE JoinBroken(y)
    BY <1>1, <1>2, <2>3 DEF JoinBroken, JoinAgain, TabRecords
  <2>4. CASE Poll(y)
    BY <1>1, <2>4 DEF Poll, TabRecords
  <2>5. CASE PollServed(y)
    BY <1>1, <2>5 DEF PollServed, Answer, TabRecords
  <2>6. CASE ShowAnswer(y)
    BY <1>1, <2>6 DEF ShowAnswer, TabRecords
  <2>7. CASE ShowNothing(y)
    BY <1>2, <2>7 DEF ShowNothing
  <2>8. QED
    BY <1>4, <2>1, <2>2, <2>3, <2>4, <2>5, <2>6, <2>7 DEF Browse
<1>5. ASSUME UNCHANGED tab PROVE tab'[x].answer = NoAnswer
  BY <1>1, <1>5
<1>6. QED
  BY <1>4, <1>5 DEF WaiterNext, viewVars, waiterVars, ClearJar

\* A token that is not in the queue was called every time it joined, and what
\* became of each of its passes is known.
LEMMA NotQueuedWasCalled ==
    ASSUME LoopInv, NEW t \in Tokens, ~Queued(t), NEW k \in DOMAIN arrivals, arrivals[k] = t
    PROVE  k <= admitted /\ k \in recorded \cup stranded \cup InFlight
<1>1. /\ Dense /\ Lined /\ seq \in Nat /\ admitted \in Nat /\ DOMAIN arrivals = 1 .. seq
      /\ EveryAdmissionAccountedFor
  BY AccountedFor DEF LoopInv, Types, TypeOK
<1>2. k <= admitted
  <2> SUFFICES ASSUME ~(k <= admitted) PROVE FALSE
    OBVIOUS
  <2>1. k \in admitted + 1 .. seq
    BY <1>1
  <2>2. PICK u \in DOMAIN queue : queue[u] = k
    BY <1>1, <2>1 DEF Dense
  <2>3. QED
    BY <1>1, <2>2 DEF Lined, Queued
<1>3. QED
  BY <1>1, <1>2 DEF EveryAdmissionAccountedFor

\* Nobody in the line, and nobody who never reached it, is told that his
\* token is unknown.
THEOREM UnknownWereCalled == WaiterSpec => UnknownWasCalled
<1> DEFINE Called ==
      \A x \in Tabs :
          tab'[x].answer.state = "unknown_token" /\ Doing(x, "polling") =>
             LET t == tab[x].token
             IN  /\ HadPlace(t)
                 /\ ~Live(t)
                 /\ \A k \in DOMAIN arrivals : arrivals[k] = t =>
                       k <= admitted /\ k \in recorded \cup stranded \cup InFlight
<1>1. LoopInv /\ ViewInv /\ [WaiterNext]_waiterVars => Called
  <2> SUFFICES ASSUME LoopInv, ViewInv, [WaiterNext]_waiterVars, NEW x \in Tabs,
                      tab'[x].answer.state = "unknown_token", Doing(x, "polling")
               PROVE  /\ HadPlace(tab[x].token)
                      /\ ~Live(tab[x].token)
                      /\ \A k \in DOMAIN arrivals : arrivals[k] = tab[x].token =>
                            k <= admitted /\ k \in recorded \cup stranded \cup InFlight
    OBVIOUS
  <2>1. PollServed(x)
    BY OnlyPollsAnswer, NoAnswerIs
  <2>2. tab[x].token \in Tokens /\ HadPlace(tab[x].token)
    BY TabFields DEF ViewInv, TabOK
  <2>3. PollAnswer(tab[x].token).state = "unknown_token"
    BY <2>1 DEF PollServed, Answer, ViewInv, ViewTypes, TabRecords
  <2>4. ~Queued(tab[x].token) /\ ~Live(tab[x].token)
    BY <2>2, <2>3, PollAnswerIs
  <2>5. QED
    BY <2>2, <2>4, NotQueuedWasCalled
<1>2. UnknownWasCalled <=> [][Called]_waiterVars
  BY DEF UnknownWasCalled
<1>3. QED
  BY <1>1, <1>2, ViewInvariant, PTL DEF WaiterSpec

-----------------------------------------------------------------------------
(* From the browsers to the line.                                          *)

\* What browsers and their failures do to the event is what the loop allows.
THEOREM WaitersImplementLoop == WaiterSpec => LoopSpec
<1>1. WaiterInit => LoopInit
  BY DEF WaiterInit
<1>2. LoopInv /\ ViewInv /\ [WaiterNext]_waiterVars => [LoopNext]_loopVars
  BY WaitersOnlyJoin
<1>3. QED
  BY <1>1, <1>2, ViewInvariant, PTL DEF WaiterSpec, LoopSpec

\* Browsers with several tabs, lost answers, repeated joins and cleared jars
\* stand in a fair line.
THEOREM BrowsersStandInLine == WaiterSpec => IsFairLine
BY WaitersImplementLoop, LoopIsFairLine, PTL

=============================================================================
