----------------------------- MODULE WaiterView -----------------------------
(***************************************************************************)
(* What waiters see: the views POST /join and GET /position of the queue   *)
(* service, with browsers that keep the queue token in a cookie, several   *)
(* tabs to a browser, and requests and answers that may be lost on the way *)
(* between a tab, the view and Redis while admissions go on.               *)
(*                                                                         *)
(*   jar      the cookie qf_{event} of each browser                        *)
(*   tab      what each tab is doing, the token of its request, the answer *)
(*            on its way to it, and what it shows                          *)
(*   holder   history: the browser each minted token was minted for        *)
(*   clears   history: how often a jar was emptied                         *)
(***************************************************************************)
EXTENDS AdmissionLoop

CONSTANTS Browsers, Tabs,
          Owner,       \* the browser a tab belongs to
          NoToken,     \* no cookie, no token
          NoBrowser,   \* a token nobody minted yet
          MaxClears    \* bound on exploration: how often a jar is emptied

ASSUME ViewAssumption ==
    /\ Owner \in [Tabs -> Browsers]
    /\ NoToken \notin Tokens
    /\ NoBrowser \notin Browsers
    /\ MaxClears \in Nat

VARIABLES jar, tab, holder, clears

viewVars == <<jar, tab, holder, clears>>

waiterVars == <<loopVars, viewVars>>

Fresh(t) == holder[t] = NoBrowser

Doing(x, what) == tab[x].at = what

-----------------------------------------------------------------------------
(* The answers.  `number' is the arrival number of the stay they are about: *)
(* POST /join sends it as "sequence", GET /position does not send it.  The  *)
(* estimate of the waiting time is left out.                               *)

NoAnswer == [state |-> "none", number |-> 0, position |-> 0, total_waiting |-> 0,
             admitted_total |-> 0]

Waiting(t, place) ==
    [state |-> "waiting", number |-> queue[t], position |-> place,
     total_waiting |-> ZCard, admitted_total |-> admitted]

\* position.lua and state_from_admission: out of the queue, a pass to collect.
Admitted(t) ==
    [NoAnswer EXCEPT !.state = "admitted", !.number = passes[t].number,
                     !.total_waiting = ZCard, !.admitted_total = admitted]

\* Fault: the pass key is not looked at.
PollSkipsPass(t) ==
    CASE config = NoConfig -> [NoAnswer EXCEPT !.state = "unknown_event"]
      [] config # NoConfig /\ Queued(t) -> Waiting(t, PlaceFromPoll(t))
      [] OTHER -> [NoAnswer EXCEPT !.state = "unknown_token"]

\* Fault: the place is counted from the wrong end.
PollFromEnd(t) ==
    CASE config = NoConfig -> [NoAnswer EXCEPT !.state = "unknown_event"]
      [] config # NoConfig /\ Queued(t) -> Waiting(t, ZCard - ZRank(t))
      [] config # NoConfig /\ ~Queued(t) /\ Live(t) -> Admitted(t)
      [] OTHER -> [NoAnswer EXCEPT !.state = "unknown_token"]

\* The answer of GET /position: queued comes first, then the pass key.
PollAnswer(t) ==
    CASE config = NoConfig -> [NoAnswer EXCEPT !.state = "unknown_event"]
      [] config # NoConfig /\ Queued(t) -> Waiting(t, PlaceFromPoll(t))
      [] config # NoConfig /\ ~Queued(t) /\ Live(t) -> Admitted(t)
      [] OTHER -> [NoAnswer EXCEPT !.state = "unknown_token"]

\* The answer of POST /join, computed from the queue the script leaves.
JoinAnswer(t) == Waiting(t, PlaceFromJoin(t))

Answer(x, answer) == tab' = [tab EXCEPT ![x].at = "answered", ![x].answer = answer]

\* The tab gets an error (503) or nothing at all, and shows what it showed.
Fails(x) == tab' = [tab EXCEPT ![x].at = "idle", ![x].answer = NoAnswer]

-----------------------------------------------------------------------------
(* POST /join.                                                             *)

\* A tab loads the page, which joins: with the token in the cookie or, if
\* there is none, with the one in its URL or one the view mints for it.
LoadPage(x, t) ==
    LET b == Owner[x]
    IN  /\ Doing(x, "idle")
        /\ IF jar[b] = NoToken THEN Fresh(t) \/ t = tab[x].mine ELSE t = jar[b]
        /\ holder' = [holder EXCEPT ![t] = b]
        /\ tab' = [tab EXCEPT ![x].at = "joining", ![x].token = t,
                              ![x].mine = NoToken, ![x].tries = 0]
        /\ UNCHANGED <<loopVars, jar, clears>>

\* Fault: the answer counts the queue as it was before the join.
JoinServedStale(x) ==
    \E t \in Tokens :
        /\ Doing(x, "joining") /\ tab[x].token = t
        /\ JoinQueue(t)
        /\ Answer(x, [JoinAnswer(t)' EXCEPT !.total_waiting = ZCard])
        /\ UNCHANGED <<jar, holder, clears>>

\* The answer is computed from the state the script leaves.
JoinServed(x) ==
    \E t \in Tokens :
        /\ Doing(x, "joining") /\ tab[x].token = t
        /\ JoinQueue(t)
        /\ Answer(x, JoinAnswer(t)')
        /\ UNCHANGED <<jar, holder, clears>>

\* No such event, or a malformed event id.
JoinRefused(x) ==
    /\ Doing(x, "joining")
    /\ config = NoConfig
    /\ Answer(x, [NoAnswer EXCEPT !.state = "unknown_event"])
    /\ UNCHANGED <<loopVars, jar, holder, clears>>

\* The Redis client repeats the script, or the view answers 503.
JoinAgain(x) ==
    IF tab[x].tries < MaxRetries
    THEN tab' = [tab EXCEPT ![x].tries = @ + 1]
    ELSE Fails(x)

\* Redis ran the script and its reply was lost, or was not reached, or refused
\* to run it, which the client does not repeat.
JoinBroken(x) ==
    /\ Doing(x, "joining")
    /\ \/ JoinQueue(tab[x].token) /\ JoinAgain(x)
       \/ UNCHANGED loopVars /\ (JoinAgain(x) \/ Fails(x))
    /\ UNCHANGED <<jar, holder, clears>>

-----------------------------------------------------------------------------
(* GET /position.                                                          *)

\* _queue_token_from: the cookie wins over the ?t= the page remembers.
Credential(x) == IF jar[Owner[x]] # NoToken THEN jar[Owner[x]] ELSE tab[x].mine

\* A tab waits for an answer, or gives it up, before it asks again: nothing in
\* the services ensures it, and there is no page in the repository that would.
Poll(x) ==
    /\ Doing(x, "idle")
    /\ tab[x].mine # NoToken
    /\ tab' = [tab EXCEPT ![x].at = "polling", ![x].token = Credential(x)]
    /\ UNCHANGED <<loopVars, jar, holder, clears>>

PollServed(x) ==
    /\ Doing(x, "polling")
    /\ Answer(x, PollAnswer(tab[x].token))
    /\ UNCHANGED <<loopVars, jar, holder, clears>>

-----------------------------------------------------------------------------
(* The answer arrives, or does not.                                        *)

Shows(x) == [token |-> tab[x].token, number |-> tab[x].answer.number,
             position |-> tab[x].answer.position]

\* The page keeps the token of the answer to its own join.
Remembers(x) == IF tab[x].mine = NoToken THEN tab[x].token ELSE tab[x].mine

\* A place or a pass is shown; only the answer of /join sets the cookie.
ShowAnswer(x) ==
    /\ Doing(x, "answered")
    /\ tab[x].answer.state \in {"waiting", "admitted"}
    /\ tab' = [tab EXCEPT ![x].at = "idle", ![x].answer = NoAnswer,
                          ![x].mine = Remembers(x), ![x].shown = Shows(x)]
    /\ jar' = IF tab[x].mine = NoToken
              THEN [jar EXCEPT ![Owner[x]] = tab[x].token]
              ELSE jar
    /\ UNCHANGED <<loopVars, holder, clears>>

\* Fault: the cookie is set whatever the outcome of the join.
ErrorSetsCookie(x) ==
    /\ Doing(x, "answered")
    /\ Fails(x)
    /\ jar' = [jar EXCEPT ![Owner[x]] = tab[x].token]
    /\ UNCHANGED <<loopVars, holder, clears>>

\* A 404, or an answer or a GET request that is lost.
ShowNothing(x) ==
    /\ Doing(x, "answered") \/ Doing(x, "polling")
    /\ Fails(x)
    /\ UNCHANGED <<loopVars, jar, holder, clears>>

\* The user clears his cookies, or the cookie's time runs out.
ClearJar(b) ==
    /\ clears < MaxClears
    /\ jar[b] # NoToken
    /\ jar' = [jar EXCEPT ![b] = NoToken]
    /\ clears' = clears + 1
    /\ UNCHANGED <<loopVars, tab, holder>>

-----------------------------------------------------------------------------

WaiterInit ==
    /\ LoopInit
    /\ jar = [b \in Browsers |-> NoToken]
    /\ tab = [x \in Tabs |-> [at |-> "idle", token |-> NoToken, mine |-> NoToken,
                              tries |-> 0, answer |-> NoAnswer,
                              shown |-> [token |-> NoToken, number |-> 0, position |-> 0]]]
    /\ holder = [t \in Tokens |-> NoBrowser]
    /\ clears = 0

Browse(x) ==
    \/ \E t \in Tokens : LoadPage(x, t)
    \/ JoinServed(x)
    \/ JoinRefused(x)
    \/ JoinBroken(x)
    \/ Poll(x)
    \/ PollServed(x)
    \/ ShowAnswer(x)
    \/ ShowNothing(x)

\* Everything but the joins of AdmissionLoop, which only the view makes here.
Backstage ==
    \/ \E p \in Admitters : Work(p) \/ Fail(p)
    \/ Tick
    \/ \E c \in Configs : Reconfigure(c)

WaiterNext ==
    \/ \E x \in Tabs : Browse(x)
    \/ Backstage /\ UNCHANGED viewVars
    \/ \E b \in Browsers : ClearJar(b)

WaiterSpec == WaiterInit /\ [][WaiterNext]_waiterVars

-----------------------------------------------------------------------------
(* Properties.                                                             *)

Places == 0 .. MaxSeq

HadPlace(t) == \E k \in DOMAIN arrivals : arrivals[k] = t

\* Types, and: a browser only uses tokens that were minted for it, and keeps
\* or polls with none that was never given a place.
ViewTypeOK ==
    /\ \A b \in Browsers : jar[b] # NoToken => holder[jar[b]] = b /\ HadPlace(jar[b])
    /\ \A x \in Tabs :
         /\ tab[x].at \in {"idle", "joining", "polling", "answered"}
         /\ tab[x].tries \in 0 .. MaxRetries
         /\ tab[x].token # NoToken => holder[tab[x].token] = Owner[x]
         /\ tab[x].mine # NoToken => holder[tab[x].mine] = Owner[x] /\ HadPlace(tab[x].mine)
         /\ tab[x].shown.number \in Places /\ tab[x].shown.position \in Places
    /\ \A t \in DOMAIN queue : ~Fresh(t)
    /\ holder \in [Tokens -> Browsers \cup {NoBrowser}]

\* The numbers of one answer are of one instant (position.lua:3-11): the
\* place lies in the queue it is counted in, and the counter of admissions
\* and the place make up the waiter's number, for a join as for a poll.
AnswersOfOneInstant ==
    \A x \in Tabs :
        LET a == tab[x].answer
        IN  /\ a.state = "waiting" =>
                 /\ 1 <= a.position /\ a.position <= a.total_waiting
                 /\ a.number = a.admitted_total + a.position
            /\ a.state = "admitted" => a.number \in 1 .. a.admitted_total

\* The place a tab shows for a token only improves (product-spec.md, F2 and
\* F4), whatever mix of joins, reloads and polls it is read from and however
\* late their answers are: it is that of the same stay and no larger, or it
\* is his turn, or he was called, has joined again and has a later number.
ShownOnlyImproves ==
    [][\A x \in Tabs :
          LET old == tab[x].shown
              new == tab'[x].shown
          IN  new.token = old.token =>
                \/ new.position = 0
                \/ new.number > old.number
                \/ new.number = old.number /\ new.position <= old.position]_waiterVars

\* Every stay of the token is over: it was called, and its pass was stored and
\* has expired, or a failure lost the pass.
Gone(t) == ~Live(t) /\ \A k \in DOMAIN arrivals : arrivals[k] = t =>
                          k <= admitted /\ k \in recorded \cup stranded

\* "never queued, or pass expired" (position.lua:42, 60-63,
\* queue_repository.py:111), and "we" do not tell "a person who has just been
\* admitted that they are not in the queue" (decisions.md:426-428), but for a
\* crash (admission.py:63-68): whoever is answered that his token is unknown
\* is past his turn.
UnknownMeansGone ==
    [][\A x \in Tabs :
          tab'[x].answer.state = "unknown_token" /\ Doing(x, "polling") =>
             Gone(tab[x].token)]_waiterVars

\* What is left of it: nobody who stands in the line, or never reached it, or
\* has a pass to collect, is told so.  But somebody is whose pass is still to
\* be stored, for as long as that takes the process that popped him.
UnknownWasCalled ==
    [][\A x \in Tabs :
          tab'[x].answer.state = "unknown_token" /\ Doing(x, "polling") =>
             LET t == tab[x].token
             IN  /\ HadPlace(t)
                 /\ ~Live(t)
                 /\ \A k \in DOMAIN arrivals : arrivals[k] = t =>
                       k <= admitted /\ k \in recorded \cup stranded \cup InFlight]_waiterVars

\* Extra tabs and repeated joins resolve to one place (product-spec.md, F3
\* and rule 19).
OnePlacePerBrowser ==
    \A t, u \in DOMAIN queue : holder[t] = holder[u] => t = u

=============================================================================
