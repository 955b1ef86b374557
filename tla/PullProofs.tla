----------------------------- MODULE PullProofs -----------------------------
(***************************************************************************)
(* CacheAtToken for any number of workers, events, changes, reconnects and *)
(* faults.  A pull writes what it fetched long after it read the token;    *)
(* the invariant therefore speaks of the pulls under way (their token is   *)
(* not newer than their answer) and of the delete route (the event it is   *)
(* about to drop from the cache is gone from the calendar).  The cache     *)
(* lacks what a full pull left beyond its window and nothing changed since.*)
(***************************************************************************)
EXTENDS CalendarPull, WellFoundedInduction, TLAPS

Entry == [event : Events, op : {"add", "edit", "remove"}]
Log == Seq(Entry)

\* Touched and Contents of any log.
TouchedIn(l, n, m) == {l[k].event : k \in (n + 1)..m}
ContentsOf(l, n) ==
    {l[k].event : k \in 1..n} \ {l[k].event : k \in {i \in 1..n : l[i].op = "remove"}}

\* The cache b stands at the token t but for s.
AtToken(l, t, b, s) ==
    t # None => \A e \in Events \ TouchedIn(l, t, Len(l)) : e \in b <=> e \in ContentsOf(l, t) \ s

TokenIn(l) == (0..Len(l)) \cup {None}

Started(l, p) == p.mode \in {"full", "delta"} /\ p.token \in TokenIn(l) /\ (p.mode = "delta" => p.token # None)
Fetched(l, p) == p.got \in 0..Len(l) /\ (p.token # None => p.token <= p.got)

LogInv == log \in Log
IntegInv == /\ horizon \in Nat
            /\ integ \in [state : {"active", "disconnected"}, tokens : BOOLEAN, epoch : Nat,
                          token : TokenIn(log), pulled : Nat]
BusyInv == /\ busy \subseteq TouchedIn(log, 0, Len(log))
           /\ skipped \subseteq TouchedIn(log, 0, Len(log))
PullsInv ==
    /\ pull = [w \in Workers |-> pull[w]]
    /\ \A w \in Workers : /\ pull[w].at \in {"fetch", "write"} => Started(log, pull[w])
                          /\ pull[w].at = "write" => Fetched(log, pull[w])
RouteInv ==
    /\ route.at \in {"google", "local"} => route.event \in TouchedIn(log, 0, Len(log))
    /\ route.at = "local" => route.event \notin ContentsOf(log, Len(log))

\* The inductive invariant.
CacheInv == /\ LogInv /\ IntegInv /\ BusyInv /\ PullsInv /\ RouteInv
            /\ AtToken(log, integ.token, busy, skipped)

-----------------------------------------------------------------------------
(* Logs.                                                                   *)

\* What is in the calendar at one time was touched by any later one.
LEMMA ContentsTouched ==
    ASSUME NEW l \in Log, NEW n \in 0..Len(l), NEW m \in n..Len(l)
    PROVE  ContentsOf(l, n) \subseteq TouchedIn(l, 0, m)
  <1>1. 1..n \subseteq (0 + 1)..m
    OBVIOUS
  <1>2. QED
    BY <1>1 DEF ContentsOf, TouchedIn

\* An event that nothing touched in between is there before exactly if it is
\* there after.
LEMMA UntouchedStays ==
    ASSUME NEW l \in Log, NEW n \in 0..Len(l), NEW m \in n..Len(l),
           NEW e, e \notin TouchedIn(l, n, m)
    PROVE  e \in ContentsOf(l, n) <=> e \in ContentsOf(l, m)
  <1>1. \A k \in 1..m : l[k].event = e => k \in 1..n
    BY DEF TouchedIn
  <1>2. \A k \in 1..n : k \in 1..m
    OBVIOUS
  <1>3. QED
    BY <1>1, <1>2 DEF ContentsOf

\* Touched at some time between three times.
LEMMA TouchedUnion ==
    ASSUME NEW l \in Log, NEW n \in 0..Len(l), NEW m \in n..Len(l), NEW e,
           e \notin TouchedIn(l, n, m), e \notin TouchedIn(l, m, Len(l))
    PROVE  e \notin TouchedIn(l, n, Len(l))
  <1>1. \A k \in (n + 1)..Len(l) : k \in (n + 1)..m \/ k \in (m + 1)..Len(l)
    OBVIOUS
  <1>2. QED
    BY <1>1 DEF TouchedIn

\* The past of a log does not change.
LEMMA AppendKeeps ==
    ASSUME NEW l \in Log, NEW x \in Entry, NEW n \in 0..Len(l)
    PROVE  /\ Append(l, x) \in Log /\ Len(Append(l, x)) = Len(l) + 1
           /\ ContentsOf(Append(l, x), n) = ContentsOf(l, n)
           /\ TouchedIn(l, n, Len(l)) \subseteq TouchedIn(Append(l, x), n, Len(l) + 1)
  <1>1. Append(l, x) \in Log /\ Len(Append(l, x)) = Len(l) + 1
    BY DEF Log
  <1>2. \A k \in 1..Len(l) : Append(l, x)[k] = l[k]
    BY DEF Log
  <1>3. ContentsOf(Append(l, x), n) = ContentsOf(l, n)
    BY <1>2 DEF ContentsOf
  <1>4. \A k \in (n + 1)..Len(l) : k \in 1..Len(l) /\ k \in (n + 1)..(Len(l) + 1)
    BY DEF Log
  <1>5. TouchedIn(l, n, Len(l)) \subseteq TouchedIn(Append(l, x), n, Len(l) + 1)
    BY <1>2, <1>4 DEF TouchedIn
  <1>6. QED
    BY <1>1, <1>3, <1>5

\* Another event is neither added nor removed; a removed one is gone.
LEMMA AppendContents ==
    ASSUME NEW l \in Log, NEW x \in Entry
    PROVE  /\ \A e : e # x.event =>
                (e \in ContentsOf(Append(l, x), Len(l) + 1) <=> e \in ContentsOf(l, Len(l)))
           /\ x.op = "remove" => x.event \notin ContentsOf(Append(l, x), Len(l) + 1)
  <1>1. /\ \A k \in 1..Len(l) : Append(l, x)[k] = l[k] /\ k \in 1..(Len(l) + 1)
        /\ Append(l, x)[Len(l) + 1] = x /\ Len(l) + 1 \in 1..(Len(l) + 1)
        /\ \A k \in 1..(Len(l) + 1) : k \in 1..Len(l) \/ k = Len(l) + 1
    BY DEF Log
  <1>2. QED
    BY <1>1 DEF ContentsOf

-----------------------------------------------------------------------------
(* Steps.                                                                  *)

\* The calendar changes: no event that was there once is added again.
LEMMA LogGrows ==
    ASSUME CacheInv, NEW e \in Events, NEW op \in {"add", "edit", "remove"}, Happens(e, op),
           op = "add" => e \notin Touched(0, Now), op = "edit" => e \in Contents(Now),
           UNCHANGED <<horizon, integ, pull, busy, skipped>>
    PROVE  /\ LogInv' /\ IntegInv' /\ BusyInv' /\ PullsInv'
           /\ AtToken(log, integ.token, busy, skipped)'
           /\ UNCHANGED route => RouteInv'
           /\ op = "remove" => e \notin ContentsOf(log, Len(log))'
           /\ TouchedIn(log, 0, Len(log)) \subseteq TouchedIn(log, 0, Len(log))'
  <1> DEFINE x == [event |-> e, op |-> op]
  <1>1. x \in Entry /\ log' = Append(log, x) /\ log \in Log /\ Len(log) \in Nat
    BY DEF Entry, Happens, CacheInv, LogInv, Log
  <1>2. log' \in Log /\ Len(log') = Len(log) + 1
    BY <1>1, AppendKeeps
  <1>3. \A n \in 0..Len(log) : /\ ContentsOf(log', n) = ContentsOf(log, n)
                               /\ TouchedIn(log, n, Len(log)) \subseteq TouchedIn(log', n, Len(log) + 1)
    BY <1>1, AppendKeeps
  <1>4. TokenIn(log) \subseteq TokenIn(log')
    BY <1>1, <1>2 DEF TokenIn
  <1>5. LogInv'
    BY <1>2 DEF LogInv
  <1>6. IntegInv'
    BY <1>4 DEF IntegInv, CacheInv
  <1>7. TouchedIn(log, 0, Len(log)) \subseteq TouchedIn(log', 0, Len(log'))
    BY <1>1, <1>2, <1>3
  <1>8. BusyInv'
    BY <1>7 DEF BusyInv, CacheInv
  <1>9. PullsInv'
    BY <1>1, <1>2, <1>4 DEF PullsInv, CacheInv, Started, Fetched
  <1>10. AtToken(log', integ.token, busy, skipped)
    <2>1. SUFFICES ASSUME integ.token # None, NEW f \in Events \ TouchedIn(log', integ.token, Len(log'))
                   PROVE  f \in busy <=> f \in ContentsOf(log', integ.token) \ skipped
      BY DEF AtToken
    <2>2. integ.token \in 0..Len(log)
      BY <2>1 DEF CacheInv, IntegInv, TokenIn
    <2>3. f \notin TouchedIn(log, integ.token, Len(log))
      BY <1>2, <1>3, <2>1, <2>2
    <2>4. QED
      BY <1>3, <2>1, <2>2, <2>3 DEF AtToken, CacheInv
  <1>11. op = "remove" => e \notin ContentsOf(log', Len(log'))
    BY <1>1, <1>2, AppendContents
  <1>12. ASSUME UNCHANGED route PROVE RouteInv'
    <2>1. CASE route.at = "local"
      <3>1. route.event \in TouchedIn(log, 0, Len(log)) /\ route.event \notin ContentsOf(log, Len(log))
        BY <2>1 DEF CacheInv, RouteInv
      <3>2. CASE route.event = e
        <4>1. op = "remove"
          BY <3>1, <3>2 DEF Contents, ContentsOf, Touched, TouchedIn, Now
        <4>2. QED
          BY <1>7, <1>11, <1>12, <3>1, <3>2, <4>1 DEF RouteInv
      <3>3. CASE route.event # e
        <4>1. route.event \notin ContentsOf(log', Len(log'))
          BY <1>1, <1>2, <3>1, <3>3, AppendContents
        <4>2. QED
          BY <1>7, <1>12, <3>1, <4>1 DEF RouteInv
      <3>4. QED
        BY <3>2, <3>3
    <2>2. CASE route.at # "local"
      BY <1>7, <1>12, <2>2 DEF RouteInv, CacheInv
    <2>3. QED
      BY <2>1, <2>2
  <1>13. QED
    BY <1>5, <1>6, <1>7, <1>8, <1>9, <1>10, <1>11, <1>12

\* A full pull brings what lies within its window and leaves out the rest; a
\* delta brings every event it touches up to date, and leaves the others, which
\* the cache has as of the old token.
LEMMA MergedStands ==
    ASSUME CacheInv, NEW w \in Workers, pull[w].at = "write", Same(w),
           NEW f \in Events, f \notin TouchedIn(log, pull[w].got, Len(log))
    PROVE  f \in Merged(w) <=> f \in ContentsOf(log, pull[w].got) \ LeftOut(w)
  <1> DEFINE t == pull[w].token
             got == pull[w].got
  <1>1. Started(log, pull[w]) /\ Fetched(log, pull[w]) /\ log \in Log /\ Len(log) \in Nat
    BY DEF CacheInv, PullsInv, LogInv, Log
  <1>2. CASE pull[w].mode = "full"
    BY <1>2 DEF Merged, LeftOut, Contents, ContentsOf
  <1>3. CASE pull[w].mode = "delta"
    <2> DEFINE changed == TouchedIn(log, t, got)
    <2>1. t \in 0..Len(log) /\ got \in t..Len(log) /\ t # None
      BY <1>1, <1>3 DEF Started, Fetched, TokenIn
    <2>2. /\ Merged(w) = (busy \ changed) \cup (changed \cap ContentsOf(log, got))
          /\ LeftOut(w) = skipped \ changed
      BY <1>3 DEF Merged, LeftOut, Contents, ContentsOf, Touched, TouchedIn
    <2>3. CASE f \in changed
      BY <2>2, <2>3
    <2>4. CASE f \notin changed
      <3>1. f \notin TouchedIn(log, t, Len(log))
        BY <1>1, <2>1, <2>4, TouchedUnion
      <3>2. f \in busy <=> f \in ContentsOf(log, t) \ skipped
        BY <2>1, <3>1 DEF CacheInv, AtToken, Same
      <3>3. f \in ContentsOf(log, t) <=> f \in ContentsOf(log, got)
        BY <1>1, <2>1, <2>4, UntouchedStays
      <3>4. QED
        BY <2>2, <2>4, <3>2, <3>3
    <2>5. QED
      BY <2>3, <2>4
  <1>4. QED
    BY <1>1, <1>2, <1>3 DEF Started

\* A pull writes.  Without a new token the cache stands at the old one all the
\* more: it speaks of fewer events.
LEMMA WriteStep ==
    ASSUME CacheInv, NEW w \in Workers, Write(w)
    PROVE  CacheInv'
  <1>1. /\ pull[w].at = "write" /\ Started(log, pull[w]) /\ Fetched(log, pull[w])
        /\ log \in Log /\ Len(log) \in Nat
    BY DEF Write, CacheInv, PullsInv, LogInv, Log
  <1> DEFINE got == pull[w].got
  <1>2. got \in 0..Len(log) /\ got \in TokenIn(log)
    BY <1>1 DEF Fetched, TokenIn
  <1>3. LogInv' /\ RouteInv'
    BY DEF Write, CacheInv, LogInv, RouteInv
  <1>4. PullsInv'
    BY DEF Write, CacheInv, PullsInv, Set
  <1>5. CASE ~Same(w)
    BY <1>3, <1>4, <1>5 DEF Write, CacheInv, IntegInv, BusyInv
  <1>6. CASE Same(w)
    <2>1. PICK t \in {got, integ.token} :
              integ' = [integ EXCEPT !.state = "active", !.token = t, !.pulled = horizon]
      BY <1>6 DEF Write
    <2>2. busy' = Merged(w) /\ skipped' = LeftOut(w) /\ log' = log /\ horizon' = horizon
      BY <1>6 DEF Write
    <2>3. IntegInv' /\ integ'.token = t /\ t \in TokenIn(log)
      BY <1>2, <2>1, <2>2 DEF IntegInv, CacheInv
    <2>4. ContentsOf(log, got) \subseteq TouchedIn(log, 0, Len(log))
      BY <1>1, <1>2, ContentsTouched
    <2>5. /\ Merged(w) \subseteq busy \cup ContentsOf(log, got)
          /\ LeftOut(w) \subseteq skipped \cup ContentsOf(log, got)
      BY DEF Merged, LeftOut, Contents, ContentsOf
    <2>6. BusyInv'
      BY <2>2, <2>4, <2>5 DEF CacheInv, BusyInv
    <2>7. ASSUME t # None, NEW f \in Events, f \notin TouchedIn(log, t, Len(log))
          PROVE  f \in Merged(w) <=> f \in ContentsOf(log, t) \ LeftOut(w)
      <3>1. CASE t = got
        BY <1>1, <1>6, <2>7, <3>1, MergedStands
      <3>2. CASE t = integ.token
        <4>1. t = pull[w].token /\ t \in 0..Len(log) /\ got \in t..Len(log)
          BY <1>1, <1>2, <1>6, <2>3, <2>7, <3>2 DEF Same, Fetched, TokenIn
        <4>2. f \notin TouchedIn(log, got, Len(log)) /\ f \notin TouchedIn(log, t, got)
          BY <1>1, <2>7, <4>1 DEF TouchedIn
        <4>3. f \in ContentsOf(log, t) <=> f \in ContentsOf(log, got)
          BY <1>1, <4>1, <4>2, UntouchedStays
        <4>4. f \in Merged(w) <=> f \in ContentsOf(log, got) \ LeftOut(w)
          BY <1>1, <1>6, <4>2, MergedStands
        <4>5. QED
          BY <4>3, <4>4
      <3>3. QED
        BY <3>1, <3>2
    <2>8. AtToken(log, integ.token, busy, skipped)'
      BY <2>2, <2>3, <2>7 DEF AtToken
    <2>9. QED
      BY <1>3, <1>4, <2>3, <2>6, <2>8 DEF CacheInv
  <1>7. QED
    BY <1>5, <1>6

\* Workers other than one that writes, and the detector.
LEMMA PullStep ==
    ASSUME CacheInv, NEW w \in Workers, Pull(w) \/ Fails(w, Scan) \/ Fails(w, Missed), ~Write(w)
    PROVE  CacheInv'
  <1> USE DEF CacheInv, LogInv, IntegInv, BusyInv, PullsInv, RouteInv, AtToken
  <1>1. ASSUME NEW mode \in {"full", "delta"}, StartPull(w, mode)
        PROVE  CacheInv'
    BY <1>1 DEF StartPull, Set, Started, Modes
  <1>2. CASE Fetch(w)
    <2>1. Len(log) \in 0..Len(log)
      BY DEF Log
    <2>2. \A n \in TokenIn(log) : n # None => n <= Len(log)
      BY DEF TokenIn, Log
    <2>3. QED
      BY <1>2, <2>1, <2>2 DEF Fetch, Set, Started, Fetched, Now
  <1>3. CASE FetchFails(w)
    <2>1. /\ integ' \in {integ, [integ EXCEPT !.token = IF Same(w) THEN None ELSE @], Disconnected}
          /\ UNCHANGED <<log, horizon, busy, skipped, route>> /\ Set(w, NoPull)
      BY <1>3 DEF FetchFails, Refused
    <2>2. /\ integ' \in [state : {"active", "disconnected"}, tokens : BOOLEAN, epoch : Nat,
                         token : TokenIn(log), pulled : Nat]
          /\ integ'.token \in {integ.token, None}
      BY <2>1 DEF Disconnected, TokenIn
    <2>3. QED
      BY <2>1, <2>2 DEF Set, NoPull
  <1>4. CASE ReadSlots(w)
    BY <1>4 DEF ReadSlots, Set
  <1>5. CASE FindOverlap(w)
    BY <1>5 DEF FindOverlap, Set, NoPull
  <1>6. CASE StampConflict(w)
    BY <1>6 DEF StampConflict, Set, NoPull
  <1>7. CASE Fails(w, Scan) \/ Fails(w, Missed)
    BY <1>7 DEF Fails, Set, NoPull
  <1>8. QED
    BY <1>1, <1>2, <1>3, <1>4, <1>5, <1>6, <1>7 DEF Pull

\* The delete route: what it drops from the cache is gone from the calendar,
\* and so, if nothing touched it since, was gone at the token.
LEMMA DeleteStep ==
    ASSUME CacheInv, DeleteRequest \/ DeleteGoesOn
    PROVE  CacheInv'
  <1>1. CASE DeleteRequest
    BY <1>1 DEF DeleteRequest, CacheInv, LogInv, IntegInv, BusyInv, PullsInv, RouteInv
  <1>2. CASE DeleteChecks
    BY <1>2 DEF DeleteChecks, CacheInv, LogInv, IntegInv, BusyInv, PullsInv, RouteInv
  <1>3. CASE DeleteInGoogle
    <2>1. /\ route.event \in TouchedIn(log, 0, Len(log)) /\ route' = [at |-> "local", event |-> route.event]
          /\ UNCHANGED <<horizon, integ, pull, busy, skipped>>
      BY <1>3 DEF DeleteInGoogle, CacheInv, RouteInv
    <2>2. CASE route.event \in Contents(Now)
      <3>1. Happens(route.event, "remove")
        BY <1>3, <2>2 DEF DeleteInGoogle
      <3>2. \A k \in 1..Len(log) : log[k].event \in Events
        <4>1. \A k \in 1..Len(log) : log[k] \in Entry
          BY DEF CacheInv, LogInv, Log
        <4>2. \A x \in Entry : x.event \in Events
          BY DEF Entry
        <4>3. QED
          BY <4>1, <4>2
      <3>3. route.event \in Events
        BY <2>2, <3>2 DEF Contents, Now
      <3>4. /\ LogInv' /\ IntegInv' /\ BusyInv' /\ PullsInv' /\ AtToken(log, integ.token, busy, skipped)'
            /\ route.event \notin ContentsOf(log, Len(log))'
            /\ TouchedIn(log, 0, Len(log)) \subseteq TouchedIn(log, 0, Len(log))'
        BY <2>1, <3>1, <3>3, LogGrows
      <3>5. QED
        BY <2>1, <3>4 DEF CacheInv, RouteInv
    <2>3. CASE route.event \notin Contents(Now)
      <3>1. route.event \notin ContentsOf(log, Len(log)) /\ log' = log
        BY <1>3, <2>3 DEF DeleteInGoogle, Contents, ContentsOf, Now
      <3>2. QED
        BY <2>1, <3>1 DEF CacheInv, LogInv, IntegInv, BusyInv, PullsInv, RouteInv
    <2>4. QED
      BY <2>2, <2>3
  <1>4. CASE DeleteRefused
    <2>1. /\ integ' \in [state : {"active", "disconnected"}, tokens : BOOLEAN, epoch : Nat,
                         token : TokenIn(log), pulled : Nat]
          /\ integ'.token = integ.token
      BY <1>4 DEF DeleteRefused, Refused, Disconnected, CacheInv, IntegInv
    <2>2. QED
      BY <1>4, <2>1 DEF DeleteRefused, CacheInv, LogInv, IntegInv, BusyInv, PullsInv, RouteInv, AtToken
  <1>5. CASE DeleteLocally
    <2>1. /\ route.event \notin ContentsOf(log, Len(log)) /\ log \in Log /\ Len(log) \in Nat
          /\ busy' = busy \ {route.event} /\ UNCHANGED <<log, horizon, integ, pull, skipped>>
          /\ route' = [at |-> "enqueue"]
      BY <1>5 DEF DeleteLocally, CacheInv, RouteInv, LogInv, Log
    <2>2. ASSUME integ.token # None, NEW f \in Events \ TouchedIn(log, integ.token, Len(log))
          PROVE  f \in busy' <=> f \in ContentsOf(log, integ.token) \ skipped
      <3>1. integ.token \in 0..Len(log)
        BY <2>2 DEF CacheInv, IntegInv, TokenIn
      <3>2. f \in ContentsOf(log, integ.token) <=> f \in ContentsOf(log, Len(log))
        BY <2>1, <2>2, <3>1, UntouchedStays
      <3>3. f \in busy <=> f \in ContentsOf(log, integ.token) \ skipped
        BY <2>2 DEF CacheInv, AtToken
      <3>4. QED
        BY <2>1, <3>2, <3>3
    <2>3. QED
      BY <2>1, <2>2 DEF CacheInv, LogInv, IntegInv, BusyInv, PullsInv, RouteInv, AtToken
  <1>6. CASE DeleteEnqueues
    BY <1>6 DEF DeleteEnqueues, CacheInv, LogInv, IntegInv, BusyInv, PullsInv, RouteInv
  <1>7. QED
    BY <1>1, <1>2, <1>3, <1>4, <1>5, <1>6 DEF DeleteGoesOn

\* Every step keeps the invariant.
LEMMA CacheStep ==
    ASSUME CacheInv, [Next]_vars
    PROVE  CacheInv'
  <1>1. ASSUME NEW e \in Events, Change(e)
        PROVE  CacheInv'
    <2>1. PICK op \in {"add", "edit", "remove"} :
              /\ Happens(e, op)
              /\ op = "add" => e \notin Touched(0, Now)
              /\ op = "edit" => e \in Contents(Now)
      BY <1>1 DEF Change
    <2>2. UNCHANGED <<horizon, integ, pull, busy, skipped, route>>
      BY <1>1 DEF Change
    <2>3. QED
      BY <2>1, <2>2, LogGrows DEF CacheInv
  <1>2. CASE Announced
    BY <1>2 DEF Announced, CacheInv, LogInv, IntegInv, BusyInv, PullsInv, RouteInv
  <1>3. CASE disconnectGoogleIntegration
    BY <1>3 DEF disconnectGoogleIntegration, Disconnected, CacheInv, LogInv, IntegInv, BusyInv,
                PullsInv, RouteInv, AtToken
  <1>4. CASE upsertGoogleIntegration
    BY <1>4 DEF upsertGoogleIntegration, CacheInv, LogInv, IntegInv, BusyInv, PullsInv, RouteInv,
                AtToken, TokenIn
  <1>5. CASE DaysPass
    BY <1>5 DEF DaysPass, CacheInv, LogInv, IntegInv, BusyInv, PullsInv, RouteInv
  <1>6. CASE UNCHANGED vars
    BY <1>6 DEF vars, CacheInv, LogInv, IntegInv, BusyInv, PullsInv, RouteInv
  <1>7. QED
    BY <1>1, <1>2, <1>3, <1>4, <1>5, <1>6, WriteStep, PullStep, DeleteStep
    DEF Next, Crash, DetectorFails

\* The invariant of the busy cache, the pulls under way and the delete route.
THEOREM CacheInvariant == Spec => []CacheInv
  <1>1. Init => CacheInv
    <2>1. ASSUME Init PROVE CacheInv
      <3>1. [event : Events, op : {"add"}] \subseteq Entry
        BY DEF Entry
      <3>2. \A S, T : S \subseteq T => Seq(S) \subseteq Seq(T)
        OBVIOUS
      <3>3. log \in Log
        BY <2>1, <3>1, <3>2, PullAssumption DEF Init, Log
      <3>4. QED
        BY <2>1, <3>3 DEF Init, NoPull, CacheInv, LogInv, IntegInv, BusyInv, PullsInv, RouteInv,
                          AtToken, TokenIn
    <2>2. QED
      BY <2>1
  <1>2. CacheInv /\ [Next]_vars => CacheInv'
    BY CacheStep
  <1>3. QED
    BY <1>1, <1>2, PTL DEF Spec

\* For any number of workers, changes, days, reconnects and faults the busy
\* cache stands at its stored sync token, but for the events that a full pull
\* left beyond its window (the guard on token and epoch in runPullForCalendar,
\* the order of the delete route).
THEOREM CacheStandsAtToken == Spec => []CacheAtToken
  <1>1. CacheInv => CacheAtToken
    BY DEF CacheInv, AtToken, CacheAtToken, Touched, TouchedIn, Contents, ContentsOf, Now
  <1>2. QED
    BY <1>1, CacheInvariant, PTL

-----------------------------------------------------------------------------
(* Types.  A retried job counts its attempts, and a conflict the detector  *)
(* is about to write is an event that the calendar has had.                *)

SeenIn(l) == TouchedIn(l, 0, Len(l)) \cup {None}

CountsInv == /\ queue \in 0..(MAX_ATTEMPTS - 1) \cup {Empty}
             /\ horizon \in 0..MaxTurns
             /\ integ.epoch \in 0..MaxTurns /\ integ.pulled \in 0..MaxTurns
             /\ faults \in 0..MaxFaults
             /\ since \in Fine..Missed

ConflictInv == /\ stamp \in SeenIn(log)
               /\ \A w \in Workers : pull[w].at = "stamp" => pull[w].primary \in SeenIn(log)

AttemptInv == \A w \in Workers : pull[w].at = "fetch" => pull[w].attempts \in 1..MAX_ATTEMPTS

PullInv == CacheInv /\ CountsInv /\ ConflictInv /\ AttemptInv

\* A set of numbers has a least one.
LEMMA LeastNat ==
    ASSUME NEW T \in SUBSET Nat, T # {}
    PROVE  \E m \in T : \A k \in T : m <= k
  <1> DEFINE Less == OpToRel(<, Nat)
  <1>1. PICK m \in T : \A k \in T : ~(<<k, m>> \in Less)
    BY NatLessThanWellFounded, WFMin
  <1>2. \A k \in T : <<k, m>> \in Less <=> k < m
    BY DEF OpToRel
  <1> HIDE DEF Less
  <1>3. ASSUME NEW k \in T PROVE m <= k
    <2>1. ~(k < m)
      BY <1>1, <1>2, Zenon
    <2>2. k \in Nat /\ m \in Nat
      OBVIOUS
    <2>3. QED
      BY <2>1, <2>2
  <1>4. QED
    BY <1>3

\* A log entry names an event.
LEMMA TouchedEvents ==
    ASSUME NEW l \in Log
    PROVE  TouchedIn(l, 0, Len(l)) \subseteq Events
  <1>1. \A k \in (0 + 1)..Len(l) : l[k] \in Entry
    BY DEF Log
  <1>2. \A x \in Entry : x.event \in Events
    BY DEF Entry
  <1>3. QED
    BY <1>1, <1>2 DEF TouchedIn

\* The first overlap is one of the busy events.
LEMMA PrimarySeen ==
    ASSUME CacheInv
    PROVE  Primary \in SeenIn(log) /\ (busy # {} => Primary \in busy)
  <1>1. busy \subseteq Events /\ busy \subseteq TouchedIn(log, 0, Len(log))
    BY TouchedEvents DEF CacheInv, LogInv, BusyInv
  <1>2. CASE busy = {}
    BY <1>2 DEF Primary, SeenIn
  <1>3. CASE busy # {}
    <2> DEFINE T == {Order[e] : e \in busy}
    <2>1. T \in SUBSET Nat /\ T # {}
      BY <1>1, <1>3, PullAssumption
    <2>2. PICK m \in T : \A k \in T : m <= k
      BY <2>1, LeastNat
    <2>3. \E e \in busy : \A f \in busy : Order[e] <= Order[f]
      BY <2>2
    <2>4. Primary \in busy
      BY <1>3, <2>3 DEF Primary
    <2>5. QED
      BY <1>1, <2>4 DEF SeenIn
  <1>4. QED
    BY <1>2, <1>3

\* The calendar's past stays.
LEMMA LogOnlyGrows ==
    ASSUME CacheInv, CacheInv', [Next]_vars
    PROVE  /\ Len(log) \in Nat /\ Len(log') \in Nat /\ Len(log) <= Len(log')
           /\ SeenIn(log) \subseteq SeenIn(log')
  <1>1. log \in Log /\ log' \in Log /\ Len(log) \in Nat /\ Len(log') \in Nat
    BY DEF CacheInv, LogInv, Log
  <1>2. CASE log' = log
    BY <1>1, <1>2
  <1>3. ASSUME NEW e \in Events, NEW op \in {"add", "edit", "remove"}, Happens(e, op)
        PROVE  Len(log) <= Len(log') /\ SeenIn(log) \subseteq SeenIn(log')
    <2> DEFINE x == [event |-> e, op |-> op]
    <2>1. x \in Entry /\ log' = Append(log, x)
      BY <1>3 DEF Entry, Happens
    <2>2. Len(log') = Len(log) + 1
      BY <1>1, <2>1, AppendKeeps
    <2>3. TouchedIn(log, 0, Len(log)) \subseteq TouchedIn(log', 0, Len(log) + 1)
      BY <1>1, <2>1, AppendKeeps
    <2>4. QED
      BY <1>1, <2>2, <2>3 DEF SeenIn
  <1>4. ASSUME NEW e \in Events, Change(e)
        PROVE  \E op \in {"add", "edit", "remove"} : Happens(e, op)
    BY <1>4 DEF Change
  <1>5. ASSUME DeleteInGoogle
        PROVE  log' = log \/ \E e \in Events : Happens(e, "remove")
    <2>1. route.event \in Events
      BY <1>1, <1>5, TouchedEvents DEF DeleteInGoogle, CacheInv, RouteInv
    <2>2. QED
      BY <1>5, <2>1 DEF DeleteInGoogle
  <1>6. \/ log' = log
        \/ \E e \in Events : Change(e)
        \/ DeleteInGoogle
    BY DEF Next, vars, DaysPass, Announced, Pull, Crash, DetectorFails, Fails, StartPull, Fetch, FetchFails, Write, ReadSlots,
           FindOverlap, StampConflict, DeleteRequest, DeleteGoesOn, DeleteChecks, DeleteRefused,
           DeleteLocally, DeleteEnqueues, disconnectGoogleIntegration, upsertGoogleIntegration
  <1>7. QED
    BY <1>1, <1>2, <1>3, <1>4, <1>5, <1>6

\* What a step may do to the row of the integration.
LEMMA IntegrationStep ==
    ASSUME CacheInv, [Next]_vars
    PROVE  /\ integ'.epoch = integ.epoch \/ (upsertGoogleIntegration /\ integ'.epoch = integ.epoch + 1)
           /\ integ'.pulled \in {integ.pulled, horizon, 0}
  <1>1. integ \in [state : {"active", "disconnected"}, tokens : BOOLEAN, epoch : Nat,
                   token : TokenIn(log), pulled : Nat]
    BY DEF CacheInv, IntegInv
  <1>2. \/ integ' = integ \/ integ' = Disconnected \/ upsertGoogleIntegration
        \/ \E w \in Workers : FetchFails(w) \/ Write(w)
    BY DEF Next, vars, Change, DaysPass, Announced, Pull, Crash, DetectorFails, Fails, StartPull,
           Fetch, ReadSlots, FindOverlap, StampConflict, DeleteRequest, DeleteGoesOn, DeleteChecks,
           DeleteInGoogle, DeleteRefused, DeleteLocally, DeleteEnqueues,
           disconnectGoogleIntegration, Refused
  <1>3. ASSUME NEW w \in Workers, FetchFails(w)
        PROVE  integ'.epoch = integ.epoch /\ integ'.pulled = integ.pulled
    BY <1>1, <1>3 DEF FetchFails, Refused, Disconnected
  <1>4. ASSUME NEW w \in Workers, Write(w)
        PROVE  integ'.epoch = integ.epoch /\ integ'.pulled \in {integ.pulled, horizon}
    <2>1. \/ integ' = integ
          \/ \E t : integ' = [integ EXCEPT !.state = "active", !.token = t, !.pulled = horizon]
      BY <1>4 DEF Write
    <2>2. QED
      BY <1>1, <2>1
  <1>5. Disconnected.epoch = integ.epoch /\ Disconnected.pulled = integ.pulled
    BY <1>1 DEF Disconnected
  <1>6. QED
    BY <1>2, <1>3, <1>4, <1>5 DEF upsertGoogleIntegration

\* What the counters may do in one step.
LEMMA CountsStep ==
    ASSUME PullInv, [Next]_vars
    PROVE  CountsInv'
  <1>a. /\ MAX_ATTEMPTS \in Nat \ {0} /\ MaxTurns \in Nat /\ MaxFaults \in Nat
        /\ queue \in 0..(MAX_ATTEMPTS - 1) \cup {Empty}
        /\ horizon \in 0..MaxTurns /\ integ.epoch \in 0..MaxTurns /\ integ.pulled \in 0..MaxTurns
        /\ faults \in 0..MaxFaults /\ since \in Fine..Missed
    BY PullAssumption DEF PullInv, CountsInv
  <1>1. faults' = faults \/ (faults' = faults + 1 /\ faults' <= MaxFaults)
    <2>1. ASSUME NEW w \in Workers, Write(w)
          PROVE  faults' = faults \/ (faults' = faults + 1 /\ faults' <= MaxFaults)
      BY <2>1 DEF Write
    <2>2. \/ faults' = faults \/ (faults' = faults + 1 /\ faults < MaxFaults)
          \/ \E w \in Workers : Write(w)
      BY DEF Next, vars, Change, DaysPass, Announced, Pull, Crash, DetectorFails, Fails, StartPull,
             Fetch, FetchFails, ReadSlots, FindOverlap, StampConflict, DeleteRequest, DeleteGoesOn,
             DeleteChecks, DeleteInGoogle, DeleteRefused, DeleteLocally, DeleteEnqueues,
             disconnectGoogleIntegration, upsertGoogleIntegration
    <2>3. QED
      BY <1>a, <2>1, <2>2
  <1>2. since' \in Fine..Missed
    <2>1. ASSUME NEW what \in Fine..Missed, Befalls(what)
          PROVE  since' \in Fine..Missed
      BY <1>a, <2>1 DEF Befalls, Fine, Missed
    <2>2. Fine \in Fine..Missed /\ Scan \in Fine..Missed /\ Overlap \in Fine..Missed /\ Missed \in Fine..Missed
      BY DEF Fine, Scan, Overlap, Missed
    <2>3. since' \in {since, Fine} \/ \E what \in {Fine, Scan, Overlap, Missed} : Befalls(what)
      BY DEF Next, vars, Change, DaysPass, Announced, Pull, Crash, DetectorFails, Fails, StartPull,
             Fetch, FetchFails, Retry, Write, ReadSlots, FindOverlap, StampConflict, DeleteRequest,
             DeleteGoesOn, DeleteChecks, DeleteInGoogle, DeleteRefused, DeleteLocally,
             DeleteEnqueues, enqueuePullJob, disconnectGoogleIntegration, upsertGoogleIntegration
    <2>4. QED
      BY <1>a, <2>1, <2>2, <2>3
  <1>3. queue' \in {queue, 0, Empty} \cup (1..(MAX_ATTEMPTS - 1))
    <2>1. ASSUME NEW w \in Workers, FetchFails(w)
          PROVE  queue' = queue \/ queue' \in 1..(MAX_ATTEMPTS - 1)
      <3>1. pull[w].attempts \in 1..MAX_ATTEMPTS
        BY <2>1 DEF FetchFails, PullInv, AttemptInv
      <3>2. queue' = queue \/ (queue' = pull[w].attempts /\ pull[w].attempts < MAX_ATTEMPTS)
        BY <2>1 DEF FetchFails, Retry
      <3>3. QED
        BY <1>a, <3>1, <3>2
    <2>2. QED
      BY <2>1 DEF Next, vars, Change, DaysPass, Announced, Pull, Crash, DetectorFails, Fails,
           StartPull, Fetch, Write, ReadSlots, FindOverlap, StampConflict, DeleteRequest,
           DeleteGoesOn, DeleteChecks, DeleteInGoogle, DeleteRefused, DeleteLocally,
           DeleteEnqueues, enqueuePullJob, disconnectGoogleIntegration, upsertGoogleIntegration
  <1>4. queue' \in 0..(MAX_ATTEMPTS - 1) \cup {Empty}
    BY <1>a, <1>3 DEF Empty
  <1>5. horizon' = horizon \/ (DaysPass /\ horizon' = horizon + 1)
    BY DEF Next, vars, Change, DaysPass, Announced, Pull, Crash, DetectorFails, Fails, StartPull,
           Fetch, FetchFails, Write, ReadSlots, FindOverlap, StampConflict, DeleteRequest,
           DeleteGoesOn, DeleteChecks, DeleteInGoogle, DeleteRefused, DeleteLocally,
           DeleteEnqueues, disconnectGoogleIntegration, upsertGoogleIntegration
  <1>6. horizon' \in 0..MaxTurns
    BY <1>a, <1>5 DEF DaysPass, MoreTurns
  <1>7. integ'.epoch \in 0..MaxTurns /\ integ'.pulled \in 0..MaxTurns
    BY <1>a, IntegrationStep DEF PullInv, upsertGoogleIntegration, MoreTurns
  <1>8. QED
    BY <1>a, <1>1, <1>2, <1>4, <1>6, <1>7 DEF CountsInv

\* Pulls under way count their attempts and carry conflicts that were seen.
LEMMA DetectStep ==
    ASSUME PullInv, CacheInv', [Next]_vars
    PROVE  ConflictInv' /\ AttemptInv'
  <1>a. /\ SeenIn(log) \subseteq SeenIn(log') /\ Primary \in SeenIn(log) /\ None \in SeenIn(log)
        /\ pull = [w \in Workers |-> pull[w]] /\ stamp \in SeenIn(log)
        /\ \A w \in Workers : /\ pull[w].at = "stamp" => pull[w].primary \in SeenIn(log)
                              /\ pull[w].at = "fetch" => pull[w].attempts \in 1..MAX_ATTEMPTS
    BY LogOnlyGrows, PrimarySeen DEF PullInv, CacheInv, PullsInv, ConflictInv, AttemptInv, SeenIn
  <1>1. stamp' \in SeenIn(log')
    <2>1. \/ stamp' \in {stamp, None}
          \/ \E w \in Workers : pull[w].at = "stamp" /\ stamp' = pull[w].primary
      BY DEF Next, vars, Change, DaysPass, Announced, Pull, Crash, DetectorFails, Fails, StartPull, Fetch, FetchFails, Write, ReadSlots,
             FindOverlap, StampConflict, DeleteRequest, DeleteGoesOn, DeleteChecks, DeleteInGoogle,
             DeleteRefused, DeleteLocally, DeleteEnqueues, Cleared, disconnectGoogleIntegration,
             upsertGoogleIntegration
    <2>2. QED
      BY <1>a, <2>1
  <1>2. ASSUME NEW w \in Workers, NEW rec, Set(w, rec),
               rec.at = "stamp" => rec.primary \in SeenIn(log'),
               rec.at = "fetch" => rec.attempts \in 1..MAX_ATTEMPTS
        PROVE  ConflictInv' /\ AttemptInv'
    BY <1>1, <1>2, <1>a DEF Set, ConflictInv, AttemptInv
  <1>3. CASE pull' = pull
    BY <1>1, <1>3, <1>a DEF ConflictInv, AttemptInv
  <1>4. ASSUME NEW w \in Workers, NEW mode \in {"full", "delta"}, StartPull(w, mode)
        PROVE  ConflictInv' /\ AttemptInv'
    <2>1. CASE pull' = pull
      BY <1>3, <2>1
    <2>2. CASE pull' # pull
      <3> DEFINE rec == [at |-> "fetch", attempts |-> queue + 1, mode |-> mode,
                         token |-> integ.token, epoch |-> integ.epoch]
      <3>1. Set(w, rec) /\ queue # Empty
        BY <1>4, <2>2 DEF StartPull
      <3>2. queue + 1 \in 1..MAX_ATTEMPTS
        BY <3>1, PullAssumption DEF PullInv, CountsInv
      <3>3. rec.at = "fetch" /\ rec.attempts \in 1..MAX_ATTEMPTS
        BY <3>2
      <3> HIDE DEF rec
      <3>4. QED
        BY <1>2, <3>1, <3>3
    <2>3. QED
      BY <2>1, <2>2
  <1>5. ASSUME NEW w \in Workers, FindOverlap(w)
        PROVE  ConflictInv' /\ AttemptInv'
    <2> DEFINE rec == IF pull[w].current = Primary THEN NoPull ELSE [at |-> "stamp", primary |-> Primary]
    <2>1. Set(w, rec)
      BY <1>5 DEF FindOverlap
    <2>2. rec.at \in {"idle", "stamp"} /\ (rec.at = "stamp" => rec.primary = Primary)
      BY DEF NoPull
    <2> HIDE DEF rec
    <2>3. QED
      BY <1>2, <1>a, <2>1, <2>2
  <1>6. ASSUME NEW w \in Workers, Set(w, NoPull)
        PROVE  ConflictInv' /\ AttemptInv'
    BY <1>2, <1>6 DEF NoPull
  <1>7. ASSUME NEW w \in Workers, Fetch(w) \/ Write(w) \/ ReadSlots(w)
        PROVE  ConflictInv' /\ AttemptInv'
    <2>1. \E rec : Set(w, rec) /\ rec.at \in {"write", "slots", "overlap"}
      BY <1>7 DEF Fetch, Write, ReadSlots
    <2>2. QED
      BY <1>2, <2>1
  <1>8. ASSUME NEW w \in Workers, Pull(w) \/ DetectorFails(w) \/ Crash(w)
        PROVE  ConflictInv' /\ AttemptInv'
    BY <1>4, <1>5, <1>6, <1>7, <1>8 DEF Pull, Crash, DetectorFails, Fails, FetchFails, StampConflict
  <1>9. QED
    BY <1>3, <1>8 DEF Next, vars, Change, DaysPass, Announced, DeleteRequest, DeleteGoesOn, DeleteChecks,
       DeleteInGoogle, DeleteRefused, DeleteLocally, DeleteEnqueues,
       disconnectGoogleIntegration, upsertGoogleIntegration

\* A stored sync token is always a position Google has given out, a pending
\* job has attempts left, and the lesson's conflict is an event there was.
THEOREM PullTypeCorrect == Spec => []TypeOK
  <1>1. Init => CountsInv /\ ConflictInv /\ AttemptInv
    <2> SUFFICES ASSUME Init PROVE CountsInv /\ ConflictInv /\ AttemptInv
      OBVIOUS
    <2>1. CountsInv
      BY PullAssumption DEF Init, CountsInv, Fine, Missed
    <2>2. QED
      BY <2>1 DEF Init, ConflictInv, AttemptInv, NoPull, SeenIn
  <1>2. PullInv /\ CacheInv' /\ [Next]_vars => CountsInv' /\ ConflictInv' /\ AttemptInv'
    BY CountsStep, DetectStep
  <1>3. PullInv => TypeOK
    <2> SUFFICES ASSUME PullInv PROVE TypeOK
      OBVIOUS
    <2>1. /\ busy \subseteq Touched(0, Now) /\ skipped \subseteq Touched(0, Now)
          /\ stamp \in Touched(0, Now) \cup {None}
      BY DEF PullInv, CacheInv, BusyInv, ConflictInv, SeenIn, Touched, TouchedIn, Now
    <2>2. integ \in [state : {"active", "disconnected"}, tokens : BOOLEAN, epoch : 0..MaxTurns,
                     token : (0..Now) \cup {None}, pulled : 0..MaxTurns]
      BY DEF PullInv, CacheInv, IntegInv, CountsInv, TokenIn, Now
    <2>3. QED
      BY <2>1, <2>2 DEF TypeOK, PullInv, CacheInv, LogInv, Log, Entry, CountsInv, Now
  <1>4. QED
    BY <1>1, <1>2, <1>3, CacheInvariant, PTL DEF Spec, PullInv
=============================================================================
