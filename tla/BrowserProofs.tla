----------------------------- MODULE BrowserProofs -----------------------------
(***************************************************************************)
(* What the browser shows, for any number of requests, rows and changes:   *)
(* the answers of its panels and lists (Lookups), what is selected and     *)
(* open (Shell), who a tab takes itself to be signed in as                 *)
(* (ClientSession), and what its panels change (Editors).  They share no   *)
(* names, and none extends another.                                        *)
(***************************************************************************)
EXTENDS Lookups, Shell, ClientSession, Editors, SequenceTheorems, WellFoundedInduction, TLAPS

------------------------------------------------------------------------------
(* Lists and what they lose.                                                   *)



\* A set of naturals with 0, and with the successor of each of its elements, is all of them.
LEMMA NatSets ==
    ASSUME NEW T \in SUBSET Nat, 0 \in T, \A n \in T : n + 1 \in T
    PROVE  T = Nat
<1> SUFFICES ASSUME Nat \ T # {} PROVE FALSE
  OBVIOUS
<1>1. PICK x \in Nat \ T : \A y \in Nat \ T : ~ (<<y, x>> \in OpToRel(<, Nat))
  BY WFMin, NatLessThanWellFounded
<1>2. x - 1 \in Nat /\ x - 1 \notin T
  BY SMT
<1>3. <<x - 1, x>> \in OpToRel(<, Nat)
  BY <1>2 DEF OpToRel
<1> QED BY <1>1, <1>2, <1>3

\* A list without one of its elements is a list of the others.
LEMMA WithoutKeeps ==
    ASSUME NEW S, NEW list \in Seq(S), NEW one
    PROVE  Without(list, one) \in Seq(S)
<1> DEFINE Step(g, n) == IF n = 0 THEN <<>>
                          ELSE IF list[n] = one THEN g[n - 1] ELSE Append(g[n - 1], list[n])
           Solves(g, m) == /\ g \in [0..m -> Seq(S)]
                           /\ \A n \in 0..m : g[n] = Step(g, n)
           Solvable(m) == m <= Len(list) => \E g : Solves(g, m)
           kept == CHOOSE g : g = [n \in 0..Len(list) |-> Step(g, n)]
           T == {m \in Nat : Solvable(m)}
<1>0. Len(list) \in Nat /\ \A n \in 1..Len(list) : list[n] \in S
  OBVIOUS
<1>1. Without(list, one) = kept[Len(list)]
  BY DEF Without
<1>2. Solvable(0)
  <2>1. Solves([n \in 0..0 |-> <<>>], 0)
    OBVIOUS
  <2> QED BY <2>1
<1>3. ASSUME NEW m \in Nat, Solvable(m) PROVE Solvable(m + 1)
  <2> SUFFICES ASSUME m + 1 <= Len(list) PROVE \E g : Solves(g, m + 1)
    OBVIOUS
  <2>1. PICK g : Solves(g, m)
    <3>1. m <= Len(list)
      BY <1>0
    <3> QED BY <1>3, <3>1
  <2>2. g \in [0..m -> Seq(S)] /\ \A n \in 0..m : g[n] = Step(g, n)
    BY <2>1
  <2>3. Step(g, m + 1) \in Seq(S)
    <3>1. m + 1 \in 1..Len(list) /\ (m + 1) - 1 = m /\ m + 1 # 0 /\ g[m] \in Seq(S)
      BY <1>0, <2>2
    <3>2. list[m + 1] \in S
      BY <1>0, <3>1
    <3>3. Append(g[m], list[m + 1]) \in Seq(S)
      BY <3>1, <3>2
    <3> QED BY <3>1, <3>3
  <2> DEFINE h == [n \in 0..(m + 1) |-> IF n = m + 1 THEN Step(g, n) ELSE g[n]]
  <2>4. /\ DOMAIN h = 0..(m + 1) /\ h[m + 1] = Step(g, m + 1)
        /\ \A n \in 0..m : h[n] = g[n]
    OBVIOUS
  <2>5. h \in [0..(m + 1) -> Seq(S)]
    <3>1. \A n \in 0..(m + 1) : n = m + 1 \/ n \in 0..m
      OBVIOUS
    <3> HIDE DEF Step
    <3> QED BY <2>2, <2>3, <3>1
  <2> HIDE DEF h
  <2>6. ASSUME NEW n \in 0..(m + 1) PROVE h[n] = Step(h, n)
    <3>1. n = 0 \/ n - 1 \in 0..m
      OBVIOUS
    <3>2. n # 0 => h[n - 1] = g[n - 1]
      BY <2>4, <3>1
    <3>3. h[n] = Step(g, n)
      <4>1. n = m + 1 \/ n \in 0..m
        OBVIOUS
      <4> HIDE DEF Step
      <4> QED BY <2>2, <2>4, <4>1
    <3> QED BY <3>2, <3>3
  <2>7. Solves(h, m + 1)
    <3> HIDE DEF Step
    <3> QED BY <2>5, <2>6
  <2> QED BY <2>7
<1>4. T = Nat
  <2>1. T \in SUBSET Nat /\ 0 \in T /\ \A m \in T : m + 1 \in T
    <3> HIDE DEF Solvable
    <3> QED BY <1>2, <1>3
  <2> HIDE DEF T
  <2> QED BY <2>1, NatSets
<1>5. PICK g : Solves(g, Len(list))
  <2>1. Solvable(Len(list))
    <3> HIDE DEF Solvable
    <3> QED BY <1>0, <1>4
  <2> QED BY <1>0, <2>1
<1>6. g = [n \in 0..Len(list) |-> Step(g, n)]
  <2> HIDE DEF Step
  <2> QED BY <1>5
<1>7. kept = [n \in 0..Len(list) |-> Step(kept, n)]
  BY <1>6, Zenon
<1> HIDE DEF kept
<1> DEFINE Good(m) == m <= Len(list) => kept[m] \in Seq(S)
           U == {m \in Nat : Good(m)}
<1>8. \A n \in 0..Len(list) : kept[n] = Step(kept, n)
  <2> HIDE DEF Step
  <2> QED BY <1>7
<1>9. Good(0)
  <2>1. 0 \in 0..Len(list)
    BY <1>0
  <2>2. kept[0] = Step(kept, 0)
    BY <1>8, <2>1
  <2> QED BY <2>2
<1>10. ASSUME NEW m \in Nat, Good(m) PROVE Good(m + 1)
  <2> SUFFICES ASSUME m + 1 <= Len(list) PROVE kept[m + 1] \in Seq(S)
    OBVIOUS
  <2>1. /\ m + 1 \in 0..Len(list) /\ m + 1 \in 1..Len(list) /\ m + 1 # 0 /\ (m + 1) - 1 = m
        /\ m <= Len(list)
    BY <1>0
  <2>2. kept[m] \in Seq(S) /\ list[m + 1] \in S
    BY <1>0, <1>10, <2>1
  <2>3. kept[m + 1] = Step(kept, m + 1)
    BY <1>8, <2>1
  <2>4. Append(kept[m], list[m + 1]) \in Seq(S)
    BY <2>2
  <2> QED BY <2>1, <2>2, <2>3, <2>4
<1>11. U = Nat
  <2>1. U \in SUBSET Nat /\ 0 \in U /\ \A m \in U : m + 1 \in U
    <3> HIDE DEF Good
    <3> QED BY <1>9, <1>10
  <2> HIDE DEF U
  <2> QED BY <2>1, NatSets
<1> QED
  <2>1. Good(Len(list))
    <3> HIDE DEF Good
    <3> QED BY <1>0, <1>11
  <2> QED BY <1>0, <1>1, <2>1

------------------------------------------------------------------------------
(* The panels and the requests they make.                                      *)

States == {"open", "done", "failed"}
FetchRecord == [key : Keys, state : States, cancelled : BOOLEAN, got : Seq(Nat),
                count : Nat \cup {-1}, size : Nat \cup {-1},
                begun : SUBSET Nat, shifted : BOOLEAN]

LookupTypes ==
    /\ panel \in Panels
    /\ wanted \in Keys \cup {Nothing} /\ timer \in Keys \cup {Nothing}
    /\ fetches \in Seq(FetchRecord)
    /\ shown.of \in 0 .. Len(fetches)
    /\ rows \in [Keys -> Seq(Nat)]
    /\ changes \in Nat /\ upset \in BOOLEAN

\* How the panels tell the answers they want.
LEMMA PanelFacts ==
    ASSUME NEW p \in Panels
    PROVE  /\ p.guard \in {"none", "asked", "newest", "effect"}
           /\ p.guard = "asked" => p.debounced = TRUE /\ p.leave = {"answer", "timer"}
           /\ p.debounced \in BOOLEAN
<1>1. ASSUME NEW guard \in {"newest", "asked", "none"}, NEW leave,
             guard = "asked" => leave = {"answer", "timer"},
             p = Searches(guard, leave)
      PROVE  /\ p.guard = guard /\ p.leave = leave /\ p.debounced = TRUE
  BY <1>1 DEF Searches, Panel
<1>2. ASSUME NEW failure, NEW leave, p = Views(failure, leave)
      PROVE  p.guard = "none" /\ p.debounced = FALSE
  BY <1>2 DEF Views, Panel
<1>3. ASSUME NEW guard \in {"none", "effect"}, NEW failure, NEW pages, NEW order,
             p = Lists(guard, failure, pages, order)
      PROVE  p.guard = guard /\ p.debounced = FALSE
  BY <1>3 DEF Lists, Panel
<1>4. CASE p \in {PeoplePicker, PeoplePickerOfOne, Suggestions, ThreadSuggestions, SearchBar, EntityPicker}
  BY <1>1, <1>4 DEF PeoplePicker, PeoplePickerOfOne, Suggestions, ThreadSuggestions, SearchBar,
     EntityPicker
<1>5. CASE p = EntityDetails
  BY <1>5 DEF EntityDetails, Panel
<1>6. CASE p \in {WorkspaceMembers, OrgMembers, ChannelMembers, AdminChannelMembers, Accounts,
     AllWorkspaces, UserOrgs, TrendingEntities, WorkspaceTasks, Activity, DormantChannels,
     MembershipGraph, Sentiment, InteractionTrend}
  BY <1>2, <1>6 DEF WorkspaceMembers, OrgMembers, ChannelMembers, AdminChannelMembers, Accounts,
     AllWorkspaces, UserOrgs, TrendingEntities, WorkspaceTasks, Activity, DormantChannels,
     MembershipGraph, Sentiment, InteractionTrend
<1>7. CASE p \in {Channels, AdminChannels, DirectMessages, Discoverable, Links, OrgLinks, Offers}
  BY <1>3, <1>7 DEF Channels, AdminChannels, DirectMessages, Discoverable, Links, OrgLinks,
     Offers
<1>8. CASE p = ScopeChannels
  BY <1>8 DEF ScopeChannels, Panel
<1> QED BY <1>4, <1>5, <1>6, <1>7, <1>8 DEF Panels

\* A new request.
LEMMA RequestType ==
    ASSUME NEW key \in Keys, rows \in [Keys -> Seq(Nat)]
    PROVE  Request(key) \in FetchRecord
BY DEF Request, FetchRecord, States, ToSet

\* What Asked does to the requests.
LEMMA AskedDoes ==
    ASSUME LookupTypes, NEW key \in Keys, Asked(key)
    PROVE  /\ fetches' \in Seq(FetchRecord) /\ Len(fetches') = Len(fetches) + 1
           /\ fetches'[Len(fetches) + 1] = Request(key)
           /\ \A f \in Fetches : fetches'[f] = [fetches[f] EXCEPT !.cancelled = TRUE]
<1> DEFINE old == [f \in Fetches |-> [fetches[f] EXCEPT !.cancelled = TRUE]]
<1>1. fetches \in Seq(FetchRecord) /\ Fetches = 1 .. Len(fetches) /\ Len(fetches) \in Nat
  BY DEF LookupTypes, Fetches
<1>2. ASSUME NEW f \in Fetches PROVE [fetches[f] EXCEPT !.cancelled = TRUE] \in FetchRecord
  <2>1. fetches[f] \in FetchRecord
    BY <1>1
  <2> QED BY <2>1 DEF FetchRecord
<1>3. old \in [1 .. Len(fetches) -> FetchRecord]
  BY <1>1, <1>2
<1>4. old \in Seq(FetchRecord) /\ Len(old) = Len(fetches)
  BY <1>1, <1>3, SeqDef
<1>5. \A f \in Fetches : old[f] = [fetches[f] EXCEPT !.cancelled = TRUE]
  OBVIOUS
<1>6. fetches' = Append(old, Request(key)) /\ Request(key) \in FetchRecord
  BY RequestType DEF Asked, LookupTypes
<1> HIDE DEF old
<1> QED BY <1>1, <1>4, <1>5, <1>6, AppendProperties

\* One request is changed.
LEMMA OneChanged ==
    ASSUME LookupTypes, NEW f \in Fetches, NEW r \in FetchRecord,
           fetches' = [fetches EXCEPT ![f] = r]
    PROVE  /\ fetches' \in Seq(FetchRecord) /\ Len(fetches') = Len(fetches)
           /\ \A g \in Fetches : fetches'[g] = IF g = f THEN r ELSE fetches[g]
BY ExceptSeq DEF LookupTypes, Fetches

\* A row comes that may end a page's request early, between its two statements.
Between(place, new, list, order) ==
    Len(new) > Len(list) /\ (place < Len(new) \/ order = "activity")

\* What a change of a list does to the requests.
LEMMA ShiftedDoes ==
    ASSUME LookupTypes, NEW key \in Keys, NEW list \in Seq(Nat), NEW place \in Nat
    PROVE  LET new == Shifted(key, list, place) IN
           /\ new \in Seq(FetchRecord) /\ Len(new) = Len(fetches)
           /\ \A f \in Fetches :
                 /\ new[f].key = fetches[f].key /\ new[f].state = fetches[f].state
                 /\ new[f].cancelled = fetches[f].cancelled /\ new[f].got = fetches[f].got
                 /\ new[f].count = fetches[f].count /\ new[f].size = fetches[f].size
                 /\ Open(f) /\ fetches[f].key = key =>
                        /\ new[f].begun = fetches[f].begun \cap ToSet(list)
                        /\ ~new[f].shifted =>
                               /\ ~fetches[f].shifted /\ place > Len(fetches[f].got)
                               /\ Between(place, list, rows[key], panel.order) =>
                                      ~(fetches[f].count >= 0 /\ fetches[f].size < 0)
                 /\ ~(Open(f) /\ fetches[f].key = key) => new[f] = fetches[f]
<1> DEFINE new == Shifted(key, list, place)
           Became(f) == [fetches[f] EXCEPT
                !.begun = @ \cap ToSet(list),
                !.shifted = \/ @ \/ place <= Len(fetches[f].got)
                            \/ /\ Between(place, list, rows[key], panel.order)
                               /\ fetches[f].count >= 0 /\ fetches[f].size < 0]
<1>1. fetches \in Seq(FetchRecord) /\ Fetches = 1 .. Len(fetches) /\ Len(fetches) \in Nat
  BY DEF LookupTypes, Fetches
<1>2. ASSUME NEW f \in Fetches PROVE Became(f) \in FetchRecord
  <2>1. fetches[f] \in FetchRecord
    BY <1>1
  <2> QED BY <2>1 DEF FetchRecord
<1>3. new = [f \in Fetches |-> IF Open(f) /\ fetches[f].key = key THEN Became(f) ELSE fetches[f]]
  BY Zenon DEF Shifted, Between
<1>4. ASSUME NEW f \in Fetches
      PROVE  /\ new[f] = IF Open(f) /\ fetches[f].key = key THEN Became(f) ELSE fetches[f]
             /\ new[f] \in FetchRecord
  <2> HIDE DEF Became, new
  <2>1. new[f] = IF Open(f) /\ fetches[f].key = key THEN Became(f) ELSE fetches[f]
    BY <1>3
  <2> QED BY <1>1, <1>2, <2>1
<1>5. new \in Seq(FetchRecord) /\ Len(new) = Len(fetches)
  <2>1. new \in [1 .. Len(fetches) -> FetchRecord]
    <3> HIDE DEF Became
    <3>1. DOMAIN new = 1 .. Len(fetches) /\ new = [f \in 1 .. Len(fetches) |-> new[f]]
      BY <1>1, <1>3
    <3> HIDE DEF new
    <3> QED BY <1>1, <1>4, <3>1
  <2> HIDE DEF new
  <2> QED BY <1>1, <2>1, SeqDef
<1>6. ASSUME NEW f \in Fetches
      PROVE  /\ Became(f).key = fetches[f].key /\ Became(f).state = fetches[f].state
             /\ Became(f).cancelled = fetches[f].cancelled /\ Became(f).got = fetches[f].got
             /\ Became(f).count = fetches[f].count /\ Became(f).size = fetches[f].size
             /\ Became(f).begun = fetches[f].begun \cap ToSet(list)
             /\ ~Became(f).shifted =>
                               /\ ~fetches[f].shifted /\ place > Len(fetches[f].got)
                               /\ Between(place, list, rows[key], panel.order) =>
                                      ~(fetches[f].count >= 0 /\ fetches[f].size < 0)
  <2>1. fetches[f] \in FetchRecord
    BY <1>1
  <2> QED BY <2>1 DEF FetchRecord
<1> HIDE DEF new, Became
<1>7. QED
  BY <1>4, <1>5, <1>6 DEF new

------------------------------------------------------------------------------
(* The lists: InsertAt, RemoveAt and what Rise makes of a list.               *)

LEMMA Inserted ==
    ASSUME NEW s \in Seq(Nat), NEW p \in 1 .. Len(s) + 1, NEW e \in Nat
    PROVE  /\ InsertAt(s, p, e) \in Seq(Nat) /\ Len(InsertAt(s, p, e)) = Len(s) + 1
           /\ \A i \in 1 .. Len(s) + 1 :
                 InsertAt(s, p, e)[i] = IF i < p THEN s[i] ELSE IF i = p THEN e ELSE s[i - 1]
<1> DEFINE a == SubSeq(s, 1, p - 1)
           b == SubSeq(s, p, Len(s))
<1>0. Len(s) \in Nat /\ p \in Int /\ \A i \in 1 .. Len(s) : s[i] \in Nat
  OBVIOUS
<1>1. a \in Seq(Nat) /\ Len(a) = p - 1 /\ \A i \in 1 .. p - 1 : a[i] = s[i]
  BY <1>0, SubSeqProperties
<1>2. /\ b \in Seq(Nat) /\ Len(b) = Len(s) - p + 1
      /\ \A i \in 1 .. Len(s) - p + 1 : b[i] = s[p + i - 1]
  BY <1>0, SubSeqProperties
<1> HIDE DEF a, b
<1>3. InsertAt(s, p, e) = a \o <<e>> \o b
  BY DEF InsertAt, a, b
<1> DEFINE c == a \o <<e>>
<1>4. c \in Seq(Nat) /\ Len(c) = p /\ \A i \in 1 .. p : c[i] = IF i < p THEN s[i] ELSE e
  BY <1>0, <1>1
<1> HIDE DEF c
<1>5. /\ c \o b \in Seq(Nat) /\ Len(c \o b) = Len(s) + 1
      /\ \A i \in 1 .. Len(s) + 1 : (c \o b)[i] = IF i <= p THEN c[i] ELSE b[i - p]
  <2>1. c \in Seq(Nat) /\ b \in Seq(Nat)
    BY <1>2, <1>4
  <2>2. /\ c \o b \in Seq(Nat) /\ Len(c \o b) = Len(c) + Len(b)
        /\ \A i \in 1 .. Len(c) + Len(b) :
              (c \o b)[i] = IF i <= Len(c) THEN c[i] ELSE b[i - Len(c)]
    BY <2>1, ConcatProperties
  <2>3. Len(c) + Len(b) = Len(s) + 1
    BY <1>0, <1>2, <1>4
  <2> QED BY <1>0, <2>2, <2>3, <1>2, <1>4
<1>6. \A i \in 1 .. Len(s) + 1 : i > p => b[i - p] = s[i - 1]
  BY <1>0, <1>2
<1>7. InsertAt(s, p, e) = c \o b
  BY <1>3 DEF c
<1>8. \A i \in 1 .. Len(s) + 1 : i <= p => c[i] = IF i < p THEN s[i] ELSE e
  BY <1>0, <1>4
<1> QED BY <1>0, <1>5, <1>6, <1>7, <1>8

LEMMA Removed ==
    ASSUME NEW S, NEW s \in Seq(S), NEW p \in 1 .. Len(s)
    PROVE  /\ RemoveAt(s, p) \in Seq(S) /\ Len(RemoveAt(s, p)) = Len(s) - 1
           /\ \A i \in 1 .. Len(s) - 1 : RemoveAt(s, p)[i] = IF i < p THEN s[i] ELSE s[i + 1]
<1> DEFINE a == SubSeq(s, 1, p - 1)
           b == SubSeq(s, p + 1, Len(s))
<1>0. Len(s) \in Nat /\ p \in Int /\ \A i \in 1 .. Len(s) : s[i] \in S
  OBVIOUS
<1>1. a \in Seq(S) /\ Len(a) = p - 1 /\ \A i \in 1 .. p - 1 : a[i] = s[i]
  BY <1>0, SubSeqProperties
<1>2. b \in Seq(S) /\ Len(b) = Len(s) - p /\ \A i \in 1 .. Len(s) - p : b[i] = s[p + i]
  BY <1>0, SubSeqProperties
<1> HIDE DEF a, b
<1>3. RemoveAt(s, p) = a \o b
  BY DEF RemoveAt, a, b
<1>4. /\ a \o b \in Seq(S) /\ Len(a \o b) = Len(s) - 1
      /\ \A i \in 1 .. Len(s) - 1 : (a \o b)[i] = IF i <= p - 1 THEN a[i] ELSE b[i - (p - 1)]
  <2>1. a \in Seq(S) /\ b \in Seq(S)
    BY <1>1, <1>2
  <2>2. /\ a \o b \in Seq(S) /\ Len(a \o b) = Len(a) + Len(b)
        /\ \A i \in 1 .. Len(a) + Len(b) :
              (a \o b)[i] = IF i <= Len(a) THEN a[i] ELSE b[i - Len(a)]
    BY <2>1, ConcatProperties
  <2>3. Len(a) + Len(b) = Len(s) - 1
    BY <1>0, <1>1, <1>2
  <2> QED BY <1>0, <2>2, <2>3, <1>1, <1>2
<1>5. \A i \in 1 .. Len(s) - 1 : i >= p => b[i - (p - 1)] = s[i + 1]
  BY <1>0, <1>2
<1> QED BY <1>0, <1>1, <1>3, <1>4, <1>5

LEMMA Risen ==
    ASSUME NEW s \in Seq(Nat), NEW p \in 1 .. Len(s)
    PROVE  LET t == <<s[p]>> \o RemoveAt(s, p) IN
           /\ t \in Seq(Nat) /\ Len(t) = Len(s)
           /\ \A i \in 1 .. Len(s) :
                 t[i] = IF i = 1 THEN s[p] ELSE IF i <= p THEN s[i - 1] ELSE s[i]
<1> DEFINE rest == RemoveAt(s, p)
           first == <<s[p]>>
<1>0. Len(s) \in Nat /\ p \in Int /\ \A i \in 1 .. Len(s) : s[i] \in Nat
  OBVIOUS
<1>1. /\ rest \in Seq(Nat) /\ Len(rest) = Len(s) - 1
      /\ \A i \in 1 .. Len(s) - 1 : rest[i] = IF i < p THEN s[i] ELSE s[i + 1]
  BY Removed, Zenon
<1>2. first \in Seq(Nat) /\ Len(first) = 1 /\ first[1] = s[p]
  OBVIOUS
<1> HIDE DEF rest, first
<1>3. /\ first \o rest \in Seq(Nat) /\ Len(first \o rest) = Len(s)
      /\ \A i \in 1 .. Len(s) : (first \o rest)[i] = IF i <= 1 THEN first[i] ELSE rest[i - 1]
  <2>1. first \in Seq(Nat) /\ rest \in Seq(Nat)
    BY <1>1, <1>2
  <2>2. /\ first \o rest \in Seq(Nat) /\ Len(first \o rest) = Len(first) + Len(rest)
        /\ \A i \in 1 .. Len(first) + Len(rest) :
              (first \o rest)[i] = IF i <= Len(first) THEN first[i] ELSE rest[i - Len(first)]
    BY <2>1, ConcatProperties
  <2>3. Len(first) + Len(rest) = Len(s)
    BY <1>0, <1>1, <1>2
  <2> QED BY <1>0, <2>2, <2>3, <1>1, <1>2
<1>4. \A i \in 1 .. Len(s) : i > 1 => rest[i - 1] = IF i <= p THEN s[i - 1] ELSE s[i]
  BY <1>0, <1>1, SMTT(30)
<1>5. first \o rest = <<s[p]>> \o RemoveAt(s, p)
  BY DEF first, rest
<1> QED BY <1>0, <1>2, <1>3, <1>4, <1>5, SMTT(30)

------------------------------------------------------------------------------
(* What is shown.                                                             *)

Latest == fetches[Len(fetches)]
LatestAnswered == Len(fetches) > 0 /\ Latest.state = "done"

\* Everywhere but for the suggestions the newest answer is shown, or nothing while nothing
\* is wanted or another search is due.
LatestIsShown ==
    panel.guard # "asked" /\ ~upset /\ LatestAnswered =>
        \/ shown = [of |-> Len(fetches), list |-> Latest.got]
        \/ shown = Blank /\ (wanted = Nothing \/ timer # Nothing)

LatestIsKept ==
    panel.guard = "effect" => \A f \in Fetches : fetches[f].cancelled <=> f < Len(fetches)

\* The suggestions: what was asked for last is what is wanted, unless the timer runs.
WantedIsAsked ==
    panel.guard = "asked" =>
        /\ timer # Nothing => timer = wanted
        /\ wanted # Nothing /\ timer = Nothing /\ Len(fetches) > 0 => Latest.key = wanted

WantedIsShown ==
    panel.guard = "asked" /\ ~upset /\ LatestAnswered /\ wanted # Nothing /\ timer = Nothing =>
        shown.of # 0 /\ fetches[shown.of].key = wanted

ShownInv == LookupTypes /\ LatestIsShown /\ LatestIsKept /\ WantedIsAsked /\ WantedIsShown

\* At the start nothing is asked for and nothing is shown.
LEMMA ShownStart == LookupsAssumption /\ Init => ShownInv
<1> SUFFICES ASSUME LookupsAssumption, Init PROVE ShownInv
  OBVIOUS
<1>1. fetches = <<>> /\ Len(fetches) = 0
  BY DEF Init
<1>2. LookupTypes
  <2>1. Initially \in Seq(Nat)
    BY SeqDef DEF Initially, LookupsAssumption
  <2>2. rows \in [Keys -> Seq(Nat)]
    BY <2>1 DEF Init
  <2>3. shown.of = 0 /\ changes \in Nat /\ upset \in BOOLEAN
    BY DEF Init, Blank
  <2>4. <<>> \in Seq(FetchRecord)
    OBVIOUS
  <2> QED BY <1>1, <2>2, <2>3, <2>4 DEF Init, LookupTypes
<1> QED BY <1>1, <1>2 DEF Init, ShownInv, LatestIsShown, LatestIsKept, WantedIsAsked,
           WantedIsShown, LatestAnswered, Fetches

\* The routes, and the changes of their lists.
LEMMA NothingAnswered ==
    ASSUME ShownInv, UNCHANGED <<panel, wanted, timer, shown, upset>>,
           rows' \in [Keys -> Seq(Nat)], changes' \in Nat,
           fetches' \in Seq(FetchRecord), Len(fetches') = Len(fetches),
           \A f \in Fetches : /\ fetches'[f].key = fetches[f].key /\ fetches'[f].state = fetches[f].state
                              /\ fetches'[f].cancelled = fetches[f].cancelled
                              /\ Open(f) \/ fetches'[f].got = fetches[f].got
    PROVE  ShownInv'
<1>1. LookupTypes' /\ Len(fetches) \in Nat /\ Fetches = 1 .. Len(fetches) /\ Fetches' = Fetches
  BY DEF ShownInv, LookupTypes, Fetches
<1>2. Len(fetches) > 0 =>
          /\ Latest'.key = Latest.key /\ Latest'.state = Latest.state
          /\ LatestAnswered => Latest'.got = Latest.got
  BY <1>1 DEF Latest, LatestAnswered, Open
<1>3. LatestAnswered' = LatestAnswered
  BY <1>2 DEF LatestAnswered
<1>4. LatestIsShown'
  BY <1>2, <1>3 DEF ShownInv, LatestIsShown, LatestAnswered, Blank
<1>5. LatestIsKept'
  BY <1>1 DEF ShownInv, LatestIsKept
<1>6. WantedIsAsked'
  BY <1>2 DEF ShownInv, WantedIsAsked
<1>7. WantedIsShown'
  BY <1>1, <1>3 DEF ShownInv, WantedIsShown, LookupTypes
<1> QED BY <1>1, <1>4, <1>5, <1>6, <1>7 DEF ShownInv

\* A request is made.
LEMMA AskedKeeps ==
    ASSUME LookupsAssumption, ShownInv, NEW key \in Keys, Asked(key),
           UNCHANGED <<panel, shown, rows, changes, upset>>,
           wanted' \in Keys \cup {Nothing}, timer' \in Keys \cup {Nothing},
           panel.guard = "asked" => key = wanted' /\ timer' = Nothing
    PROVE  ShownInv'
<1>1. /\ fetches' \in Seq(FetchRecord) /\ Len(fetches') = Len(fetches) + 1
      /\ fetches'[Len(fetches) + 1] = Request(key)
      /\ \A f \in Fetches : fetches'[f] = [fetches[f] EXCEPT !.cancelled = TRUE]
  BY AskedDoes DEF ShownInv
<1>2. Len(fetches) \in Nat /\ Fetches = 1 .. Len(fetches) /\ Fetches' = 1 .. Len(fetches) + 1
  BY <1>1 DEF ShownInv, LookupTypes, Fetches
<1>3. LookupTypes'
  BY <1>1, <1>2 DEF ShownInv, LookupTypes
<1>4. /\ Latest' = Request(key) /\ Latest'.state = "open" /\ Latest'.key = key
      /\ Latest'.cancelled = FALSE
  BY <1>1 DEF Latest, Request
<1>5. ~LatestAnswered'
  BY <1>4 DEF LatestAnswered
<1>6. LatestIsShown' /\ WantedIsShown'
  BY <1>5 DEF LatestIsShown, WantedIsShown
<1>7. WantedIsAsked'
  BY <1>4 DEF WantedIsAsked
<1>8. LatestIsKept'
  <2> SUFFICES ASSUME NEW f \in Fetches' PROVE fetches'[f].cancelled <=> f < Len(fetches')
    BY DEF LatestIsKept
  <2>1. CASE f = Len(fetches) + 1
    BY <1>1, <1>2, <2>1 DEF Request
  <2>2. CASE f \in Fetches
    <3>1. fetches[f] \in FetchRecord
      BY <1>2, <2>2 DEF ShownInv, LookupTypes
    <3>2. fetches'[f].cancelled = TRUE
      BY <1>1, <2>2, <3>1 DEF FetchRecord
    <3> QED BY <1>1, <1>2, <2>2, <3>2
  <2> QED BY <1>2, <2>1, <2>2
<1> QED BY <1>3, <1>6, <1>7, <1>8 DEF ShownInv

LEMMA WantKeeps ==
    ASSUME LookupsAssumption, ShownInv, NEW key \in Keys, Want(key)
    PROVE  ShownInv'
<1>1. panel.guard = "asked" => panel.debounced = TRUE
  BY PanelFacts DEF ShownInv, LookupTypes
<1>2. CASE panel.debounced
  <2>1. /\ wanted' = key /\ timer' = key
        /\ UNCHANGED <<panel, fetches, shown, rows, changes, upset>>
        /\ key # Nothing
    BY <1>2 DEF Want, LookupsAssumption
  <2>2. LookupTypes'
    BY <2>1 DEF ShownInv, LookupTypes
  <2> QED BY <2>1, <2>2 DEF ShownInv, LatestIsShown, LatestIsKept, WantedIsAsked, WantedIsShown,
             LatestAnswered, Latest,
                            Fetches, Blank
<1>3. CASE ~panel.debounced
  BY <1>1, <1>3, AskedKeeps DEF Want, ShownInv, LookupTypes
<1> QED BY <1>2, <1>3

LEMMA SearchKeeps ==
    ASSUME LookupsAssumption, ShownInv, Search
    PROVE  ShownInv'
<1>1. /\ timer \in Keys /\ timer' = Nothing /\ wanted' = wanted /\ Asked(timer)
      /\ UNCHANGED <<panel, shown, rows, changes, upset>>
  BY DEF Search, ShownInv, LookupTypes
<1>2. panel.guard = "asked" => timer = wanted
  BY <1>1 DEF Search, ShownInv, WantedIsAsked
<1> QED BY <1>1, <1>2, AskedKeeps DEF ShownInv, LookupTypes

LEMMA FocusKeeps ==
    ASSUME LookupsAssumption, ShownInv, NEW key \in Keys, Focus(key)
    PROVE  ShownInv'
<1>1. /\ panel.guard = "newest" /\ wanted' = key
      /\ UNCHANGED <<panel, timer, shown, rows, changes, upset>>
  BY DEF Focus
<1>2. CASE shown = Blank
  BY <1>1, <1>2, AskedKeeps DEF Focus, ShownInv, LookupTypes
<1>3. CASE shown # Blank
  <2>1. fetches' = fetches
    BY <1>3 DEF Focus
  <2> QED BY <1>1, <1>3, <2>1 DEF ShownInv, LookupTypes, LatestIsShown, LatestIsKept,
             WantedIsAsked, WantedIsShown,
                                 LatestAnswered, Latest, Fetches, Blank
<1> QED BY <1>2, <1>3

LEMMA LeaveKeeps ==
    ASSUME LookupsAssumption, ShownInv, Leave
    PROVE  ShownInv'
<1>1. /\ wanted' = Nothing /\ UNCHANGED <<panel, fetches, rows, changes, upset>>
      /\ shown' \in {Blank, shown} /\ timer' \in {Nothing, timer}
      /\ "timer" \in panel.leave => timer' = Nothing
  BY DEF Leave
<1>2. panel.guard = "asked" => timer' = Nothing
  BY <1>1, PanelFacts DEF ShownInv, LookupTypes
<1>3. LookupTypes'
  BY <1>1 DEF ShownInv, LookupTypes, Blank
<1>4. LatestIsShown' /\ LatestIsKept'
  BY <1>1 DEF ShownInv, LatestIsShown, LatestIsKept, LatestAnswered, Latest, Fetches, Blank
<1>5. WantedIsAsked' /\ WantedIsShown'
  BY <1>1, <1>2 DEF WantedIsAsked, WantedIsShown
<1> QED BY <1>3, <1>4, <1>5 DEF ShownInv

\* One request is answered, wholly or for a page, or fails.
LEMMA Paginated ==
    ASSUME NEW r \in FetchRecord, NEW s \in States
    PROVE  LET new == [r EXCEPT !.state = s, !.count = -1, !.size = -1] IN
           /\ new \in FetchRecord /\ new.key = r.key /\ new.cancelled = r.cancelled
           /\ new.got = r.got
           /\ new.state = s /\ new.begun = r.begun /\ new.shifted = r.shifted
           /\ new.count = -1 /\ new.size = -1
<1> DEFINE a == [r EXCEPT !.state = s]
           b == [a EXCEPT !.count = -1]
           c == [b EXCEPT !.size = -1]
<1>1. /\ a \in FetchRecord /\ a.key = r.key /\ a.cancelled = r.cancelled /\ a.got = r.got
      /\ a.state = s /\ a.begun = r.begun /\ a.shifted = r.shifted
  BY DEF FetchRecord
<1> HIDE DEF a
<1>2. /\ b \in FetchRecord /\ b.key = r.key /\ b.cancelled = r.cancelled /\ b.got = r.got
      /\ b.state = s /\ b.begun = r.begun /\ b.shifted = r.shifted /\ b.count = -1
  BY <1>1 DEF FetchRecord
<1> HIDE DEF b
<1>3. /\ c \in FetchRecord /\ c.key = r.key /\ c.cancelled = r.cancelled /\ c.got = r.got
      /\ c.state = s /\ c.begun = r.begun /\ c.shifted = r.shifted /\ c.count = -1
      /\ c.size = -1
  BY <1>2 DEF FetchRecord
<1>4. c = [r EXCEPT !.state = s, !.count = -1, !.size = -1]
  BY Zenon DEF a, b
<1> HIDE DEF c
<1> QED BY <1>3, <1>4

LEMMA AnswerKeeps ==
    ASSUME ShownInv, NEW f \in Fetches, Answer(f)
    PROVE  ShownInv'
<1> DEFINE fetch == fetches[f]
           done == ~Paged \/ LastPage(fetch)
           show == (done \/ panel.pages = "shown") /\ Applies(f)
           state == IF done THEN "done" ELSE "open"
           new == [fetch EXCEPT !.state = state, !.count = -1, !.size = -1]
           answer == [of |-> f, list |-> fetch.got]
           N == Len(fetches)
<1>1. /\ fetch.state = "open" /\ UNCHANGED <<panel, wanted, timer, rows, changes>>
      /\ fetches' = [fetches EXCEPT ![f] = new]
      /\ shown' = IF show THEN answer ELSE shown
      /\ upset' = (upset \/ (show /\ Outdone(f) /\ panel.guard = "none"))
  <2>1. fetch.state = "open" /\ UNCHANGED <<panel, wanted, timer, rows, changes>>
    BY DEF Answer, Open, asking
  <2>2. fetches' = [fetches EXCEPT ![f] = new]
    BY DEF Answer
  <2>3. shown' = IF show THEN answer ELSE shown
    BY DEF Answer
  <2>4. upset' = (upset \/ (show /\ Outdone(f) /\ panel.guard = "none"))
    BY DEF Answer
  <2> QED BY <2>1, <2>2, <2>3, <2>4
<1>2. N \in Nat /\ Fetches = 1 .. N /\ fetch \in FetchRecord /\ f \in 1 .. N
  BY DEF ShownInv, LookupTypes, Fetches
<1>3. /\ new \in FetchRecord /\ new.key = fetch.key /\ new.cancelled = fetch.cancelled
      /\ new.got = fetch.got
      /\ new.state = IF done THEN "done" ELSE "open"
  <2>1. state \in States
    BY DEF States
  <2> HIDE DEF fetch, done, state
  <2>2. /\ new \in FetchRecord /\ new.key = fetch.key /\ new.cancelled = fetch.cancelled
        /\ new.got = fetch.got
        /\ new.state = state
    BY <1>2, <2>1, Paginated
  <2> QED BY <2>2 DEF state
<1>4. answer.of = f /\ answer.list = fetch.got /\ answer # Blank
  BY <1>2 DEF Blank
<1>5. Applies(f) <=> CASE panel.guard = "newest" -> f = N
                       [] panel.guard = "asked" -> fetch.key = wanted
                       [] panel.guard = "effect" -> ~fetch.cancelled
                       [] OTHER -> TRUE
  BY DEF Applies
<1> HIDE DEF new, show, done, fetch, answer
<1>6. /\ fetches' \in Seq(FetchRecord) /\ Len(fetches') = N
      /\ \A g \in Fetches : fetches'[g] = IF g = f THEN new ELSE fetches[g]
  BY <1>1, <1>3, OneChanged DEF ShownInv
<1>7. LookupTypes'
  <2>1. upset \in BOOLEAN /\ upset' \in BOOLEAN
    BY <1>1 DEF ShownInv, LookupTypes
  <2> QED BY <1>1, <1>2, <1>4, <1>6, <2>1 DEF ShownInv, LookupTypes
<1>8. /\ N > 0 /\ Latest' = IF f = N THEN new ELSE Latest
      /\ Latest'.key = IF f = N THEN fetch.key ELSE Latest.key
      /\ f = N => Latest = fetch
  BY <1>2, <1>3, <1>6 DEF Latest, fetch
<1>9. ~upset' => ~upset /\ ~(show /\ Outdone(f) /\ panel.guard = "none")
  BY <1>1 DEF ShownInv, LookupTypes
<1>10. f # N /\ LatestAnswered => Outdone(f)
  BY <1>2 DEF Outdone, LatestAnswered, Latest, Fetches
<1>11. LatestIsShown'
  <2> SUFFICES ASSUME panel.guard # "asked", ~upset', LatestAnswered'
               PROVE  \/ shown' = [of |-> N, list |-> Latest'.got]
                      \/ shown' = Blank /\ (wanted = Nothing \/ timer # Nothing)
    BY <1>1, <1>6 DEF LatestIsShown, Blank
  <2>1. panel.guard \in {"none", "newest", "effect"}
    BY PanelFacts DEF ShownInv, LookupTypes
  <2>2. CASE f = N
    <3>1. done
      BY <1>3, <1>8, <2>2 DEF LatestAnswered
    <3>2. Applies(f)
      <4>1. panel.guard = "effect" => ~fetch.cancelled
        BY <1>2, <2>2 DEF ShownInv, LatestIsKept, fetch
      <4> QED BY <1>5, <2>1, <2>2, <4>1
    <3>3. shown' = answer
      BY <1>1, <3>1, <3>2 DEF show
    <3> QED BY <1>3, <1>8, <2>2, <3>3 DEF answer
  <2>3. CASE f # N
    <3>1. LatestAnswered /\ Latest' = Latest
      BY <1>6, <1>8, <2>3 DEF LatestAnswered
    <3>2. ~show
      <4>1. panel.guard = "effect" => fetch.cancelled
        BY <1>2, <2>3 DEF ShownInv, LatestIsKept, fetch
      <4> QED BY <1>5, <1>9, <1>10, <2>1, <2>3, <3>1, <4>1 DEF show
    <3>3. shown' = shown
      BY <1>1, <3>2
    <3> QED BY <1>9, <3>1, <3>3 DEF ShownInv, LatestIsShown
  <2> QED BY <2>2, <2>3
<1>12. LatestIsKept'
  BY <1>1, <1>2, <1>3, <1>6 DEF ShownInv, LatestIsKept, Fetches, fetch
<1>13. WantedIsAsked'
  BY <1>1, <1>6, <1>8 DEF ShownInv, WantedIsAsked
<1>14. WantedIsShown'
  <2> SUFFICES ASSUME panel.guard = "asked", ~upset', LatestAnswered', wanted # Nothing,
                      timer = Nothing
               PROVE  shown'.of # 0 /\ fetches'[shown'.of].key = wanted
    BY <1>1 DEF WantedIsShown
  <2>1. \A g \in Fetches : fetches'[g].key = fetches[g].key
    BY <1>3, <1>6 DEF fetch
  <2>2. CASE show
    <3>1. fetch.key = wanted
      BY <1>5, <2>2 DEF show
    <3> QED BY <1>1, <1>2, <1>4, <2>1, <2>2, <3>1 DEF fetch
  <2>3. CASE ~show
    <3>1. shown' = shown
      BY <1>1, <2>3
    <3>2. f # N
      <4> SUFFICES ASSUME f = N PROVE FALSE
        OBVIOUS
      <4>1. done
        BY <1>3, <1>8 DEF LatestAnswered
      <4>2. fetch.key = wanted
        BY <1>8 DEF ShownInv, WantedIsAsked
      <4> QED BY <1>5, <2>3, <4>1, <4>2 DEF show
    <3>3. LatestAnswered
      BY <1>6, <1>8, <3>2 DEF LatestAnswered
    <3>4. shown.of # 0 /\ fetches[shown.of].key = wanted
      BY <1>9, <3>3 DEF ShownInv, WantedIsShown
    <3>5. shown.of \in Fetches
      BY <1>2, <3>4 DEF ShownInv, LookupTypes
    <3> QED BY <2>1, <3>1, <3>4, <3>5
  <2> QED BY <2>2, <2>3
<1> QED BY <1>7, <1>11, <1>12, <1>13, <1>14 DEF ShownInv

LEMMA FailKeeps ==
    ASSUME ShownInv, NEW f \in Fetches, Fail(f)
    PROVE  ShownInv'
<1> DEFINE fetch == fetches[f]
           clear == panel.failure = "clears" /\ AppliesFailure(f)
           new == [fetch EXCEPT !.state = "failed"]
           N == Len(fetches)
<1>1. /\ UNCHANGED <<panel, wanted, timer, rows, changes>>
      /\ fetches' = [fetches EXCEPT ![f] = new]
      /\ shown' = IF clear THEN Blank ELSE shown
      /\ upset' = (upset \/ (clear /\ Outdone(f) /\ panel.guard \in {"none", "asked"}))
  BY DEF Fail, asking
<1>2. N \in Nat /\ Fetches = 1 .. N /\ fetch \in FetchRecord /\ f \in 1 .. N
  BY DEF ShownInv, LookupTypes, Fetches
<1>3. /\ new \in FetchRecord /\ new.key = fetch.key /\ new.cancelled = fetch.cancelled
      /\ new.state = "failed"
  BY <1>2 DEF FetchRecord, States
<1>4. Blank.of = 0
  BY DEF Blank
<1>5. /\ panel.guard = "newest" /\ AppliesFailure(f) => f = N
      /\ panel.guard = "effect" /\ AppliesFailure(f) => ~fetch.cancelled
  BY DEF AppliesFailure, Applies
<1> HIDE DEF new, clear, fetch
<1>6. /\ fetches' \in Seq(FetchRecord) /\ Len(fetches') = N
      /\ \A g \in Fetches : fetches'[g] = IF g = f THEN new ELSE fetches[g]
  BY <1>1, <1>3, OneChanged DEF ShownInv
<1>7. LookupTypes'
  <2>1. upset \in BOOLEAN /\ upset' \in BOOLEAN
    BY <1>1 DEF ShownInv, LookupTypes
  <2> QED BY <1>1, <1>2, <1>4, <1>6, <2>1 DEF ShownInv, LookupTypes
<1>8. /\ N > 0 /\ Latest' = IF f = N THEN new ELSE Latest
      /\ Latest'.key = Latest.key
  BY <1>2, <1>3, <1>6 DEF Latest, fetch
<1>9. ~upset' => ~upset /\ ~(clear /\ Outdone(f) /\ panel.guard \in {"none", "asked"})
  BY <1>1 DEF ShownInv, LookupTypes
<1>10. LatestAnswered' => f # N /\ LatestAnswered /\ Outdone(f) /\ Latest' = Latest
  BY <1>2, <1>3, <1>6, <1>8 DEF Outdone, LatestAnswered, Latest, Fetches
<1>11. LatestAnswered' /\ ~upset' => shown' = shown
  <2> SUFFICES ASSUME LatestAnswered', ~upset', clear PROVE FALSE
    BY <1>1
  <2>1. panel.guard \in {"newest", "effect"}
    BY <1>9, <1>10, PanelFacts DEF ShownInv, LookupTypes
  <2>2. panel.guard = "effect" => fetch.cancelled
    BY <1>2, <1>10 DEF ShownInv, LatestIsKept, fetch
  <2> QED BY <1>5, <1>10, <2>1, <2>2 DEF clear
<1>12. LatestIsShown'
  <2> SUFFICES ASSUME panel.guard # "asked", ~upset', LatestAnswered'
               PROVE  \/ shown' = [of |-> N, list |-> Latest'.got]
                      \/ shown' = Blank /\ (wanted = Nothing \/ timer # Nothing)
    BY <1>1, <1>6 DEF LatestIsShown, Blank
  <2> QED BY <1>9, <1>10, <1>11 DEF ShownInv, LatestIsShown
<1>13. LatestIsKept'
  BY <1>1, <1>2, <1>3, <1>6 DEF ShownInv, LatestIsKept, Fetches, fetch
<1>14. WantedIsAsked'
  BY <1>1, <1>6, <1>8 DEF ShownInv, WantedIsAsked
<1>15. WantedIsShown'
  <2> SUFFICES ASSUME panel.guard = "asked", ~upset', LatestAnswered', wanted # Nothing,
                      timer = Nothing
               PROVE  shown'.of # 0 /\ fetches'[shown'.of].key = wanted
    BY <1>1 DEF WantedIsShown
  <2>1. shown.of # 0 /\ fetches[shown.of].key = wanted /\ shown' = shown
    BY <1>9, <1>10, <1>11 DEF ShownInv, WantedIsShown
  <2>2. shown.of \in Fetches
    BY <1>2, <2>1 DEF ShownInv, LookupTypes
  <2> QED BY <1>3, <1>6, <2>1, <2>2 DEF fetch
<1> QED BY <1>7, <1>12, <1>13, <1>14, <1>15 DEF ShownInv

\* Where the next page ends.
LEMMA PageEnd ==
    ASSUME LookupsAssumption, NEW n \in Nat, NEW m \in Nat
    PROVE  /\ Min({n + PageSize, m}) \in Nat /\ Min({n + PageSize, m}) <= m
           /\ n < m => Min({n + PageSize, m}) > n
           /\ n = m => Min({n + PageSize, m}) = n
<1> DEFINE Least(a, b) == Min({a, b})
<1>1. PageSize \in Nat /\ PageSize > 0
  BY DEF LookupsAssumption
<1>2. \A a, b \in Nat : Least(a, b) = IF a <= b THEN a ELSE b
  BY DEF Min
<1> HIDE DEF Least
<1>3. Least(n + PageSize, m) = IF n + PageSize <= m THEN n + PageSize ELSE m
  BY <1>1, <1>2
<1>4. /\ Least(n + PageSize, m) \in Nat /\ Least(n + PageSize, m) <= m
      /\ n < m => Least(n + PageSize, m) > n
      /\ n = m => Least(n + PageSize, m) = n
  BY <1>1, <1>3
<1> QED BY <1>4 DEF Least

LEMMA NextPageType ==
    ASSUME LookupsAssumption, NEW got \in Seq(Nat), NEW list \in Seq(Nat)
    PROVE  NextPage(got, list) \in Seq(Nat)
<1> DEFINE n == Len(got)
           m == Len(list)
           k == Min({n + PageSize, m})
<1>1. n \in Nat /\ m \in Nat /\ \A i \in 1 .. m : list[i] \in Nat
  OBVIOUS
<1>2. k \in Nat /\ k <= m
  BY <1>1, PageEnd
<1>3. NextPage(got, list) = SubSeq(list, n + 1, k)
  BY DEF NextPage
<1> HIDE DEF k, n, m
<1>4. \A i \in n + 1 .. k : list[i] \in Nat
  BY <1>1, <1>2
<1>5. SubSeq(list, n + 1, k) \in Seq(Nat)
  BY <1>1, <1>2, <1>4, SubSeqProperties
<1> QED BY <1>3, <1>5

\* A statement that meets rows of the same created_at in another order still meets rows.
LEMMA OrdersType ==
    ASSUME NEW list \in Seq(Nat), NEW order \in Orders(list)
    PROVE  order \in Seq(Nat)
<1>1. Len(list) \in Nat /\ DOMAIN list = 1 .. Len(list) /\ list \in [1 .. Len(list) -> Nat]
  OBVIOUS
<1>2. CASE order = list
  BY <1>2
<1>3. CASE order # list
  <2>1. PICK i \in DOMAIN list :
             i > 1 /\ order = [list EXCEPT ![i] = list[i - 1], ![i - 1] = list[i]]
    BY <1>3 DEF Orders, Together
  <2>2. i \in 1 .. Len(list) /\ i - 1 \in 1 .. Len(list)
    BY <1>1, <2>1
  <2>3. list[i] \in Nat /\ list[i - 1] \in Nat
    BY <1>1, <2>2
  <2>4. order \in [1 .. Len(list) -> Nat]
    BY <1>1, <2>1, <2>2, <2>3
  <2> QED BY <1>1, <2>4, SeqDef
<1> QED BY <1>2, <1>3

LEMMA CountKeeps ==
    ASSUME ShownInv, NEW f \in Fetches, Count(f)
    PROVE  ShownInv'
<1> DEFINE fetch == fetches[f]
           list == rows[fetch.key]
           new == [fetch EXCEPT !.count = Len(list)]
<1>1. /\ UNCHANGED <<panel, wanted, timer, shown, rows, changes, upset>>
      /\ fetches' = [fetches EXCEPT ![f] = new]
  BY DEF Count, asking
<1>2. fetch \in FetchRecord /\ rows \in [Keys -> Seq(Nat)] /\ changes \in Nat
  BY DEF ShownInv, LookupTypes, Fetches
<1>3. fetch.key \in Keys
  BY <1>2 DEF FetchRecord
<1>4. Len(list) \in Nat
  BY <1>2, <1>3
<1> HIDE DEF fetch, list
<1>5. /\ new \in FetchRecord /\ new.key = fetch.key /\ new.state = fetch.state
      /\ new.cancelled = fetch.cancelled /\ new.got = fetch.got
  BY <1>2, <1>4 DEF FetchRecord
<1> HIDE DEF new
<1>6. /\ fetches' \in Seq(FetchRecord) /\ Len(fetches') = Len(fetches)
      /\ \A g \in Fetches : fetches'[g] = IF g = f THEN new ELSE fetches[g]
  BY <1>1, <1>5, OneChanged DEF ShownInv
<1>7. \A g \in Fetches : /\ fetches'[g].key = fetches[g].key /\ fetches'[g].state = fetches[g].state
                         /\ fetches'[g].cancelled = fetches[g].cancelled
                         /\ Open(g) \/ fetches'[g].got = fetches[g].got
  BY <1>5, <1>6 DEF fetch
<1> QED BY <1>1, <1>2, <1>6, <1>7, NothingAnswered

LEMMA ReadKeeps ==
    ASSUME LookupsAssumption, ShownInv, NEW f \in Fetches, Read(f)
    PROVE  ShownInv'
<1> DEFINE fetch == fetches[f]
           list == rows[fetch.key]
<1>a. PICK order \in Orders(list) :
          LET piece == NextPage(fetch.got, order) IN
          fetches' = [fetches EXCEPT
               ![f] = [fetch EXCEPT !.got = @ \o piece, !.size = Len(piece),
                                    !.shifted = @ \/ piece # NextPage(fetch.got, list)]]
  BY DEF Read
<1> DEFINE part == NextPage(fetch.got, order)
           more == fetch.got \o part
           missed == fetch.shifted \/ part # NextPage(fetch.got, list)
           new == [fetch EXCEPT !.got = more, !.size = Len(part), !.shifted = missed]
<1>1. /\ UNCHANGED <<panel, wanted, timer, shown, rows, changes, upset>>
      /\ fetches' = [fetches EXCEPT ![f] = new]
  <2>1. new = [fetch EXCEPT !.got = @ \o part, !.size = Len(part),
                            !.shifted = @ \/ part # NextPage(fetch.got, list)]
    OBVIOUS
  <2> QED BY <1>a, <2>1 DEF Read, asking
<1>2. fetch \in FetchRecord /\ rows \in [Keys -> Seq(Nat)] /\ changes \in Nat
  BY DEF ShownInv, LookupTypes, Fetches
<1>3. fetch.key \in Keys /\ fetch.got \in Seq(Nat)
  BY <1>2 DEF FetchRecord
<1>4. part \in Seq(Nat)
  <2>1. list \in Seq(Nat)
    BY <1>2, <1>3
  <2>2. order \in Seq(Nat)
    BY <2>1, OrdersType
  <2> QED BY <1>3, <2>2, NextPageType
<1>5. more \in Seq(Nat) /\ Len(part) \in Nat /\ missed \in BOOLEAN
  BY <1>2, <1>3, <1>4 DEF FetchRecord
<1>0. Open(f) <=> fetch.state = "open"
  BY DEF Open
<1> HIDE DEF fetch, list, part, more, missed
<1>7. /\ new \in FetchRecord /\ new.key = fetch.key /\ new.state = fetch.state
      /\ new.cancelled = fetch.cancelled
  BY <1>2, <1>5 DEF FetchRecord
<1> HIDE DEF new
<1>8. /\ fetches' \in Seq(FetchRecord) /\ Len(fetches') = Len(fetches)
      /\ \A g \in Fetches : fetches'[g] = IF g = f THEN new ELSE fetches[g]
  BY <1>1, <1>7, OneChanged DEF ShownInv
<1>9. \A g \in Fetches : /\ fetches'[g].key = fetches[g].key /\ fetches'[g].state = fetches[g].state
                         /\ fetches'[g].cancelled = fetches[g].cancelled
                         /\ Open(g) \/ fetches'[g].got = fetches[g].got
  <2>1. Open(f)
    BY DEF Read
  <2> QED BY <1>7, <1>8, <2>1 DEF fetch
<1> QED BY <1>1, <1>2, <1>8, <1>9, NothingAnswered

LEMMA ChangeKeeps ==
    ASSUME ShownInv, NEW key \in Keys, NEW list \in Seq(Nat), NEW place \in Nat,
           Change(key, list, place)
    PROVE  ShownInv'
<1>1. /\ UNCHANGED <<panel, wanted, timer, shown, upset>> /\ changes' = changes + 1
      /\ rows' = [rows EXCEPT ![key] = list] /\ fetches' = Shifted(key, list, place)
  BY DEF Change, asking
<1>2. rows' \in [Keys -> Seq(Nat)] /\ changes' \in Nat
  BY <1>1 DEF ShownInv, LookupTypes
<1>3. /\ fetches' \in Seq(FetchRecord) /\ Len(fetches') = Len(fetches)
      /\ \A f \in Fetches :
            /\ fetches'[f].key = fetches[f].key /\ fetches'[f].state = fetches[f].state
            /\ fetches'[f].cancelled = fetches[f].cancelled /\ fetches'[f].got = fetches[f].got
  BY <1>1, ShiftedDoes DEF ShownInv
<1> QED BY <1>1, <1>2, <1>3, NothingAnswered

\* The list a change makes, and where.
LEMMA ChangesAre ==
    ASSUME ShownInv, LookupsAssumption, NEW key \in Keys,
           Insert(key) \/ Delete(key) \/ Rise(key)
    PROVE  \E list \in Seq(Nat), place \in Nat : Change(key, list, place)
<1> DEFINE s == rows[key]
<1>1. /\ s \in Seq(Nat) /\ Len(s) \in Nat /\ DOMAIN s = 1 .. Len(s)
      /\ FirstRows + changes + 1 \in Nat
  BY DEF ShownInv, LookupTypes, LookupsAssumption
<1>2. CASE Insert(key)
  <2>1. PICK place \in 1 .. Len(s) + 1 :
             Change(key, InsertAt(s, place, FirstRows + changes + 1), place)
    BY <1>2 DEF Insert
  <2>2. place \in 1 .. Len(s) + 1
    BY <2>1
  <2>3. InsertAt(s, place, FirstRows + changes + 1) \in Seq(Nat)
    BY <1>1, <2>2, Inserted, Zenon
  <2> QED BY <2>1, <2>2, <2>3
<1>3. CASE Delete(key)
  <2>1. PICK place \in 1 .. Len(s) : Change(key, RemoveAt(s, place), place)
    BY <1>1, <1>3 DEF Delete
  <2>2. RemoveAt(s, place) \in Seq(Nat)
    BY <1>1, <2>1, Removed, Zenon
  <2> QED BY <2>1, <2>2
<1>4. CASE Rise(key)
  <2>1. PICK place \in 2 .. Len(s) : Change(key, <<s[place]>> \o RemoveAt(s, place), 1)
    BY <1>1, <1>4 DEF Rise
  <2>2. place \in 1 .. Len(s)
    BY <1>1
  <2>3. <<s[place]>> \o RemoveAt(s, place) \in Seq(Nat)
    BY <1>1, <2>2, Risen, Zenon
  <2> QED BY <2>1, <2>3
<1> QED BY <1>2, <1>3, <1>4

\* Every step keeps what is known of the answers.
LEMMA ShownStep == LookupsAssumption /\ ShownInv /\ [Next]_vars => ShownInv'
<1> SUFFICES ASSUME LookupsAssumption, ShownInv, [Next]_vars PROVE ShownInv'
  OBVIOUS
<1>1. CASE Search
  BY <1>1, SearchKeeps
<1>2. CASE Leave
  BY <1>2, LeaveKeeps
<1>3. ASSUME NEW key \in Keys, Want(key) PROVE ShownInv'
  BY <1>3, WantKeeps
<1>4. ASSUME NEW key \in Keys, Focus(key) PROVE ShownInv'
  BY <1>4, FocusKeeps
<1>5. ASSUME NEW key \in Keys, Insert(key) \/ Delete(key) \/ Rise(key) PROVE ShownInv'
  <2>1. PICK list \in Seq(Nat), place \in Nat : Change(key, list, place)
    BY <1>5, ChangesAre
  <2> QED BY <2>1, ChangeKeeps
<1>6. ASSUME NEW f \in Fetches, Count(f) \/ Read(f) \/ Answer(f) \/ Fail(f) PROVE ShownInv'
  BY <1>6, CountKeeps, ReadKeeps, AnswerKeeps, FailKeeps
<1>7. CASE UNCHANGED vars
  BY <1>7 DEF vars, asking, ShownInv, LookupTypes, LatestIsShown, LatestIsKept, WantedIsAsked,
     WantedIsShown, LatestAnswered,
              Latest, Fetches, Blank
<1> QED BY <1>1, <1>2, <1>3, <1>4, <1>5, <1>6, <1>7 DEF Next

\* What is known of the answers is enough.
LEMMA ShownMeans == ShownInv => NewestIsShown
<1> SUFFICES ASSUME ShownInv, AtRest, ~upset, Len(fetches) > 0, Latest.state = "done",
                    Latest.key = wanted
             PROVE  /\ shown.of # 0 /\ fetches[shown.of].key = wanted
                    /\ panel.guard # "asked"
                          => shown = [of |-> Len(fetches), list |-> Latest.got]
  BY DEF NewestIsShown, Latest
<1>1. LatestAnswered /\ timer = Nothing
  BY DEF LatestAnswered, AtRest
<1>2. wanted # Nothing
  <2>1. Latest \in FetchRecord
    BY DEF Latest, ShownInv, LookupTypes
  <2>2. Latest.key \in Keys
    BY <2>1 DEF FetchRecord
  <2> QED BY <2>2, LookupsAssumption DEF LookupsAssumption
<1>3. CASE panel.guard = "asked"
  BY <1>1, <1>2, <1>3 DEF ShownInv, WantedIsShown
<1>4. CASE panel.guard # "asked"
  <2>1. shown = [of |-> Len(fetches), list |-> Latest.got]
    BY <1>1, <1>2, <1>4 DEF ShownInv, LatestIsShown
  <2> QED BY <1>4, <2>1 DEF Latest
<1> QED BY <1>3, <1>4

\* Throughout, the answer of the latest request is on screen, or on its way there.
THEOREM ShownInvariance == Spec => []ShownInv
<1>1. Init => ShownInv
  BY ShownStart, LookupsAssumption
<1>2. ShownInv /\ [Next]_vars => ShownInv'
  BY ShownStep, LookupsAssumption
<1> QED BY <1>1, <1>2, PTL DEF Spec

\* Once every answer is in, a panel shows the answer of its newest request, if that is still
\* wanted, but where an older answer came after a newer one in a panel that cannot tell them
\* apart (runSearch of PeoplePicker.jsx and SearchBar.jsx, handleComposerChange of
\* ChannelView.jsx, the load functions of the panels).
THEOREM NewestAnswerShown == Spec => []NewestIsShown
<1>1. ShownInv => NewestIsShown
  BY ShownMeans
<1> QED BY <1>1, ShownInvariance, PTL

------------------------------------------------------------------------------
(* The pages: one request and the list it is about.                           *)

Begins(got, list) == Len(got) <= Len(list) /\ \A i \in 1 .. Len(got) : got[i] = list[i]

\* After a page's total was read and before its rows are.
Ahead(r, list, order) ==
    /\ \A x \in r.begun : \E i \in 1 .. Len(list) : i <= r.count /\ list[i] = x
    /\ order = "activity" => Len(list) <= r.count \/ r.begun = {}

OpenPage(r, list, order) ==
    /\ r.begun \subseteq ToSet(list)
    /\ Begins(r.got, list)
    /\ r.count >= 0 /\ r.size < 0 => Ahead(r, list, order)
    /\ r.size = 0 \/ (r.size > 0 /\ r.count >= 0 /\ Len(r.got) >= r.count)
          => r.begun \subseteq ToSet(r.got)

PageOK(r, list, order) ==
    ~r.shifted =>
        /\ r.state = "open" => OpenPage(r, list, order)
        /\ r.state = "done" => r.begun \subseteq ToSet(r.got) /\ IsInjective(r.got)

ListFine(list, last) ==
    /\ list \in Seq(Nat) /\ IsInjective(list)
    /\ \A i \in 1 .. Len(list) : list[i] <= last

LEMMA Elements ==
    ASSUME NEW S, NEW s \in Seq(S)
    PROVE  /\ \A x : x \in ToSet(s) <=> \E i \in 1 .. Len(s) : s[i] = x
           /\ Len(s) \in Nat /\ DOMAIN s = 1 .. Len(s)
BY DEF ToSet

LEMMA PrefixSet ==
    ASSUME NEW got \in Seq(Nat), NEW list \in Seq(Nat), Begins(got, list)
    PROVE  /\ ToSet(got) \subseteq ToSet(list)
           /\ Len(got) = Len(list) => ToSet(got) = ToSet(list)
           /\ IsInjective(list) => IsInjective(got)
<1>1. /\ Len(got) \in Nat /\ Len(list) \in Nat /\ DOMAIN got = 1 .. Len(got)
      /\ DOMAIN list = 1 .. Len(list)
      /\ Len(got) <= Len(list)
      /\ \A i \in 1 .. Len(got) : i \in 1 .. Len(list) /\ got[i] = list[i]
  BY DEF Begins
<1>2. ToSet(got) \subseteq ToSet(list)
  BY <1>1 DEF ToSet
<1>3. Len(got) = Len(list) => ToSet(got) = ToSet(list)
  BY <1>1 DEF ToSet
<1>4. IsInjective(list) => IsInjective(got)
  BY <1>1 DEF IsInjective
<1> QED BY <1>2, <1>3, <1>4

LEMMA CountPage ==
    ASSUME NEW r \in FetchRecord, NEW q \in FetchRecord, NEW list \in Seq(Nat), NEW order,
           OpenPage(r, list, order),
           q.begun = r.begun, q.got = r.got, q.size = r.size, q.count = Len(list)
    PROVE  OpenPage(q, list, order)
<1>1. r.got \in Seq(Nat) /\ Len(r.got) \in Nat /\ Len(list) \in Nat /\ r.size \in Nat \cup {-1}
  BY DEF FetchRecord
<1>2. q.size < 0 => Ahead(q, list, order)
  BY <1>1, Elements DEF Ahead, OpenPage
<1>3. Len(q.got) >= q.count => q.begun \subseteq ToSet(q.got)
  <2>1. Begins(r.got, list) /\ r.begun \subseteq ToSet(list)
    BY DEF OpenPage
  <2>2. Len(r.got) >= Len(list) => ToSet(r.got) = ToSet(list)
    BY <1>1, <2>1, PrefixSet, SMTT(30) DEF Begins
  <2> QED BY <2>1, <2>2
<1> QED BY <1>1, <1>2, <1>3 DEF OpenPage

LEMMA NextPageIs ==
    ASSUME LookupsAssumption, NEW got \in Seq(Nat), NEW list \in Seq(Nat), Len(got) <= Len(list)
    PROVE  /\ NextPage(got, list) \in Seq(Nat)
           /\ Len(got) + Len(NextPage(got, list)) <= Len(list)
           /\ \A i \in 1 .. Len(NextPage(got, list)) : NextPage(got, list)[i] = list[Len(got) + i]
           /\ Len(NextPage(got, list)) = 0 => Len(got) = Len(list)
<1> DEFINE n == Len(got)
           m == Len(list)
           k == Min({n + PageSize, m})
<1>1. n \in Nat /\ m \in Nat /\ n <= m /\ \A i \in 1 .. m : list[i] \in Nat
  OBVIOUS
<1>2. k \in Nat /\ k <= m /\ (n < m => k > n) /\ (n = m => k = n)
  BY <1>1, PageEnd
<1>3. NextPage(got, list) = SubSeq(list, n + 1, k)
  BY DEF NextPage
<1> HIDE DEF k, n, m
<1>4. n + 1 \in Nat /\ k >= n /\ \A i \in n + 1 .. k : list[i] \in Nat
  BY <1>1, <1>2
<1>5. /\ SubSeq(list, n + 1, k) \in Seq(Nat)
      /\ Len(SubSeq(list, n + 1, k)) = k - n
      /\ \A i \in 1 .. k - n : SubSeq(list, n + 1, k)[i] = list[n + i]
  <2>1. SubSeq(list, n + 1, k) \in Seq(Nat)
    BY <1>1, <1>2, <1>4, SubSeqProperties
  <2>2. Len(SubSeq(list, n + 1, k)) = k - n
    BY <1>1, <1>2, <1>4
  <2>3. ASSUME NEW i \in 1 .. k - n PROVE SubSeq(list, n + 1, k)[i] = list[n + i]
    BY <1>1, <1>2, <1>4, <2>2
  <2> QED BY <2>1, <2>2, <2>3
<1>6. n + (k - n) <= m /\ (k - n = 0 => n = m)
  BY <1>1, <1>2
<1> QED BY <1>3, <1>5, <1>6 DEF n, m

LEMMA ReadPage ==
    ASSUME LookupsAssumption,
           NEW r \in FetchRecord, NEW q \in FetchRecord, NEW list \in Seq(Nat), NEW order,
           OpenPage(r, list, order),
           r.size = -1, q.begun = r.begun, q.count = r.count,
           q.got = r.got \o NextPage(r.got, list), q.size = Len(NextPage(r.got, list))
    PROVE  OpenPage(q, list, order)
<1> DEFINE got == r.got
           n == Len(got)
           part == NextPage(got, list)
           k == Len(part)
<1>1. /\ got \in Seq(Nat) /\ n \in Nat /\ Len(list) \in Nat /\ r.count \in Nat \cup {-1}
  BY DEF FetchRecord
<1>2. Begins(got, list) /\ n <= Len(list) /\ \A i \in 1 .. n : got[i] = list[i]
  BY DEF OpenPage, Begins
<1>3. /\ part \in Seq(Nat) /\ n + k <= Len(list)
      /\ \A i \in 1 .. k : part[i] = list[n + i]
      /\ k = 0 => n = Len(list)
  BY <1>1, <1>2, NextPageIs
<1>4. q.got = got \o part /\ q.size = k
  OBVIOUS
<1>5. r.begun \subseteq ToSet(list) /\ (r.count >= 0 => Ahead(r, list, order))
  BY DEF OpenPage
<1>6. n = Len(got) /\ k = Len(part)
  OBVIOUS
<1> HIDE DEF part, got, n, k
<1>7. /\ q.got \in Seq(Nat) /\ Len(q.got) = n + k /\ k \in Nat
      /\ \A i \in 1 .. n + k : q.got[i] = IF i <= n THEN got[i] ELSE part[i - n]
  BY <1>1, <1>3, <1>4, <1>6, ConcatProperties
<1>8. ASSUME NEW i \in 1 .. n + k PROVE q.got[i] = list[i]
  <2>1. CASE i <= n
    <3>1. i \in 1 .. n
      BY <1>1, <2>1
    <3> QED BY <1>2, <1>7, <2>1, <3>1
  <2>2. CASE ~(i <= n)
    <3>1. i - n \in 1 .. k /\ n + (i - n) = i
      BY <1>1, <1>7, <2>2
    <3>2. part[i - n] = list[i]
      BY <1>3, <3>1
    <3> QED BY <1>7, <2>2, <3>2
  <2> QED BY <2>1, <2>2
<1>9. Begins(q.got, list)
  BY <1>3, <1>7, <1>8 DEF Begins
<1>10. q.size = 0 => q.begun \subseteq ToSet(q.got)
  <2> SUFFICES ASSUME q.size = 0 PROVE q.begun \subseteq ToSet(q.got)
    OBVIOUS
  <2>1. Len(q.got) = Len(list)
    BY <1>1, <1>3, <1>4, <1>7
  <2>2. ToSet(q.got) = ToSet(list)
    BY <1>7, <1>9, <2>1, PrefixSet
  <2> QED BY <1>5, <2>2
<1>11. q.count >= 0 /\ Len(q.got) >= q.count => q.begun \subseteq ToSet(q.got)
  <2> SUFFICES ASSUME q.count >= 0, Len(q.got) >= q.count,
                      NEW x \in q.begun PROVE x \in ToSet(q.got)
    OBVIOUS
  <2>1. Ahead(r, list, order)
    BY <1>5
  <2>2. PICK i \in 1 .. Len(list) : i <= r.count /\ list[i] = x
    BY <2>1 DEF Ahead
  <2>3. i \in 1 .. n + k /\ r.count \in Nat
    BY <1>1, <1>7, <2>2
  <2>4. q.got[i] = x /\ i \in 1 .. Len(q.got)
    BY <1>7, <1>8, <2>2, <2>3
  <2> QED BY <1>7, <2>4, Elements
<1>12. ~(q.size < 0)
  BY <1>4, <1>7
<1> QED BY <1>5, <1>9, <1>10, <1>11, <1>12 DEF OpenPage

\* What a change makes of a list.
IsInserted(new, s, p, e) ==
    /\ new \in Seq(Nat) /\ Len(new) = Len(s) + 1
    /\ \A i \in 1 .. Len(s) + 1 : new[i] = IF i < p THEN s[i] ELSE IF i = p THEN e ELSE s[i - 1]

IsRemoved(new, s, p) ==
    /\ new \in Seq(Nat) /\ Len(new) = Len(s) - 1
    /\ \A i \in 1 .. Len(s) - 1 : new[i] = IF i < p THEN s[i] ELSE s[i + 1]

IsRisen(new, s, p) ==
    /\ new \in Seq(Nat) /\ Len(new) = Len(s)
    /\ \A i \in 1 .. Len(s) : new[i] = IF i = 1 THEN s[p] ELSE IF i <= p THEN s[i - 1] ELSE s[i]

LEMMA StillBegins ==
    ASSUME NEW got \in Seq(Nat), NEW list \in Seq(Nat), NEW new \in Seq(Nat), NEW p \in Int,
           Begins(got, list),
           p > Len(got), p - 1 <= Len(new), \A i \in 1 .. p - 1 : new[i] = list[i]
    PROVE  Begins(got, new)
<1>1. Len(got) \in Nat /\ Len(new) \in Nat /\ \A i \in 1 .. Len(got) : i \in 1 .. p - 1
  OBVIOUS
<1>2. Len(got) <= Len(new)
  BY <1>1
<1>3. \A i \in 1 .. Len(got) : got[i] = list[i]
  BY DEF Begins
<1>4. \A i \in 1 .. Len(got) : got[i] = new[i]
  BY <1>1, <1>3, Zenon
<1> QED BY <1>2, <1>4, Zenon DEF Begins

LEMMA InsertedIs ==
    ASSUME NEW s \in Seq(Nat), NEW p \in 1 .. Len(s) + 1, NEW e \in Nat
    PROVE  IsInserted(InsertAt(s, p, e), s, p, e)
BY Inserted, SMTT(30) DEF IsInserted

LEMMA InsertPage ==
    ASSUME NEW r \in FetchRecord, NEW q \in FetchRecord, NEW list \in Seq(Nat), NEW order,
           OpenPage(r, list, order),
           NEW p \in 1 .. Len(list) + 1, NEW e \in Nat,
           p > Len(r.got),
           p < Len(list) + 1 \/ order = "activity" => ~(r.count >= 0 /\ r.size < 0),
           NEW new, IsInserted(new, list, p, e), q.begun = r.begun \cap ToSet(new),
           q.got = r.got, q.size = r.size, q.count = r.count
    PROVE  OpenPage(q, new, order)
<1>1. /\ new \in Seq(Nat) /\ Len(new) = Len(list) + 1
      /\ \A i \in 1 .. Len(list) + 1 : i < p => new[i] = list[i]
  BY DEF IsInserted
<1>2. r.got \in Seq(Nat) /\ Len(r.got) \in Nat /\ Len(list) \in Nat /\ r.count \in Nat \cup {-1}
  BY DEF FetchRecord
<1>3. Begins(q.got, new)
  <2>1. Begins(r.got, list)
    BY DEF OpenPage
  <2>2. \A i \in 1 .. p - 1 : new[i] = list[i]
    BY <1>1, <1>2, SMTT(30)
  <2>3. p - 1 <= Len(new)
    BY <1>1, <1>2
  <2>4. new \in Seq(Nat) /\ r.got \in Seq(Nat) /\ p \in Int /\ p > Len(r.got)
    BY <1>1, <1>2
  <2>5. Begins(r.got, new)
    BY <2>1, <2>2, <2>3, <2>4, StillBegins
  <2> QED BY <2>5
<1>4. q.count >= 0 /\ q.size < 0 => Ahead(q, new, order)
  <2> SUFFICES ASSUME q.count >= 0, q.size < 0 PROVE Ahead(q, new, order)
    OBVIOUS
  <2>1. p = Len(list) + 1 /\ order # "activity" /\ Ahead(r, list, order)
    BY <1>2 DEF OpenPage
  <2>2. ASSUME NEW x \in q.begun PROVE \E i \in 1 .. Len(new) : i <= q.count /\ new[i] = x
    <3>1. PICK i \in 1 .. Len(list) : i <= r.count /\ list[i] = x
      BY <2>1, <2>2 DEF Ahead
    <3>2. i < p /\ i \in 1 .. Len(list) + 1 /\ i \in 1 .. Len(new)
      BY <1>1, <1>2, <2>1
    <3>3. new[i] = x
      BY <1>1, <3>1, <3>2
    <3> QED BY <3>1, <3>2, <3>3
  <2> QED BY <2>1, <2>2 DEF Ahead
<1>5. q.size = 0 \/ (q.size > 0 /\ q.count >= 0 /\ Len(q.got) >= q.count)
          => q.begun \subseteq ToSet(q.got)
  BY DEF OpenPage
<1> QED BY <1>3, <1>4, <1>5 DEF OpenPage

LEMMA DeletePage ==
    ASSUME NEW r \in FetchRecord, NEW q \in FetchRecord, NEW list \in Seq(Nat),
           IsInjective(list), NEW order,
           OpenPage(r, list, order), NEW p \in 1 .. Len(list), p > Len(r.got),
           NEW new, IsRemoved(new, list, p), q.begun = r.begun \cap ToSet(new),
           q.got = r.got, q.size = r.size, q.count = r.count
    PROVE  OpenPage(q, new, order)
<1>1. /\ new \in Seq(Nat) /\ Len(new) = Len(list) - 1
      /\ \A i \in 1 .. Len(list) - 1 : new[i] = IF i < p THEN list[i] ELSE list[i + 1]
  BY DEF IsRemoved
<1>2. r.got \in Seq(Nat) /\ Len(r.got) \in Nat /\ Len(list) \in Nat /\ r.count \in Nat \cup {-1}
  BY DEF FetchRecord
<1>3. Begins(q.got, new)
  <2>1. Begins(r.got, list)
    BY DEF OpenPage
  <2>2. ASSUME NEW i \in 1 .. p - 1 PROVE new[i] = list[i]
    <3>1. i \in 1 .. Len(list) - 1 /\ i < p
      BY <1>2
    <3> QED BY <1>1, <3>1
  <2>3. p - 1 <= Len(new)
    BY <1>1, <1>2
  <2>4. new \in Seq(Nat) /\ r.got \in Seq(Nat) /\ p \in Int /\ p > Len(r.got)
    BY <1>1, <1>2
  <2>5. Begins(r.got, new)
    BY <2>1, <2>2, <2>3, <2>4, StillBegins
  <2> QED BY <2>5
<1>4. q.count >= 0 /\ q.size < 0 => Ahead(q, new, order)
  <2> SUFFICES ASSUME q.count >= 0, q.size < 0 PROVE Ahead(q, new, order)
    OBVIOUS
  <2>1. Ahead(r, list, order)
    BY DEF OpenPage
  <2>2. ASSUME NEW x \in q.begun PROVE \E i \in 1 .. Len(new) : i <= q.count /\ new[i] = x
    <3>1. PICK i \in 1 .. Len(list) : i <= r.count /\ list[i] = x
      BY <2>1, <2>2 DEF Ahead
    <3>2. PICK j \in 1 .. Len(new) : new[j] = x
      BY <1>1, <2>2, Elements
    <3>3. \A a, b \in 1 .. Len(list) : list[a] = list[b] => a = b
      BY <1>2, SMTT(30) DEF IsInjective
    <3>4. j < p => j = i
      <4> SUFFICES ASSUME j < p PROVE j = i
        OBVIOUS
      <4>1. j \in 1 .. Len(list) /\ list[j] = x
        BY <1>1, <1>2, <3>2, SMTT(30)
      <4> QED BY <3>1, <3>3, <4>1
    <3>5. j >= p => j + 1 = i
      <4> SUFFICES ASSUME j >= p PROVE j + 1 = i
        OBVIOUS
      <4>1. j + 1 \in 1 .. Len(list) /\ list[j + 1] = x
        BY <1>1, <1>2, <3>2, SMTT(30)
      <4> QED BY <3>1, <3>3, <4>1
    <3>6. j <= r.count
      BY <1>2, <3>1, <3>4, <3>5
    <3> QED BY <3>2, <3>6
  <2>3. order = "activity" => Len(new) <= q.count \/ q.begun = {}
    BY <1>1, <1>2, <2>1 DEF Ahead
  <2> QED BY <2>2, <2>3 DEF Ahead
<1>5. q.size = 0 \/ (q.size > 0 /\ q.count >= 0 /\ Len(q.got) >= q.count)
          => q.begun \subseteq ToSet(q.got)
  BY DEF OpenPage
<1> QED BY <1>3, <1>4, <1>5 DEF OpenPage

LEMMA RisePage ==
    ASSUME NEW r \in FetchRecord, NEW q \in FetchRecord, NEW list \in Seq(Nat),
           NEW new \in Seq(Nat),
           NEW order, order = "activity", OpenPage(r, list, order), Len(new) = Len(list),
           1 > Len(r.got),
           q.begun = r.begun \cap ToSet(new), q.got = r.got, q.size = r.size, q.count = r.count
    PROVE  OpenPage(q, new, order)
<1>1. r.got \in Seq(Nat) /\ Len(r.got) \in Nat /\ Len(list) \in Nat /\ r.count \in Nat \cup {-1}
  BY DEF FetchRecord
<1>2. Begins(q.got, new)
  BY <1>1 DEF Begins
<1>3. q.count >= 0 /\ q.size < 0 => Ahead(q, new, order)
  <2> SUFFICES ASSUME q.count >= 0, q.size < 0 PROVE Ahead(q, new, order)
    OBVIOUS
  <2>1. Len(list) <= r.count \/ r.begun = {}
    BY DEF OpenPage, Ahead
  <2>2. ASSUME NEW x \in q.begun PROVE \E i \in 1 .. Len(new) : i <= q.count /\ new[i] = x
    <3>1. PICK i \in 1 .. Len(new) : new[i] = x
      BY <2>2, Elements
    <3> QED BY <1>1, <2>1, <2>2, <3>1, SMTT(30)
  <2>3. Len(new) <= q.count \/ q.begun = {}
    BY <2>1
  <2> QED BY <2>2, <2>3 DEF Ahead
<1>4. q.size = 0 \/ (q.size > 0 /\ q.count >= 0 /\ Len(q.got) >= q.count)
          => q.begun \subseteq ToSet(q.got)
  BY DEF OpenPage
<1> QED BY <1>2, <1>3, <1>4 DEF OpenPage

------------------------------------------------------------------------------
(* The pages of all the requests.                                             *)

Fine == Paged => \A k \in Keys : ListFine(rows[k], FirstRows + changes)
Paging == Paged => \A f \in Fetches : PageOK(fetches[f], rows[fetches[f].key], panel.order)
PagesInv == LookupTypes /\ Fine /\ Paging

LEMMA SamePage ==
    ASSUME NEW r, NEW q, NEW list, NEW order, PageOK(r, list, order),
           q.state = r.state, q.begun = r.begun, q.got = r.got, q.count = r.count,
           q.size = r.size,
           q.shifted = r.shifted
    PROVE  PageOK(q, list, order)
BY DEF PageOK, OpenPage, Ahead

\* At the start no page has come.
LEMMA PagesStart == LookupsAssumption /\ Init => PagesInv
<1> SUFFICES ASSUME LookupsAssumption, Init PROVE PagesInv
  OBVIOUS
<1>1. LookupTypes
  BY ShownStart DEF ShownInv
<1>2. Fine
  <2> SUFFICES ASSUME Paged, NEW k \in Keys PROVE ListFine(rows[k], FirstRows + changes)
    BY DEF Fine
  <2>1. rows[k] = Initially /\ changes = 0 /\ FirstRows \in Nat
    BY DEF Init, LookupsAssumption
  <2>2. Initially \in Seq(Nat) /\ Len(Initially) = FirstRows /\ DOMAIN Initially = 1 .. FirstRows
        /\ \A i \in 1 .. FirstRows : Initially[i] = i
    BY <2>1, SeqDef DEF Initially
  <2> QED BY <2>1, <2>2 DEF ListFine, IsInjective
<1>3. Paging
  BY DEF Init, Paging, Fetches
<1> QED BY <1>1, <1>2, <1>3 DEF PagesInv

\* No request's pages change, but for the one that is made.
LEMMA AskedPages ==
    ASSUME LookupsAssumption, PagesInv, LookupTypes', NEW key \in Keys, Asked(key),
           UNCHANGED <<panel, rows, changes>>
    PROVE  PagesInv'
<1>1. /\ fetches' \in Seq(FetchRecord) /\ Len(fetches') = Len(fetches) + 1
      /\ fetches'[Len(fetches) + 1] = Request(key)
      /\ \A f \in Fetches : fetches'[f] = [fetches[f] EXCEPT !.cancelled = TRUE]
  BY AskedDoes DEF PagesInv
<1>2. Len(fetches) \in Nat /\ Fetches = 1 .. Len(fetches) /\ Fetches' = 1 .. Len(fetches) + 1
  BY <1>1 DEF PagesInv, LookupTypes, Fetches
<1>3. Fine'
  BY DEF PagesInv, Fine, Paged
<1>4. ASSUME Paged, NEW f \in Fetches'
      PROVE  PageOK(fetches'[f], rows[fetches'[f].key], panel.order)
  <2>1. CASE f = Len(fetches) + 1
    <3> DEFINE r == Request(key)
    <3>1. /\ fetches'[f] = r /\ r.key = key /\ r.state = "open" /\ r.got = <<>>
          /\ r.count = -1 /\ r.size = -1
          /\ r.begun = ToSet(rows[key])
      BY <1>1, <2>1 DEF Request
    <3>2. rows[key] \in Seq(Nat)
      BY DEF PagesInv, LookupTypes
    <3> HIDE DEF r
    <3>3. Begins(r.got, rows[key])
      BY <3>1, <3>2 DEF Begins
    <3>4. OpenPage(r, rows[key], panel.order)
      BY <3>1, <3>3 DEF OpenPage
    <3> QED BY <3>1, <3>4 DEF PageOK
  <2>2. CASE f \in Fetches
    <3> DEFINE r == fetches[f]
               q == [r EXCEPT !.cancelled = TRUE]
    <3>1. /\ r \in FetchRecord /\ PageOK(r, rows[r.key], panel.order)
          /\ fetches'[f] = q
      <4>1. fetches[f] \in FetchRecord
        BY <1>2, <2>2 DEF PagesInv, LookupTypes
      <4>2. PageOK(r, rows[r.key], panel.order)
        BY <1>4, <2>2 DEF PagesInv, Paging
      <4>3. fetches'[f] = q
        BY <1>1, <2>2
      <4> QED BY <4>1, <4>2, <4>3
    <3> HIDE DEF r
    <3>2. /\ q.key = r.key /\ q.state = r.state /\ q.begun = r.begun /\ q.got = r.got
          /\ q.count = r.count
          /\ q.size = r.size /\ q.shifted = r.shifted
      BY <3>1 DEF FetchRecord
    <3> HIDE DEF q
    <3> QED BY <3>1, <3>2, SamePage
  <2> QED BY <1>2, <2>1, <2>2
<1>5. Paging'
  BY <1>4 DEF Paging, Paged
<1> QED BY <1>3, <1>5 DEF PagesInv

\* One request changes, and no list.
LEMMA OnePage ==
    ASSUME PagesInv, LookupTypes', UNCHANGED <<panel, rows, changes>>, NEW f \in Fetches,
           NEW q \in FetchRecord,
           fetches' = [fetches EXCEPT ![f] = q], q.key = fetches[f].key,
           Paged => PageOK(q, rows[q.key], panel.order)
    PROVE  PagesInv'
<1>1. /\ Len(fetches') = Len(fetches) /\ \A g \in Fetches : fetches'[g] = IF g = f THEN q ELSE fetches[g]
  BY OneChanged DEF PagesInv
<1>2. Fetches' = Fetches
  BY <1>1 DEF PagesInv, LookupTypes, Fetches
<1>3. Fine'
  BY DEF PagesInv, Fine, Paged
<1>4. ASSUME Paged, NEW g \in Fetches
      PROVE  PageOK(fetches'[g], rows[fetches'[g].key], panel.order)
  <2>1. PageOK(fetches[g], rows[fetches[g].key], panel.order)
    BY <1>4 DEF PagesInv, Paging
  <2> QED BY <1>1, <1>4, <2>1
<1>5. Paging'
  BY <1>2, <1>4 DEF Paging, Paged
<1> QED BY <1>3, <1>5 DEF PagesInv

LEMMA CountPages ==
    ASSUME PagesInv, LookupTypes', NEW f \in Fetches, Count(f)
    PROVE  PagesInv'
<1> DEFINE r == fetches[f]
           list == rows[r.key]
           q == [r EXCEPT !.count = Len(list)]
<1>1. /\ Paged /\ r.state = "open" /\ UNCHANGED <<panel, rows, changes>>
      /\ fetches' = [fetches EXCEPT ![f] = q]
  BY DEF Count, asking, Open
<1>2. r \in FetchRecord /\ rows \in [Keys -> Seq(Nat)] /\ PageOK(r, list, panel.order)
  BY <1>1 DEF PagesInv, LookupTypes, Fetches, Paging
<1>3. r.key \in Keys
  BY <1>2 DEF FetchRecord
<1>4. list \in Seq(Nat) /\ Len(list) \in Nat
  BY <1>2, <1>3
<1>0. r = fetches[f] /\ list = rows[r.key]
  OBVIOUS
<1> HIDE DEF r, list
<1>5. /\ q \in FetchRecord /\ q.key = r.key /\ q.state = r.state /\ q.begun = r.begun
      /\ q.got = r.got
      /\ q.size = r.size /\ q.shifted = r.shifted /\ q.count = Len(list)
  BY <1>2, <1>4 DEF FetchRecord
<1> HIDE DEF q
<1>6. PageOK(q, list, panel.order)
  <2> SUFFICES ASSUME ~q.shifted PROVE OpenPage(q, list, panel.order)
    BY <1>1, <1>5 DEF PageOK
  <2>1. OpenPage(r, list, panel.order)
    BY <1>1, <1>2, <1>5 DEF PageOK
  <2> QED BY <1>2, <1>4, <1>5, <2>1, CountPage
<1> QED BY <1>0, <1>1, <1>5, <1>6, OnePage

LEMMA ReadPages ==
    ASSUME LookupsAssumption, PagesInv, LookupTypes', NEW f \in Fetches, Read(f)
    PROVE  PagesInv'
<1> DEFINE r == fetches[f]
           list == rows[r.key]
<1>a. PICK order \in Orders(list) :
          LET piece == NextPage(r.got, order) IN
          fetches' = [fetches EXCEPT
               ![f] = [r EXCEPT !.got = @ \o piece, !.size = Len(piece),
                                !.shifted = @ \/ piece # NextPage(r.got, list)]]
  BY DEF Read
<1> DEFINE part == NextPage(r.got, order)
           more == r.got \o part
           missed == r.shifted \/ part # NextPage(r.got, list)
           q == [r EXCEPT !.got = more, !.size = Len(part), !.shifted = missed]
<1>1. /\ Paged /\ r.state = "open" /\ r.size = -1
      /\ UNCHANGED <<panel, rows, changes>> /\ fetches' = [fetches EXCEPT ![f] = q]
  <2>1. q = [r EXCEPT !.got = @ \o part, !.size = Len(part),
                      !.shifted = @ \/ part # NextPage(r.got, list)]
    OBVIOUS
  <2> QED BY <1>a, <2>1 DEF Read, asking, Open
<1>2. r \in FetchRecord /\ rows \in [Keys -> Seq(Nat)] /\ PageOK(r, list, panel.order)
  BY <1>1 DEF PagesInv, LookupTypes, Fetches, Paging
<1>3. r.key \in Keys /\ r.got \in Seq(Nat)
  BY <1>2 DEF FetchRecord
<1>4. list \in Seq(Nat)
  BY <1>2, <1>3
<1>5. part \in Seq(Nat)
  <2>1. order \in Seq(Nat)
    BY <1>4, OrdersType
  <2> QED BY <1>3, <2>1, NextPageType
<1>6. more \in Seq(Nat) /\ Len(part) \in Nat /\ missed \in BOOLEAN
  BY <1>2, <1>3, <1>5 DEF FetchRecord
<1>0. r = fetches[f] /\ list = rows[r.key]
  OBVIOUS
<1>7. ~missed => ~r.shifted /\ part = NextPage(r.got, list) /\ more = r.got \o part
  OBVIOUS
<1> HIDE DEF r, list, part, more, missed
<1>8. /\ q \in FetchRecord /\ q.key = r.key /\ q.state = r.state /\ q.begun = r.begun
      /\ q.count = r.count
      /\ q.shifted = missed /\ q.got = more /\ q.size = Len(part)
  BY <1>2, <1>6 DEF FetchRecord
<1> HIDE DEF q
<1>9. PageOK(q, list, panel.order)
  <2> SUFFICES ASSUME ~q.shifted PROVE OpenPage(q, list, panel.order)
    BY <1>1, <1>8 DEF PageOK
  <2>1. OpenPage(r, list, panel.order)
    BY <1>1, <1>2, <1>7, <1>8 DEF PageOK
  <2>2. q.got = r.got \o NextPage(r.got, list) /\ q.size = Len(NextPage(r.got, list))
    BY <1>7, <1>8
  <2> QED BY <1>1, <1>2, <1>4, <1>8, <2>1, <2>2, ReadPage
<1> QED BY <1>0, <1>1, <1>8, <1>9, OnePage

LEMMA AnswerPages ==
    ASSUME PagesInv, LookupTypes', NEW f \in Fetches, Answer(f)
    PROVE  PagesInv'
<1> DEFINE r == fetches[f]
           list == rows[r.key]
           done == ~Paged \/ LastPage(r)
           state == IF done THEN "done" ELSE "open"
           q == [r EXCEPT !.state = state, !.count = -1, !.size = -1]
<1>1. /\ r.state = "open" /\ (Paged => r.count >= 0 /\ r.size >= 0)
      /\ UNCHANGED <<panel, rows, changes>> /\ fetches' = [fetches EXCEPT ![f] = q]
  BY DEF Answer, asking, Open
<1>2. r \in FetchRecord /\ rows \in [Keys -> Seq(Nat)] /\ (Paged => PageOK(r, list, panel.order) /\ IsInjective(list))
  <2>1. r \in FetchRecord
    BY DEF PagesInv, LookupTypes, Fetches
  <2>2. r.key \in Keys
    BY <2>1 DEF FetchRecord
  <2> QED BY <2>1, <2>2 DEF PagesInv, LookupTypes, Paging, Fine, ListFine
<1>3. r.key \in Keys /\ r.got \in Seq(Nat) /\ r.size \in Nat \cup {-1}
  BY <1>2 DEF FetchRecord
<1>4. list \in Seq(Nat)
  BY <1>2, <1>3
<1>5. state \in States
  BY DEF States
<1>6. Paged => (done <=> r.size = 0 \/ Len(r.got) >= r.count)
  BY DEF LastPage
<1>7. state = IF done THEN "done" ELSE "open"
  OBVIOUS
<1>0. r = fetches[f] /\ list = rows[r.key]
  OBVIOUS
<1> HIDE DEF r, list, done, state
<1>8. /\ q \in FetchRecord /\ q.key = r.key /\ q.got = r.got /\ q.state = state
      /\ q.begun = r.begun
      /\ q.shifted = r.shifted /\ q.count = -1 /\ q.size = -1
  BY <1>2, <1>5, Paginated
<1> HIDE DEF q
<1>9. Paged => PageOK(q, list, panel.order)
  <2> SUFFICES ASSUME Paged, ~q.shifted
               PROVE  /\ q.state = "open" => OpenPage(q, list, panel.order)
                      /\ q.state = "done"
                            => q.begun \subseteq ToSet(q.got) /\ IsInjective(q.got)
    BY DEF PageOK
  <2>1. OpenPage(r, list, panel.order)
    BY <1>1, <1>2, <1>8 DEF PageOK
  <2>2. OpenPage(q, list, panel.order)
    BY <1>8, <2>1 DEF OpenPage
  <2>3. done => r.begun \subseteq ToSet(r.got)
    BY <1>1, <1>3, <1>6, <2>1 DEF OpenPage
  <2>4. IsInjective(r.got)
    <3>1. Begins(r.got, list)
      BY <2>1 DEF OpenPage
    <3> QED BY <1>2, <1>3, <1>4, <3>1, PrefixSet
  <2> QED BY <1>7, <1>8, <2>2, <2>3, <2>4
<1> QED BY <1>0, <1>1, <1>8, <1>9, OnePage

LEMMA FailPages ==
    ASSUME PagesInv, LookupTypes', NEW f \in Fetches, Fail(f)
    PROVE  PagesInv'
<1> DEFINE r == fetches[f]
           q == [r EXCEPT !.state = "failed"]
<1>1. UNCHANGED <<panel, rows, changes>> /\ fetches' = [fetches EXCEPT ![f] = q]
  BY DEF Fail, asking
<1>2. r \in FetchRecord
  BY DEF PagesInv, LookupTypes, Fetches
<1>0. r = fetches[f]
  OBVIOUS
<1> HIDE DEF r
<1>3. q \in FetchRecord /\ q.key = r.key /\ q.state = "failed"
  BY <1>2 DEF FetchRecord, States
<1> HIDE DEF q
<1>4. PageOK(q, rows[q.key], panel.order)
  BY <1>3 DEF PageOK
<1> QED BY <1>0, <1>1, <1>3, <1>4, OnePage

\* What a change of a list must leave to the requests that are under way.
PageKept(r, list, new, place, order) ==
    \A q \in FetchRecord :
        /\ OpenPage(r, list, order) /\ place > Len(r.got)
        /\ (Between(place, new, list, order) => ~(r.count >= 0 /\ r.size < 0))
        /\ q.begun = r.begun \cap ToSet(new) /\ q.got = r.got /\ q.size = r.size
        /\ q.count = r.count
        => OpenPage(q, new, order)

LEMMA ChangePages ==
    ASSUME PagesInv, LookupTypes', NEW key \in Keys, NEW list \in Seq(Nat), NEW place \in Nat,
           Change(key, list, place),
           ListFine(list, FirstRows + changes'),
           \A f \in Fetches : PageKept(fetches[f], rows[key], list, place, panel.order),
           FirstRows \in Nat
    PROVE  PagesInv'
<1>1. /\ Paged /\ UNCHANGED panel /\ changes' = changes + 1
      /\ rows' = [rows EXCEPT ![key] = list] /\ fetches' = Shifted(key, list, place)
  BY DEF Change, asking
<1>2. rows \in [Keys -> Seq(Nat)] /\ changes \in Nat /\ fetches \in Seq(FetchRecord)
      /\ fetches' \in Seq(FetchRecord)
  BY DEF PagesInv, LookupTypes
<1>3. ASSUME NEW k \in Keys PROVE ListFine(rows'[k], FirstRows + changes')
  <2>1. CASE k = key
    BY <1>1, <1>2, <2>1
  <2>2. CASE k # key
    <3>1. ListFine(rows[k], FirstRows + changes) /\ rows'[k] = rows[k]
      BY <1>1, <1>2, <2>2 DEF PagesInv, Fine
    <3>2. \A i \in 1 .. Len(rows[k]) : rows[k][i] \in Nat /\ rows[k][i] <= FirstRows + changes
      BY <1>2, <3>1 DEF ListFine
    <3>3. \A i \in 1 .. Len(rows[k]) : rows[k][i] <= FirstRows + changes'
      BY <1>1, <1>2, <3>2
    <3> QED BY <3>1, <3>3 DEF ListFine
  <2> QED BY <2>1, <2>2
<1>4. Fine'
  BY <1>3 DEF Fine
<1>5. Fetches = 1 .. Len(fetches) /\ Fetches' = Fetches
  <2>1. Len(fetches') = Len(fetches)
    BY <1>1, ShiftedDoes DEF PagesInv
  <2> QED BY <1>2, <2>1 DEF Fetches
<1>6. ASSUME NEW f \in Fetches PROVE PageOK(fetches'[f], rows'[fetches'[f].key], panel.order)
  <2> DEFINE r == fetches[f]
             q == fetches'[f]
  <2>1. /\ q.key = r.key /\ q.state = r.state /\ q.got = r.got /\ q.count = r.count
        /\ q.size = r.size
        /\ r.state = "open" /\ r.key = key =>
               /\ q.begun = r.begun \cap ToSet(list)
               /\ ~q.shifted => /\ ~r.shifted /\ place > Len(r.got)
                                /\ Between(place, list, rows[key], panel.order)
                                      => ~(r.count >= 0 /\ r.size < 0)
        /\ ~(r.state = "open" /\ r.key = key) => q = r
    BY <1>1, ShiftedDoes DEF PagesInv, Open
  <2>2. /\ r \in FetchRecord /\ q \in FetchRecord /\ PageOK(r, rows[r.key], panel.order)
        /\ PageKept(r, rows[key], list, place, panel.order)
    <3>1. fetches[f] \in FetchRecord /\ fetches'[f] \in FetchRecord
      <4>1. Len(fetches') = Len(fetches)
        BY <1>1, ShiftedDoes DEF PagesInv
      <4>2. f \in 1 .. Len(fetches)
        BY <1>5, <1>6
      <4> QED BY <1>2, <4>1, <4>2
    <3>2. PageOK(r, rows[r.key], panel.order)
      BY <1>1, <1>6 DEF PagesInv, Paging
    <3>3. PageKept(r, rows[key], list, place, panel.order)
      OBVIOUS
    <3> QED BY <3>1, <3>2, <3>3
  <2>3. r.key \in Keys
    BY <2>2 DEF FetchRecord
  <2> HIDE DEF r, q
  <2>4. CASE r.state = "open" /\ r.key = key
    <3>1. rows'[q.key] = list
      BY <1>1, <1>2, <2>1, <2>4
    <3> SUFFICES ASSUME ~q.shifted PROVE OpenPage(q, list, panel.order)
      BY <2>1, <2>4, <3>1 DEF PageOK, q
    <3>2. OpenPage(r, rows[key], panel.order)
      BY <2>1, <2>2, <2>4 DEF PageOK
    <3> QED BY <2>1, <2>2, <2>4, <3>2 DEF PageKept
  <2>5. CASE r.state = "open" /\ r.key # key
    BY <1>1, <1>2, <2>1, <2>2, <2>3, <2>5 DEF q
  <2>6. CASE r.state # "open"
    BY <2>1, <2>2, <2>6 DEF PageOK, q
  <2> QED BY <2>4, <2>5, <2>6
<1>7. Paging'
  BY <1>1, <1>5, <1>6 DEF Paging
<1> QED BY <1>4, <1>7 DEF PagesInv

LEMMA InsertPages ==
    ASSUME LookupsAssumption, PagesInv, LookupTypes', NEW key \in Keys, Insert(key)
    PROVE  PagesInv'
<1> DEFINE s == rows[key]
           e == FirstRows + changes + 1
<1>1. s \in Seq(Nat) /\ Len(s) \in Nat /\ e \in Nat /\ changes \in Nat /\ FirstRows \in Nat
  BY DEF PagesInv, LookupTypes, LookupsAssumption
<1>2. PICK p \in 1 .. Len(s) + 1 : Change(key, InsertAt(s, p, e), p)
  BY DEF Insert
<1> DEFINE new == InsertAt(s, p, e)
<1>3. Paged /\ changes' = changes + 1 /\ p \in 1 .. Len(s) + 1
  BY <1>1, <1>2 DEF Change
<1>4. ListFine(s, FirstRows + changes)
  BY <1>3 DEF PagesInv, Fine
<1>5. IsInserted(new, s, p, e)
  BY <1>1, <1>3, InsertedIs
<1>6. Change(key, new, p) /\ e = FirstRows + changes + 1 /\ s = rows[key]
  BY <1>2
<1> HIDE DEF new, s, e
<1>7. ListFine(new, FirstRows + changes')
  <2>0. FirstRows + changes' = e /\ \A i \in 1 .. Len(s) : s[i] < e /\ s[i] \in Nat
    BY <1>1, <1>3, <1>4, <1>6 DEF ListFine
  <2>1. \A i, j \in 1 .. Len(s) : s[i] = s[j] => i = j
    BY <1>1, <1>4 DEF ListFine, IsInjective
  <2>2. /\ new \in Seq(Nat) /\ Len(new) = Len(s) + 1
        /\ \A i \in 1 .. Len(s) + 1 : new[i] = IF i < p THEN s[i] ELSE IF i = p THEN e ELSE s[i - 1]
    BY <1>5 DEF IsInserted
  <2>3. ASSUME NEW i \in 1 .. Len(s) + 1
        PROVE  /\ i < p => i \in 1 .. Len(s) /\ new[i] = s[i] /\ new[i] < e
               /\ i = p => new[i] = e
               /\ i > p => i - 1 \in 1 .. Len(s) /\ new[i] = s[i - 1] /\ new[i] < e
    BY <1>1, <1>3, <2>0, <2>2, SMTT(30)
  <2>4. \A i \in 1 .. Len(s) + 1 : new[i] <= e
    BY <1>1, <1>3, <2>3, SMTT(30)
  <2>5. ASSUME NEW i \in 1 .. Len(s) + 1, NEW j \in 1 .. Len(s) + 1, new[i] = new[j] PROVE i = j
    <3>1. CASE i < p /\ j < p
      BY <2>1, <2>3, <2>5, <3>1
    <3>2. CASE i > p /\ j > p
      <4>1. i - 1 = j - 1
        BY <2>1, <2>3, <2>5, <3>2
      <4> QED BY <4>1
    <3>3. CASE i < p /\ j > p
      <4>1. i = j - 1
        BY <2>1, <2>3, <2>5, <3>3
      <4> QED BY <1>3, <3>3, <4>1
    <3>4. CASE i > p /\ j < p
      <4>1. i - 1 = j
        BY <2>1, <2>3, <2>5, <3>4
      <4> QED BY <1>3, <3>4, <4>1
    <3>5. CASE i = p \/ j = p
      BY <1>1, <1>3, <2>3, <2>5, <3>5
    <3> QED BY <1>3, <3>1, <3>2, <3>3, <3>4, <3>5
  <2>6. DOMAIN new = 1 .. Len(s) + 1
    BY <2>2
  <2> QED BY <2>0, <2>2, <2>4, <2>5, <2>6 DEF ListFine, IsInjective
<1>8. ASSUME NEW f \in Fetches PROVE PageKept(fetches[f], s, new, p, panel.order)
  <2>1. fetches[f] \in FetchRecord
    BY DEF PagesInv, LookupTypes, Fetches
  <2>2. Len(new) = Len(s) + 1
    BY <1>5 DEF IsInserted
  <2>3. \A order : p < Len(s) + 1 \/ order = "activity" <=> Between(p, new, s, order)
    BY <1>1, <2>2 DEF Between
  <2> QED BY <1>1, <1>3, <1>5, <2>1, <2>2, <2>3, InsertPage DEF PageKept
<1>9. new \in Seq(Nat) /\ p \in Nat
  BY <1>3, <1>5 DEF IsInserted
<1> QED BY <1>1, <1>6, <1>7, <1>8, <1>9, ChangePages

LEMMA DeletePages ==
    ASSUME LookupsAssumption, PagesInv, LookupTypes', NEW key \in Keys, Delete(key)
    PROVE  PagesInv'
<1> DEFINE s == rows[key]
<1>1. /\ s \in Seq(Nat) /\ Len(s) \in Nat /\ DOMAIN s = 1 .. Len(s) /\ changes \in Nat
      /\ FirstRows \in Nat
  BY DEF PagesInv, LookupTypes, LookupsAssumption
<1>2. PICK p \in 1 .. Len(s) : Change(key, RemoveAt(s, p), p)
  BY <1>1 DEF Delete
<1> DEFINE new == RemoveAt(s, p)
<1>3. Paged /\ changes' = changes + 1
  BY <1>2 DEF Change
<1>4. ListFine(s, FirstRows + changes)
  BY <1>3 DEF PagesInv, Fine
<1>5. IsRemoved(new, s, p)
  BY <1>1, <1>2, Removed, Zenon DEF IsRemoved
<1>6. Change(key, new, p) /\ s = rows[key]
  BY <1>2
<1> HIDE DEF new, s
<1>7. ListFine(new, FirstRows + changes')
  <2>0. \A i \in 1 .. Len(s) : s[i] <= FirstRows + changes' /\ s[i] \in Nat
    BY <1>1, <1>3, <1>4 DEF ListFine
  <2>1. \A i, j \in 1 .. Len(s) : s[i] = s[j] => i = j
    BY <1>1, <1>4 DEF ListFine, IsInjective
  <2>2. /\ new \in Seq(Nat) /\ Len(new) = Len(s) - 1
        /\ \A i \in 1 .. Len(s) - 1 : new[i] = IF i < p THEN s[i] ELSE s[i + 1]
    BY <1>5 DEF IsRemoved
  <2>3. ASSUME NEW i \in 1 .. Len(s) - 1
        PROVE  /\ i < p => i \in 1 .. Len(s) /\ new[i] = s[i]
               /\ i >= p => i + 1 \in 1 .. Len(s) /\ new[i] = s[i + 1]
    <3>1. i \in 1 .. Len(s) /\ i + 1 \in 1 .. Len(s)
      BY <1>1
    <3>2. i < p => ~(i >= p)
      OBVIOUS
    <3>3. new[i] = IF i < p THEN s[i] ELSE s[i + 1]
      BY <2>2
    <3> QED BY <3>1, <3>2, <3>3
  <2>4. \A i \in 1 .. Len(s) - 1 : new[i] <= FirstRows + changes'
    BY <2>0, <2>3
  <2>5. ASSUME NEW i \in 1 .. Len(s) - 1, NEW j \in 1 .. Len(s) - 1, new[i] = new[j] PROVE i = j
    <3>1. CASE i < p /\ j < p
      BY <2>1, <2>3, <2>5, <3>1
    <3>2. CASE i >= p /\ j >= p
      <4>1. i + 1 = j + 1
        BY <2>1, <2>3, <2>5, <3>2
      <4> QED BY <4>1
    <3>3. CASE i < p /\ j >= p
      <4>1. i = j + 1
        BY <2>1, <2>3, <2>5, <3>3
      <4> QED BY <3>3, <4>1
    <3>4. CASE i >= p /\ j < p
      <4>1. i + 1 = j
        BY <2>1, <2>3, <2>5, <3>4
      <4> QED BY <3>4, <4>1
    <3> QED BY <3>1, <3>2, <3>3, <3>4
  <2>6. DOMAIN new = 1 .. Len(s) - 1
    BY <2>2
  <2> QED BY <2>2, <2>4, <2>5, <2>6 DEF ListFine, IsInjective
<1>8. ASSUME NEW f \in Fetches PROVE PageKept(fetches[f], s, new, p, panel.order)
  <2>1. fetches[f] \in FetchRecord
    BY DEF PagesInv, LookupTypes, Fetches
  <2>2. IsInjective(s)
    BY <1>4 DEF ListFine
  <2> QED BY <1>1, <1>5, <2>1, <2>2, DeletePage DEF PageKept
<1>9. new \in Seq(Nat) /\ p \in Nat
  BY <1>5 DEF IsRemoved
<1> QED BY <1>1, <1>6, <1>7, <1>8, <1>9, ChangePages

LEMMA RisePages ==
    ASSUME LookupsAssumption, PagesInv, LookupTypes', NEW key \in Keys, Rise(key)
    PROVE  PagesInv'
<1> DEFINE s == rows[key]
<1>1. s \in Seq(Nat) /\ Len(s) \in Nat /\ changes \in Nat /\ FirstRows \in Nat
  BY DEF PagesInv, LookupTypes, LookupsAssumption
<1>2. PICK p \in 2 .. Len(s) : panel.order = "activity" /\ Change(key, <<s[p]>> \o RemoveAt(s, p), 1)
  BY DEF Rise
<1> DEFINE new == <<s[p]>> \o RemoveAt(s, p)
<1>3. Paged /\ changes' = changes + 1
  BY <1>2 DEF Change
<1>4. ListFine(s, FirstRows + changes)
  BY <1>3 DEF PagesInv, Fine
<1>5. IsRisen(new, s, p)
  <2>1. p \in 1 .. Len(s)
    BY <1>1
  <2> QED BY <1>1, <2>1, Risen, Zenon DEF IsRisen
<1>6. Change(key, new, 1) /\ s = rows[key]
  BY <1>2
<1> HIDE DEF new, s
<1>7. ListFine(new, FirstRows + changes')
  <2>0. \A i \in 1 .. Len(s) : s[i] <= FirstRows + changes' /\ s[i] \in Nat
    BY <1>1, <1>3, <1>4 DEF ListFine
  <2>1. \A i, j \in 1 .. Len(s) : s[i] = s[j] => i = j
    BY <1>1, <1>4 DEF ListFine, IsInjective
  <2>2. /\ new \in Seq(Nat) /\ Len(new) = Len(s)
        /\ \A i \in 1 .. Len(s) : new[i] = IF i = 1 THEN s[p] ELSE IF i <= p THEN s[i - 1] ELSE s[i]
    BY <1>5 DEF IsRisen
  <2> DEFINE from(i) == IF i = 1 THEN p ELSE IF i <= p THEN i - 1 ELSE i
  <2>3. ASSUME NEW i \in 1 .. Len(s) PROVE from(i) \in 1 .. Len(s) /\ new[i] = s[from(i)]
    BY <1>1, <2>2
  <2>4. \A i \in 1 .. Len(s) : new[i] <= FirstRows + changes'
    <3> HIDE DEF from
    <3> QED BY <2>0, <2>3
  <2>5. ASSUME NEW i \in 1 .. Len(s), NEW j \in 1 .. Len(s), new[i] = new[j] PROVE i = j
    <3>1. from(i) = from(j)
      <4> HIDE DEF from
      <4> QED BY <2>1, <2>3, <2>5
    <3> QED BY <3>1
  <2>6. DOMAIN new = 1 .. Len(s)
    BY <2>2
  <2> QED BY <2>2, <2>4, <2>5, <2>6 DEF ListFine, IsInjective
<1>8. ASSUME NEW f \in Fetches PROVE PageKept(fetches[f], s, new, 1, panel.order)
  <2>1. fetches[f] \in FetchRecord
    BY DEF PagesInv, LookupTypes, Fetches
  <2>2. new \in Seq(Nat) /\ Len(new) = Len(s)
    BY <1>5 DEF IsRisen
  <2> QED BY <1>1, <1>2, <2>1, <2>2, RisePage DEF PageKept
<1>9. new \in Seq(Nat) /\ 1 \in Nat
  BY <1>5 DEF IsRisen
<1> QED BY <1>1, <1>6, <1>7, <1>8, <1>9, ChangePages

\* Every step keeps what is known of the pages.
LEMMA PagesStep == LookupsAssumption /\ ShownInv /\ ShownInv' /\ PagesInv /\ [Next]_vars
=> PagesInv'
<1> SUFFICES ASSUME LookupsAssumption, LookupTypes', PagesInv, [Next]_vars PROVE PagesInv'
  BY DEF ShownInv
<1>1. CASE Search
  <2>1. timer \in Keys /\ Asked(timer) /\ UNCHANGED <<panel, rows, changes>>
    BY <1>1 DEF Search, PagesInv, LookupTypes
  <2> QED BY <2>1, AskedPages
<1>2. ASSUME UNCHANGED <<panel, fetches, rows, changes>> PROVE PagesInv'
  BY <1>2 DEF PagesInv, Fine, Paging, Paged, Fetches
<1>3. CASE Leave
  BY <1>2, <1>3 DEF Leave
<1>4. ASSUME NEW key \in Keys, Want(key) PROVE PagesInv'
  BY <1>2, <1>4, AskedPages DEF Want
<1>5. ASSUME NEW key \in Keys, Focus(key) PROVE PagesInv'
  BY <1>2, <1>5, AskedPages DEF Focus
<1>6. ASSUME NEW key \in Keys, Insert(key) \/ Delete(key) \/ Rise(key) PROVE PagesInv'
  BY <1>6, InsertPages, DeletePages, RisePages
<1>7. ASSUME NEW f \in Fetches, Count(f) \/ Read(f) \/ Answer(f) \/ Fail(f) PROVE PagesInv'
  BY <1>7, CountPages, ReadPages, AnswerPages, FailPages
<1>8. CASE UNCHANGED vars
  BY <1>2, <1>8 DEF vars, asking
<1> QED BY <1>1, <1>3, <1>4, <1>5, <1>6, <1>7, <1>8 DEF Next

\* What is known of the pages is enough.
LEMMA PagesMean == PagesInv => PagesComplete
BY DEF PagesInv, Paging, PageOK, PagesComplete

\* Throughout, the pages that came are a prefix of the list, and the rows that were there all
\* along are within the total, for every request that no change has shifted.
THEOREM PagesInvariance == Spec => []PagesInv
<1>1. Init => PagesInv
  BY PagesStart, LookupsAssumption
<1>2. ShownInv /\ ShownInv' /\ PagesInv /\ [Next]_vars => PagesInv'
  BY PagesStep, LookupsAssumption
<1> QED BY <1>1, <1>2, ShownInvariance, PTL DEF Spec

\* A list fetched page by page, in pages of any size, holds each row that was there all along
\* exactly once, but where a row came, went or moved before the place it had reached, or came
\* between a page's two statements, or rows of the same created_at changed places on a page
\* (fetchAllPages of api/client.js over the routes' LIMIT and OFFSET).
THEOREM ListsComplete == Spec => []PagesComplete
<1>1. PagesInv => PagesComplete
  BY PagesMean
<1> QED BY <1>1, PagesInvariance, PTL

------------------------------------------------------------------------------
RequestOK(r) ==
    /\ r = Saw(r.op, r.of, r.at, r.list)
    /\ r.op = "createWorkspace" => r.of \in Workspaces
    /\ r.op \in {"listWorkspaces", "leaveWorkspace"} => r.list \in Seq(Workspaces)
    /\ r.op = "listWorkspaces" => FirstList = <<>> \/ Len(r.list) < Len(FirstList)

RequestsOK == \A r \in awaited : RequestOK(r)

ListOK == workspaces \in Seq(Workspaces)

PageIsHere == \A r \in awaited : r.op = "listChannels" => r.of = workspace

ThreadIsHere == thread # Nowhere => channel = thread \/ (channel = Nowhere /\ "orphan" \in odd)
RepliesAreHere == thread # Nowhere /\ ~Awaits("listReplies")
=> replies = thread \/ "replies" \in odd
RowsAreHere == workspace # Nowhere /\ ~Awaits("listChannels") =>
                   \A room \in channels : HomeOf[room] = workspace \/ "rows" \in odd
EntityIsHere == entity # Nowhere => entity = workspace \/ "entity" \in odd
NotStrange == workspace \in ToSet(workspaces) => org = Nowhere \/ OrgOf[workspace] = org

ShellInv ==
    /\ RequestsOK /\ ListOK /\ PageIsHere
    /\ ThreadIsHere /\ RepliesAreHere /\ RowsAreHere /\ EntityIsHere /\ NotStrange

\* At the start nothing is selected.
LEMMA ShellStart == ShellInit => ShellInv
BY DEF ShellInit, ShellInv, RequestsOK, RequestOK, ListOK, PageIsHere, ThreadIsHere,
   RepliesAreHere,
       RowsAreHere, EntityIsHere, NotStrange, ToSet, Awaited, Saw

\* What a handler may make of the selection.
FitThread(s, marks, requests) ==
    /\ s.thread # Nowhere =>
           s.channel = s.thread
           \/ (s.channel = Nowhere /\ "orphan" \in marks /\ s.thread = thread)
    /\ s.thread # Nowhere => s.thread = thread \/ \E r \in requests : r.op = "listReplies"
Fit(s, marks, requests) ==
    /\ FitThread(s, marks, requests)
    /\ s.entity \in {entity, Nowhere}
    /\ s.list \in Seq(Workspaces)

\* What it may leave awaited.
FitRequests(requests) ==
    /\ \A r \in requests : RequestOK(r) /\ (r.op = "listChannels" => r.of = workspace)
    /\ \A r \in awaited : r.op \in {"listReplies", "listChannels"} => r \in requests

FitRows(marks, listed) ==
    /\ odd \subseteq marks
    /\ workspace # Nowhere /\ ~Awaits("listChannels") =>
           \A room \in listed : HomeOf[room] = workspace \/ "rows" \in marks

\* A handler that ends in a render: what it sets, what it drops and what it asks for fit
\* together, and so do the effects of the render.
LEMMA Rendered ==
    ASSUME ShellAssumption, ShellInv, NEW s, NEW requests, NEW marks,
           RenderWith(s, requests, marks),
           replies' = replies, Fit(s, marks, requests), FitRequests(requests),
           FitRows(marks, channels')
    PROVE  ShellInv'
<1> DEFINE then == IF Strange(s) THEN Nowhere ELSE s.workspace
           moved == s.workspace # workspace \/ then # workspace
           now == IF ~moved THEN requests
                  ELSE Cancelled(requests) \cup
                       (IF then = Nowhere THEN {} ELSE {Awaited("listChannels", then)})
<1>1. /\ org' = s.org /\ workspace' = then
      /\ channel' = IF Strange(s) THEN Nowhere ELSE s.channel
      /\ thread' = s.thread /\ workspaces' = s.list
      /\ entity' = IF moved THEN Nowhere ELSE s.entity
      /\ awaited' = now
      /\ odd' = (IF s.thread = thread /\ thread # Nowhere THEN marks ELSE marks \ {"orphan"})
                \cup (IF Strange(s) /\ s.thread # Nowhere THEN {"orphan"} ELSE {})
  BY DEF RenderWith
<1>2. \A m : m # "orphan" /\ m \in marks => m \in odd'
  BY <1>1
<1>3. moved \/ (workspace' = workspace /\ ~Strange(s))
  <2>1. \A w \in ToSet(s.list) : w \in Workspaces
    BY DEF Fit, ToSet
  <2> QED BY <1>1, <2>1 DEF Strange, ShellAssumption
<1>4. /\ moved => \A r \in awaited' : \/ r \in requests /\ r.op # "listChannels"
                                      \/ workspace' # Nowhere /\ r = Awaited("listChannels", workspace')
      /\ moved /\ workspace' # Nowhere => Awaited("listChannels", workspace') \in awaited'
      /\ ~moved => awaited' = requests
      /\ \A r \in requests : r.op = "listReplies" => r \in awaited'
  BY <1>1 DEF Cancelled
<1> HIDE DEF now
<1>5. RequestsOK' /\ PageIsHere'
  <2> SUFFICES ASSUME NEW r \in awaited' PROVE RequestOK(r) /\ (r.op = "listChannels" => r.of = workspace')
    BY DEF RequestsOK, PageIsHere, RequestOK
  <2>1. CASE r \in requests /\ ~moved
    BY <2>1, <1>3 DEF FitRequests
  <2>2. CASE r \in requests /\ r.op # "listChannels"
    BY <2>2 DEF FitRequests
  <2>3. CASE r = Awaited("listChannels", workspace')
    BY <2>3 DEF RequestOK, Awaited, Saw
  <2> QED BY <1>4, <2>1, <2>2, <2>3
<1>6. ListOK'
  BY <1>1 DEF ListOK, Fit
<1>7. ThreadIsHere'
  <2> SUFFICES ASSUME thread' # Nowhere PROVE channel' = thread'
                      \/ (channel' = Nowhere /\ "orphan" \in odd')
    BY DEF ThreadIsHere
  <2>1. CASE Strange(s)
    BY <1>1, <2>1
  <2>2. CASE ~Strange(s)
    BY <1>1, <2>2 DEF Fit, FitThread
  <2> QED BY <2>1, <2>2
<1>8. RepliesAreHere'
  <2> SUFFICES ASSUME thread' # Nowhere,
                      ~Awaits("listReplies")' PROVE replies = thread' \/ "replies" \in odd'
    BY DEF RepliesAreHere
  <2>1. ~\E r \in requests : r.op = "listReplies"
    BY <1>4 DEF Awaits
  <2>2. thread' = thread
    BY <1>1, <2>1 DEF Fit, FitThread
  <2>3. ~Awaits("listReplies")
    BY <2>1 DEF Awaits, FitRequests
  <2> QED BY <1>2, <2>2, <2>3 DEF ShellInv, RepliesAreHere, FitRows
<1>9. RowsAreHere'
  <2> SUFFICES ASSUME workspace' # Nowhere, ~Awaits("listChannels")', NEW room \in channels'
               PROVE  HomeOf[room] = workspace' \/ "rows" \in odd'
    BY DEF RowsAreHere
  <2>1. ~moved
    BY <1>4 DEF Awaits, Awaited, Saw
  <2>2. ~Awaits("listChannels") /\ workspace' = workspace
    BY <1>3, <1>4, <2>1 DEF Awaits, FitRequests
  <2> QED BY <1>2, <2>2 DEF FitRows
<1>10. EntityIsHere'
  BY <1>1, <1>2, <1>3 DEF EntityIsHere, ShellInv, Fit, FitRows
<1>11. NotStrange'
  <2>1. CASE Strange(s)
    <3>1. \A w \in ToSet(s.list) : w \in Workspaces
      BY DEF Fit, ToSet
    <3> QED BY <1>1, <2>1, <3>1 DEF NotStrange, ShellAssumption
  <2>2. CASE ~Strange(s)
    BY <1>1, <2>2 DEF NotStrange, Strange
  <2> QED BY <2>1, <2>2
<1> QED BY <1>5, <1>6, <1>7, <1>8, <1>9, <1>10, <1>11 DEF ShellInv

LEMMA HereFields ==
    /\ Here.org = org /\ Here.workspace = workspace /\ Here.channel = channel
    /\ Here.thread = thread /\ Here.entity = entity /\ Here.list = workspaces
    /\ Here = [org |-> org, workspace |-> workspace, channel |-> channel, thread |-> thread,
               entity |-> entity, list |-> workspaces]
BY DEF Here

\* The requests under way with one more, or without one that is answered.
LEMMA MoreAwaited ==
    ASSUME ShellInv, NEW r, RequestOK(r), r.op # "listChannels"
    PROVE  FitRequests(awaited \cup {r}) /\ FitRequests(awaited)
BY DEF FitRequests, ShellInv, RequestsOK, PageIsHere

LEMMA OneAnswered ==
    ASSUME ShellInv, NEW r \in awaited, r.op \notin {"listReplies", "listChannels"}
    PROVE  FitRequests(Rest(r))
BY DEF FitRequests, ShellInv, RequestsOK, PageIsHere, Rest

LEMMA RowsStay ==
    ASSUME ShellInv, NEW marks, odd \subseteq marks, NEW listed \in SUBSET channels
    PROVE  FitRows(marks, listed)
BY DEF FitRows, ShellInv, RowsAreHere

\* A handler that leaves channel and thread alone, or chooses a channel.
LEMMA SameThread ==
    ASSUME ShellInv, NEW s, s.thread = thread, s.channel = channel,
           s.entity \in {entity, Nowhere},
           s.list \in Seq(Workspaces), NEW requests, NEW marks, odd \subseteq marks
    PROVE  Fit(s, marks, requests)
BY DEF Fit, FitThread, ShellInv, ThreadIsHere

LEMMA NoThread ==
    ASSUME NEW s, s.thread = Nowhere, s.entity \in {entity, Nowhere},
           s.list \in Seq(Workspaces),
           NEW requests, NEW marks
    PROVE  Fit(s, marks, requests)
BY DEF Fit, FitThread

LEMMA AnyAwaited == ASSUME ShellInv PROVE FitRequests(awaited)
BY DEF FitRequests, ShellInv, RequestsOK, PageIsHere

LEMMA SelectOrganizationKeeps ==
    ASSUME ShellAssumption, ShellInv, NEW o, SelectOrganization(o)
    PROVE  ShellInv'
<1> DEFINE s == [Here EXCEPT !.org = o]
<1>1. /\ s.thread = thread /\ s.channel = channel /\ s.entity = entity /\ s.list = workspaces
  BY HereFields
<1>2. RenderWith(s, awaited, odd) /\ replies' = replies /\ channels' = channels
  BY DEF SelectOrganization, Render
<1> HIDE DEF s
<1>3. Fit(s, odd, awaited)
  BY <1>1, SameThread DEF ShellInv, ListOK
<1>4. FitRows(odd, channels')
  BY <1>2, RowsStay
<1> QED BY <1>2, <1>3, <1>4, AnyAwaited, Rendered

LEMMA SelectWorkspaceKeeps ==
    ASSUME ShellAssumption, ShellInv, NEW w, SelectWorkspace(w)
    PROVE  ShellInv'
<1> DEFINE s == IF w = workspace THEN Choosing(Here, Nowhere) ELSE [Here EXCEPT !.workspace = w]
<1>1. /\ s.thread = Nowhere \/ (s.thread = thread /\ s.channel = channel)
      /\ s.entity = entity /\ s.list = workspaces
  BY HereFields DEF Choosing
<1>2. RenderWith(s, awaited, odd) /\ replies' = replies /\ channels' = channels
  BY DEF SelectWorkspace, Render
<1> HIDE DEF s
<1>3. Fit(s, odd, awaited)
  BY <1>1, SameThread, NoThread DEF ShellInv, ListOK
<1>4. FitRows(odd, channels')
  BY <1>2, RowsStay
<1> QED BY <1>2, <1>3, <1>4, AnyAwaited, Rendered

LEMMA SelectChannelKeeps ==
    ASSUME ShellAssumption, ShellInv, NEW room, SelectChannel(room)
    PROVE  ShellInv'
<1> DEFINE s == Choosing(Here, room)
<1>1. s.thread = Nowhere /\ s.entity = entity /\ s.list = workspaces
  BY HereFields DEF Choosing
<1>2. RenderWith(s, awaited, odd) /\ replies' = replies /\ channels' = channels
  BY DEF SelectChannel, Render
<1> HIDE DEF s
<1>3. Fit(s, odd, awaited)
  BY <1>1, NoThread DEF ShellInv, ListOK
<1>4. FitRows(odd, channels')
  BY <1>2, RowsStay
<1> QED BY <1>2, <1>3, <1>4, AnyAwaited, Rendered

LEMMA AskingReplies ==
    ASSUME NEW of
    PROVE  LET r == Awaited("listReplies", of) IN
           RequestOK(r) /\ r.op = "listReplies"
BY DEF RequestOK, Awaited, Saw

LEMMA OpenThreadKeeps ==
    ASSUME ShellAssumption, ShellInv, OpenThread
    PROVE  ShellInv'
<1> DEFINE s == [Here EXCEPT !.thread = channel]
           r == Awaited("listReplies", channel)
           requests == awaited \cup {r}
<1>1. s.thread = channel /\ s.channel = channel /\ s.entity = entity /\ s.list = workspaces
  BY HereFields
<1>2. RenderWith(s, requests, odd) /\ replies' = replies /\ channels' = channels
  BY DEF OpenThread, Render
<1> HIDE DEF s
<1>3. RequestOK(r) /\ r.op = "listReplies"
  BY AskingReplies
<1> HIDE DEF r
<1>4. FitRequests(requests)
  BY <1>3, MoreAwaited
<1>5. Fit(s, odd, requests)
  BY <1>1, <1>3 DEF Fit, FitThread, ShellInv, ListOK
<1>6. FitRows(odd, channels')
  BY <1>2, RowsStay
<1> HIDE DEF requests
<1> QED BY <1>2, <1>4, <1>5, <1>6, Rendered

LEMMA CloseThreadKeeps ==
    ASSUME ShellAssumption, ShellInv, CloseThread
    PROVE  ShellInv'
<1> DEFINE s == [Here EXCEPT !.thread = Nowhere]
<1>1. s.thread = Nowhere /\ s.entity = entity /\ s.list = workspaces
  BY HereFields
<1>2. RenderWith(s, awaited, odd) /\ replies' = replies /\ channels' = channels
  BY DEF CloseThread, Render
<1> HIDE DEF s
<1>3. Fit(s, odd, awaited)
  BY <1>1, NoThread DEF ShellInv, ListOK
<1>4. FitRows(odd, channels')
  BY <1>2, RowsStay
<1> QED BY <1>2, <1>3, <1>4, AnyAwaited, Rendered

LEMMA NavigateKeeps ==
    ASSUME ShellAssumption, ShellInv, NEW room, NEW reply \in BOOLEAN, NEW context,
           Navigate(room, reply, context)
    PROVE  ShellInv'
<1> DEFINE there == IF HomeOf[room] = Nowhere THEN workspace ELSE HomeOf[room]
           chosen == [Choosing(Here, room) EXCEPT !.workspace = there,
                                                  !.entity = IF context THEN Nowhere ELSE @]
           s == IF reply THEN [chosen EXCEPT !.thread = room] ELSE chosen
           r == Awaited("listReplies", room)
           requests == IF reply THEN awaited \cup {r} ELSE awaited
<1>1. /\ s.thread = IF reply THEN room ELSE Nowhere
      /\ s.channel = room /\ s.entity \in {entity, Nowhere} /\ s.list = workspaces
  BY HereFields DEF Choosing
<1>2. RenderWith(s, requests, odd) /\ replies' = replies /\ channels' = channels
  BY DEF Navigate, Render
<1> HIDE DEF s
<1>3. RequestOK(r) /\ r.op = "listReplies"
  BY AskingReplies
<1> HIDE DEF r
<1>4. FitRequests(requests)
  BY <1>3, MoreAwaited, AnyAwaited
<1>5. Fit(s, odd, requests)
  BY <1>1, <1>3 DEF Fit, FitThread, ShellInv, ListOK
<1>6. FitRows(odd, channels')
  BY <1>2, RowsStay
<1> HIDE DEF requests
<1> QED BY <1>2, <1>4, <1>5, <1>6, Rendered

LEMMA OpenFromExplorerKeeps ==
    ASSUME ShellInv, OpenFromExplorer
    PROVE  ShellInv'
BY DEF OpenFromExplorer, lists, ShellInv, RequestsOK, RequestOK, ListOK, PageIsHere,
   ThreadIsHere,
       RepliesAreHere, RowsAreHere, EntityIsHere, NotStrange, Awaits, Saw

\* A click that shows nothing before it is answered.
LEMMA BeginKeeps ==
    ASSUME ShellInv, NEW r, RequestOK(r), r.op # "listChannels", Begin(r)
    PROVE  ShellInv'
<1>1. /\ awaited' = awaited \cup {r} /\ odd' = odd /\ replies' = replies
      /\ org' = org /\ workspace' = workspace /\ channel' = channel /\ thread' = thread
      /\ entity' = entity /\ workspaces' = workspaces /\ channels' = channels
  BY DEF Begin, selection, lists
<1>2. RequestsOK' /\ PageIsHere'
  BY <1>1 DEF ShellInv, RequestsOK, RequestOK, PageIsHere
<1>3. ListOK' /\ ThreadIsHere' /\ EntityIsHere' /\ NotStrange'
  BY <1>1 DEF ShellInv, ListOK, ThreadIsHere, EntityIsHere, NotStrange
<1>4. RepliesAreHere' /\ RowsAreHere'
  BY <1>1 DEF ShellInv, RepliesAreHere, RowsAreHere, Awaits
<1> QED BY <1>2, <1>3, <1>4 DEF ShellInv

LEMMA HandlerClickKeeps ==
    ASSUME ShellInv, HandlerClick
    PROVE  ShellInv'
<1>1. PICK r : RequestOK(r) /\ r.op # "listChannels" /\ Begin(r)
  <2>1. ASSUME NEW op, NEW of, NEW at, NEW list,
               op \notin {"createWorkspace", "listWorkspaces", "leaveWorkspace", "listChannels"},
               Begin(Saw(op, of, at, list))
        PROVE  \E r : RequestOK(r) /\ r.op # "listChannels" /\ Begin(r)
    <3> DEFINE r == Saw(op, of, at, list)
    <3>1. RequestOK(r) /\ r.op # "listChannels"
      BY <2>1 DEF RequestOK, Saw
    <3> HIDE DEF r
    <3>2. Begin(r)
      BY <2>1 DEF r
    <3> QED BY <3>1, <3>2
  <2>2. CASE Begin(Awaited("openEntity", workspace))
    BY <2>1, <2>2 DEF Awaited
  <2>3. ASSUME NEW w \in Workspaces, Begin(Awaited("createWorkspace", w))
        PROVE  \E r : RequestOK(r) /\ r.op # "listChannels" /\ Begin(r)
    <3> DEFINE r == Awaited("createWorkspace", w)
    <3>1. RequestOK(r) /\ r.op # "listChannels"
      BY DEF RequestOK, Awaited, Saw
    <3> HIDE DEF r
    <3>2. Begin(r)
      BY <2>3 DEF r
    <3> QED BY <3>1, <3>2
  <2>4. ASSUME NEW w, Begin(Saw("leaveWorkspace", w, workspace, workspaces))
        PROVE  \E r : RequestOK(r) /\ r.op # "listChannels" /\ Begin(r)
    <3> DEFINE r == Saw("leaveWorkspace", w, workspace, workspaces)
    <3>1. RequestOK(r) /\ r.op # "listChannels"
      BY DEF RequestOK, Saw, ShellInv, ListOK
    <3> HIDE DEF r
    <3>2. Begin(r)
      BY <2>4 DEF r
    <3> QED BY <3>1, <3>2
  <2>5. ASSUME NEW o, Begin(Awaited("createOrganization", o))
        PROVE  \E r : RequestOK(r) /\ r.op # "listChannels" /\ Begin(r)
    BY <2>1, <2>5 DEF Awaited
  <2>6. ASSUME NEW o, Begin(Saw("leaveOrganization", o, Nowhere, organizations))
        PROVE  \E r : RequestOK(r) /\ r.op # "listChannels" /\ Begin(r)
    BY <2>1, <2>6
  <2>7. ASSUME NEW room, NEW op \in {"createChannel", "joinChannel", "openDirect"},
               Begin(Awaited(op, room))
        PROVE  \E r : RequestOK(r) /\ r.op # "listChannels" /\ Begin(r)
    BY <2>1, <2>7 DEF Awaited
  <2>8. ASSUME NEW room, Begin(Saw("leaveChannel", room, channel, <<>>))
        PROVE  \E r : RequestOK(r) /\ r.op # "listChannels" /\ Begin(r)
    BY <2>1, <2>8
  <2> QED BY <2>2, <2>3, <2>4, <2>5, <2>6, <2>7, <2>8 DEF HandlerClick
<1> QED BY <1>1, BeginKeeps

LEMMA WorkspacesPageKeeps ==
    ASSUME ShellAssumption, ShellInv, NEW r \in awaited, WorkspacesPage(r)
    PROVE  ShellInv'
<1> DEFINE part == IF FirstList = <<>> THEN <<>> ELSE SubSeq(FirstList, 1, Len(r.list) + 1)
           s == [Here EXCEPT !.list = part, !.workspace = IF part = <<>> THEN @ ELSE Head(part)]
           more == [r EXCEPT !.list = part]
           requests == IF part = FirstList THEN Rest(r) ELSE Rest(r) \cup {more}
<1>1. /\ r.op = "listWorkspaces" /\ RequestOK(r)
      /\ RenderWith(s, requests, odd) /\ replies' = replies /\ channels' = channels
  BY DEF WorkspacesPage, ShellInv, RequestsOK, Render
<1>2. part \in Seq(Workspaces) /\ (part = FirstList \/ Len(part) < Len(FirstList))
  <2>1. Len(r.list) + 1 \in Nat /\ r.list \in Seq(Workspaces) /\ FirstList \in Seq(Workspaces)
    BY <1>1 DEF RequestOK, ShellAssumption
  <2>2. CASE FirstList = <<>>
    BY <2>2
  <2>3. CASE FirstList # <<>>
    <3>1. Len(r.list) + 1 <= Len(FirstList)
      BY <1>1, <2>1, <2>3 DEF RequestOK
    <3>2. part = SubSeq(FirstList, 1, Len(r.list) + 1)
      BY <2>3
    <3>3. part \in Seq(Workspaces) /\ Len(part) = Len(r.list) + 1
      BY <2>1, <3>1, <3>2, SubSeqProperties
    <3>4. Len(r.list) + 1 = Len(FirstList) => part = FirstList
      BY <2>1, <3>2, SubSeqFull
    <3> HIDE DEF part
    <3> QED BY <2>1, <3>1, <3>3, <3>4
  <2> QED BY <2>2, <2>3
<1> HIDE DEF part
<1>3. s.thread = thread /\ s.channel = channel /\ s.entity = entity /\ s.list = part
  BY HereFields
<1>4. more.op = "listWorkspaces" /\ (part # FirstList => RequestOK(more))
  <2>1. r = Saw(r.op, r.of, r.at, r.list)
    BY <1>1 DEF RequestOK
  <2>2. more = Saw(r.op, r.of, r.at, part)
    BY <2>1 DEF Saw
  <2> HIDE DEF more
  <2>3. more.op = r.op /\ more.of = r.of /\ more.at = r.at /\ more.list = part
    BY <2>2 DEF Saw
  <2> QED BY <1>1, <1>2, <2>2, <2>3 DEF RequestOK
<1> HIDE DEF s, more
<1>5. FitRequests(requests)
  <2>1. FitRequests(Rest(r))
    BY <1>1, OneAnswered
  <2> QED BY <1>4, <2>1 DEF FitRequests
<1>6. Fit(s, odd, requests)
  BY <1>2, <1>3, SameThread
<1>7. FitRows(odd, channels')
  BY <1>1, RowsStay
<1> HIDE DEF requests
<1> QED BY <1>1, <1>5, <1>6, <1>7, Rendered

LEMMA OrganizationsPageKeeps ==
    ASSUME ShellAssumption, ShellInv, NEW r \in awaited, OrganizationsPage(r)
    PROVE  ShellInv'
<1> DEFINE s == [Here EXCEPT !.org = IF org = Nowhere THEN First(FirstOrgs) ELSE org]
           requests == Rest(r)
<1>1. s.thread = thread /\ s.channel = channel /\ s.entity = entity /\ s.list = workspaces
  BY HereFields
<1>2. /\ RenderWith(s, requests, odd) /\ replies' = replies /\ channels' = channels
      /\ r.op = "listOrganizations"
  BY DEF OrganizationsPage, Render
<1> HIDE DEF s
<1>3. FitRequests(requests)
  BY <1>2, OneAnswered
<1>4. Fit(s, odd, requests)
  BY <1>1, SameThread DEF ShellInv, ListOK
<1>5. FitRows(odd, channels')
  BY <1>2, RowsStay
<1> HIDE DEF requests
<1> QED BY <1>2, <1>3, <1>4, <1>5, Rendered

\* What was asked for comes, or fails: nothing else is selected.
LEMMA ChannelsPageKeeps ==
    ASSUME ShellInv, NEW r \in awaited, ChannelsPage(r)
    PROVE  ShellInv'
<1>1. /\ r.op = "listChannels" /\ r.of = workspace
      /\ \A room \in channels' : HomeOf[room] = r.of
      /\ awaited' = awaited \ {r} /\ odd' = odd \ {"rows"} /\ replies' = replies
      /\ org' = org /\ workspace' = workspace /\ channel' = channel /\ thread' = thread
      /\ entity' = entity /\ workspaces' = workspaces
  BY DEF ChannelsPage, selection, Rest, ShellInv, PageIsHere
<1>2. RequestsOK' /\ PageIsHere'
  BY <1>1 DEF ShellInv, RequestsOK, RequestOK, PageIsHere
<1>3. ListOK' /\ ThreadIsHere' /\ EntityIsHere' /\ NotStrange'
  BY <1>1 DEF ShellInv, ListOK, ThreadIsHere, EntityIsHere, NotStrange
<1>4. RepliesAreHere' /\ RowsAreHere'
  BY <1>1 DEF ShellInv, RepliesAreHere, RowsAreHere, Awaits
<1> QED BY <1>2, <1>3, <1>4 DEF ShellInv

LEMMA RepliesPageKeeps ==
    ASSUME ShellInv, NEW r \in awaited, RepliesPage(r)
    PROVE  ShellInv'
<1>1. /\ r.op = "listReplies" /\ replies' = r.of
      /\ odd' = IF r.of = thread THEN odd \ {"replies"} ELSE odd \cup {"replies"}
      /\ awaited' = awaited \ {r}
      /\ org' = org /\ workspace' = workspace /\ channel' = channel /\ thread' = thread
      /\ entity' = entity /\ workspaces' = workspaces /\ channels' = channels
  BY DEF RepliesPage, selection, lists, Rest
<1>2. RequestsOK' /\ PageIsHere'
  BY <1>1 DEF ShellInv, RequestsOK, RequestOK, PageIsHere
<1>3. ListOK' /\ ThreadIsHere' /\ EntityIsHere' /\ NotStrange'
  BY <1>1 DEF ShellInv, ListOK, ThreadIsHere, EntityIsHere, NotStrange
<1>4. RepliesAreHere' /\ RowsAreHere'
  BY <1>1 DEF ShellInv, RepliesAreHere, RowsAreHere, Awaits
<1> QED BY <1>2, <1>3, <1>4 DEF ShellInv

LEMMA EntityOpenedKeeps ==
    ASSUME ShellInv, NEW r \in awaited, EntityOpened(r)
    PROVE  ShellInv'
<1>1. /\ r.op = "openEntity" /\ entity' = r.of
      /\ odd' = IF r.of = workspace THEN odd \ {"entity"} ELSE odd \cup {"entity"}
      /\ awaited' = awaited \ {r} /\ replies' = replies
      /\ org' = org /\ workspace' = workspace /\ channel' = channel /\ thread' = thread
      /\ workspaces' = workspaces /\ channels' = channels
  BY DEF EntityOpened, lists, Rest
<1>2. RequestsOK' /\ PageIsHere'
  BY <1>1 DEF ShellInv, RequestsOK, RequestOK, PageIsHere
<1>3. ListOK' /\ ThreadIsHere' /\ EntityIsHere' /\ NotStrange'
  BY <1>1 DEF ShellInv, ListOK, ThreadIsHere, EntityIsHere, NotStrange
<1>4. RepliesAreHere' /\ RowsAreHere'
  BY <1>1 DEF ShellInv, RepliesAreHere, RowsAreHere, Awaits
<1> QED BY <1>2, <1>3, <1>4 DEF ShellInv

LEMMA NotDoneKeeps ==
    ASSUME ShellInv, NEW r \in awaited, NotDone(r)
    PROVE  ShellInv'
<1>1. /\ odd \subseteq odd'
      /\ r.op = "listChannels" => "rows" \in odd'
      /\ r.op = "listReplies" => "replies" \in odd'
      /\ awaited' = awaited \ {r} /\ replies' = replies
      /\ org' = org /\ workspace' = workspace /\ channel' = channel /\ thread' = thread
      /\ entity' = entity /\ workspaces' = workspaces /\ channels' = channels
  BY DEF NotDone, selection, lists, Rest
<1>2. RequestsOK' /\ PageIsHere'
  BY <1>1 DEF ShellInv, RequestsOK, RequestOK, PageIsHere
<1>3. ListOK' /\ ThreadIsHere' /\ EntityIsHere' /\ NotStrange'
  BY <1>1 DEF ShellInv, ListOK, ThreadIsHere, EntityIsHere, NotStrange
<1>4. RepliesAreHere' /\ RowsAreHere'
  BY <1>1 DEF ShellInv, RepliesAreHere, RowsAreHere, Awaits
<1> QED BY <1>2, <1>3, <1>4 DEF ShellInv

LEMMA DoneKeeps ==
    ASSUME ShellAssumption, ShellInv, NEW r \in awaited, Done(r)
    PROVE  ShellInv'
<1> DEFINE s == Handled(r)
           marks == IF r.op = "createChannel" /\ HomeOf[r.of] # workspace THEN odd \cup {"rows"} ELSE odd
           requests == Rest(r)
<1>1. /\ r.op \in {"createWorkspace", "leaveWorkspace", "createOrganization", "leaveOrganization",
                   "createChannel", "joinChannel", "leaveChannel", "openDirect"}
      /\ RenderWith(s, requests, marks) /\ replies' = replies
  BY DEF Done
<1>2. FitRequests(requests)
  BY <1>1, OneAnswered
<1>3. FitRows(marks, channels')
  <2>1. channels' \in CASE r.op = "createChannel" -> {channels \cup {r.of}}
                        [] r.op = "leaveChannel" -> {channels, channels \ {r.of}}
                        [] OTHER -> {channels}
    BY DEF Done
  <2>2. CASE r.op = "createChannel"
    BY <2>1, <2>2 DEF FitRows, ShellInv, RowsAreHere
  <2>3. CASE r.op # "createChannel"
    <3>1. channels' \subseteq channels
      BY <2>1, <2>3
    <3> QED BY <2>3, <3>1, RowsStay
  <2> QED BY <2>2, <2>3
<1>4. Fit(s, marks, requests)
  <2>0. /\ odd \subseteq marks /\ workspaces \in Seq(Workspaces)
        /\ r.op = "createWorkspace" => r.of \in Workspaces
        /\ r.op = "leaveWorkspace" => r.list \in Seq(Workspaces)
    BY DEF ShellInv, ListOK, RequestsOK, RequestOK
  <2>1. CASE r.op = "createWorkspace"
    <3>1. /\ s.thread = thread /\ s.channel = channel /\ s.entity = entity
          /\ s.list = Append(workspaces, r.of)
      BY <2>1, HereFields DEF Handled
    <3>2. s.list \in Seq(Workspaces)
      BY <2>0, <2>1, <3>1, AppendProperties
    <3> HIDE DEF s
    <3> QED BY <2>0, <3>1, <3>2, SameThread
  <2>2. CASE r.op = "leaveWorkspace"
    <3>1. Without(r.list, r.of) \in Seq(Workspaces)
      BY <2>0, <2>2, WithoutKeeps
    <3>2. /\ s.thread = Nowhere \/ (s.thread = thread /\ s.channel = channel)
          /\ s.entity = entity /\ s.list = Without(r.list, r.of)
      BY <2>2, HereFields DEF Handled, Choosing
    <3> HIDE DEF s
    <3> QED BY <2>0, <3>1, <3>2, SameThread, NoThread
  <2>3. CASE r.op \in {"createOrganization", "leaveOrganization"}
    <3>1. s.thread = thread /\ s.channel = channel /\ s.entity = entity /\ s.list = workspaces
      BY <2>3, HereFields DEF Handled
    <3> HIDE DEF s
    <3> QED BY <2>0, <3>1, SameThread
  <2>4. CASE r.op \in {"createChannel", "joinChannel", "leaveChannel", "openDirect"}
    <3>1. /\ s.thread = Nowhere \/ (s.thread = thread /\ s.channel = channel)
          /\ s.entity = entity /\ s.list = workspaces
      BY <2>4, HereFields DEF Handled, Choosing
    <3> HIDE DEF s
    <3> QED BY <2>0, <3>1, SameThread, NoThread
  <2> QED BY <1>1, <2>1, <2>2, <2>3, <2>4
<1> HIDE DEF s, marks, requests
<1> QED BY <1>1, <1>2, <1>3, <1>4, Rendered

LEMMA ShellStep ==
    ASSUME ShellAssumption, ShellInv, [ShellNext]_shellVars
    PROVE  ShellInv'
<1>1. CASE UNCHANGED shellVars
  BY <1>1 DEF shellVars, selection, lists, ShellInv, RequestsOK, RequestOK, ListOK, PageIsHere,
     ThreadIsHere,
              RepliesAreHere, RowsAreHere, EntityIsHere, NotStrange, Awaits
<1>2. CASE OpenThread \/ CloseThread \/ OpenFromExplorer \/ HandlerClick
  BY <1>2, OpenThreadKeeps, CloseThreadKeeps, OpenFromExplorerKeeps, HandlerClickKeeps
<1>3. CASE \E o \in Organizations : SelectOrganization(o)
  BY <1>3, SelectOrganizationKeeps
<1>4. CASE \E w \in Workspaces : SelectWorkspace(w)
  BY <1>4, SelectWorkspaceKeeps
<1>5. CASE \E room \in Rooms : SelectChannel(room)
  BY <1>5, SelectChannelKeeps
<1>6. CASE \E room \in Rooms : \E reply, context \in BOOLEAN : Navigate(room, reply, context)
  BY <1>6, NavigateKeeps
<1>7. CASE \E r \in awaited : \/ WorkspacesPage(r) \/ OrganizationsPage(r) \/ ChannelsPage(r)
                              \/ RepliesPage(r) \/ EntityOpened(r) \/ Done(r) \/ NotDone(r)
  BY <1>7, WorkspacesPageKeeps, OrganizationsPageKeeps, ChannelsPageKeeps, RepliesPageKeeps,
     EntityOpenedKeeps, DoneKeeps, NotDoneKeeps
<1> QED BY <1>1, <1>2, <1>3, <1>4, <1>5, <1>6, <1>7 DEF ShellNext

\* Throughout, what is selected, what is shown and what is asked for belong together.
THEOREM ShellInvariance == ShellSpec => []ShellInv
<1>1. ShellInv /\ [ShellNext]_shellVars => ShellInv'
  BY ShellStep, ShellAssumption
<1> QED BY <1>1, ShellStart, PTL DEF ShellSpec

\* Thread, replies, channels and entity are of what is selected, and so is the workspace, however
\* late the answers come, but for what a handler brought after its workspace or thread was
\* left (ChatShell.jsx: its effects and its handlers).
THEOREM SelectionBelongs == ShellSpec => []OpenBelongs
<1>1. ShellInv => OpenBelongs
  BY HereFields DEF ShellInv, OpenBelongs, Strange, ThreadIsHere, RepliesAreHere, RowsAreHere,
                    EntityIsHere, NotStrange
<1> QED BY <1>1, ShellInvariance, PTL

------------------------------------------------------------------------------
(* The session: types of the requests, and what an answer says.               *)

Bearers == [of : People \cup {Nobody}, fresh : BOOLEAN]
Replies == {"none", "ok", "unauthorized", "declined", "failed"}
Plain == {"call", "stream"}
Operations == Switches \cup Renews \cup Tells \cup Plain
Issuing == {"login", "redeem", "change"} \cup Renews

Calls == [op : Operations, as : People \cup {Nobody}, again : BOOLEAN, token : Bearers,
          cookie : Int, answer : Replies, sets : Int]

\* What an answer says of the tokens h that were issued.
CallOK(f, h) ==
    /\ f.token.fresh => f.token.of \in People
    /\ f.op \in {"login", "redeem"} => f.as \in People
    /\ f.op = "me" => f.token.fresh
    /\ f.answer = "unauthorized" => f.op \notin {"me", "redeem", "logout"}
    /\ f.answer = "declined" => f.op \notin Renews \cup {"me"}
    /\ f.answer = "ok" /\ f.op \in Issuing => f.sets \in DOMAIN h /\ h[f.sets] = f.as
    /\ f.answer = "ok" /\ f.op = "logout" => f.sets = NoCookie
    /\ f.answer \in {"unauthorized", "failed"} /\ f.op \in Renews => f.sets = NoCookie

CallsOK(cs, h) == cs \in Seq(Calls) /\ \A k \in DOMAIN cs : CallOK(cs[k], h)

WaitingOK(ws, h) ==
    CallsOK(ws, h) /\ \A k \in DOMAIN ws : ws[k].answer = "unauthorized" /\ ws[k].op \notin Renews

SessionTypes ==
    /\ status \in {"loading", "anonymous", "authenticated"}
    /\ user \in People \cup {Nobody} /\ jar \in Int
    /\ bearer \in Bearers /\ (bearer.fresh => bearer.of \in People)
    /\ holder \in Seq(People) /\ valid \in SUBSET DOMAIN holder
    /\ CallsOK(calls, holder) /\ WaitingOK(waiting, holder)
    /\ waiting # <<>> => Underway("refresh")

LEMMA CallsGrow ==
    ASSUME NEW h \in Seq(People), NEW a \in People, NEW cs, CallsOK(cs, h)
    PROVE  CallsOK(cs, Append(h, a))
<1>1. /\ \A t \in DOMAIN h : t \in DOMAIN Append(h, a) /\ Append(h, a)[t] = h[t]
  OBVIOUS
<1> QED BY <1>1 DEF CallsOK, CallOK

LEMMA WaitingGrow ==
    ASSUME NEW h \in Seq(People), NEW a \in People, NEW ws, WaitingOK(ws, h)
    PROVE  WaitingOK(ws, Append(h, a))
BY CallsGrow DEF WaitingOK

LEMMA CallsAppend ==
    ASSUME NEW h, NEW cs, CallsOK(cs, h), NEW f \in Calls, CallOK(f, h)
    PROVE  CallsOK(Append(cs, f), h)
<1>1. Append(cs, f) \in Seq(Calls) /\ Len(Append(cs, f)) = Len(cs) + 1
  BY DEF CallsOK
<1>2. \A k \in DOMAIN Append(cs, f) : Append(cs, f)[k] = f \/ (k \in DOMAIN cs /\ Append(cs, f)[k] = cs[k])
  BY DEF CallsOK
<1> QED BY <1>1, <1>2 DEF CallsOK

\* Where a request stood before another was taken out at k, and where it stands then.
Stood(k, j) == IF j < k THEN j ELSE j + 1
Stands(k, i) == IF i < k THEN i ELSE i - 1

LEMMA PlacesLeft ==
    ASSUME NEW cs \in Seq(Calls), NEW k \in DOMAIN cs
    PROVE  /\ RemoveAt(cs, k) \in Seq(Calls)
           /\ \A j \in DOMAIN RemoveAt(cs, k) :
                 /\ Stood(k, j) \in DOMAIN cs \ {k} /\ RemoveAt(cs, k)[j] = cs[Stood(k, j)]
                 /\ Stands(k, Stood(k, j)) = j
           /\ \A i \in DOMAIN cs \ {k} :
                 Stands(k, i) \in DOMAIN RemoveAt(cs, k) /\ Stood(k, Stands(k, i)) = i
<1> DEFINE rest == RemoveAt(cs, k)
<1>1. k \in 1 .. Len(cs) /\ DOMAIN cs = 1 .. Len(cs) /\ Len(cs) \in Nat
  OBVIOUS
<1>2. /\ rest \in Seq(Calls) /\ Len(rest) = Len(cs) - 1
      /\ \A i \in 1 .. Len(cs) - 1 : rest[i] = IF i < k THEN cs[i] ELSE cs[i + 1]
  BY <1>1, Removed
<1> HIDE DEF rest
<1>3. DOMAIN rest = 1 .. Len(cs) - 1
  BY <1>2
<1>4. \A j \in DOMAIN rest :
         /\ Stood(k, j) \in DOMAIN cs \ {k} /\ rest[j] = cs[Stood(k, j)]
         /\ Stands(k, Stood(k, j)) = j
  BY <1>1, <1>2, <1>3 DEF Stood, Stands
<1>5. \A i \in DOMAIN cs \ {k} : Stands(k, i) \in DOMAIN rest /\ Stood(k, Stands(k, i)) = i
  BY <1>1, <1>3 DEF Stood, Stands
<1> QED BY <1>2, <1>4, <1>5 DEF rest

\* The requests without one of them.
LEMMA Remaining ==
    ASSUME NEW cs \in Seq(Calls), NEW k \in DOMAIN cs
    PROVE  /\ RemoveAt(cs, k) \in Seq(Calls)
           /\ \A j \in DOMAIN RemoveAt(cs, k) : \E i \in DOMAIN cs \ {k} : RemoveAt(cs, k)[j] = cs[i]
           /\ \A i \in DOMAIN cs \ {k} : \E j \in DOMAIN RemoveAt(cs, k) : RemoveAt(cs, k)[j] = cs[i]
BY PlacesLeft

LEMMA CallsRemain ==
    ASSUME NEW h, NEW cs, CallsOK(cs, h), NEW k \in DOMAIN cs
    PROVE  CallsOK(RemoveAt(cs, k), h)
BY Remaining DEF CallsOK

LEMMA RestIs ==
    ASSUME NEW cs \in Seq(Calls), NEW k \in DOMAIN cs, NEW f
    PROVE  Crossing(f, RemoveAt(cs, k)) <=>
             \E i \in DOMAIN cs \ {k} :
                \/ f.op \in Switches /\ cs[i].op \in Switches \cup Renews \cup Tells
                \/ f.op \in Renews \cup Tells /\ cs[i].op \in Switches
<1> DEFINE rest == RemoveAt(cs, k)
<1>1. /\ rest \in Seq(Calls)
      /\ \A j \in DOMAIN rest : \E i \in DOMAIN cs \ {k} : rest[j] = cs[i]
      /\ \A i \in DOMAIN cs \ {k} : \E j \in DOMAIN rest : rest[j] = cs[i]
  BY Remaining
<1> HIDE DEF rest
<1>2. ToSet(rest) = {rest[j] : j \in DOMAIN rest}
  BY DEF ToSet
<1>3. \A g : g \in ToSet(rest) <=> \E i \in DOMAIN cs \ {k} : g = cs[i]
  BY <1>1, <1>2
<1>4. Crossing(f, rest) <=> \E g \in ToSet(rest) :
                \/ f.op \in Switches /\ g.op \in Switches \cup Renews \cup Tells
                \/ f.op \in Renews \cup Tells /\ g.op \in Switches
  BY DEF Crossing
<1> QED BY <1>3, <1>4 DEF rest

\* The answer of a request, which leaves the others alone.
Replied(k, as, answer, sets) ==
    /\ calls' \in Seq(Calls) /\ DOMAIN calls' = DOMAIN calls
    /\ \A i \in DOMAIN calls \ {k} : calls'[i] = calls[i]
    /\ calls'[k].op = calls[k].op /\ calls'[k].token = calls[k].token
    /\ calls'[k].cookie = calls[k].cookie
    /\ calls'[k].as = as /\ calls'[k].answer = answer /\ calls'[k].sets = sets

Started(a, remaining) ==
    holder' = Append(holder, a) /\ valid' = remaining \cup {Len(holder) + 1}

LEMMA AnsweredIs ==
    ASSUME calls \in Seq(Calls), NEW k \in DOMAIN calls, NEW answer \in Replies, NEW cookie \in Int,
           Answered(k, answer, cookie)
    PROVE  Replied(k, calls[k].as, answer, cookie)
<1>1. calls[k] \in Calls
  OBVIOUS
<1> DEFINE f == [[calls[k] EXCEPT !.answer = answer] EXCEPT !.sets = cookie]
<1>2. /\ f \in Calls /\ f.op = calls[k].op /\ f.token = calls[k].token /\ f.cookie = calls[k].cookie
      /\ f.as = calls[k].as /\ f.answer = answer /\ f.sets = cookie
  BY <1>1 DEF Calls
<1>3. calls' = [calls EXCEPT ![k] = f]
  BY <1>1 DEF Answered, Calls
<1> HIDE DEF f
<1> QED BY <1>2, <1>3 DEF Replied

LEMMA IssuedIs ==
    ASSUME calls \in Seq(Calls), holder \in Seq(People), NEW k \in DOMAIN calls, NEW a \in People,
           NEW remaining, Issued(k, a, remaining)
    PROVE  Replied(k, a, "ok", Len(holder) + 1) /\ Started(a, remaining)
<1>1. calls[k] \in Calls /\ Len(holder) + 1 \in Int
  OBVIOUS
<1> DEFINE t == Len(holder) + 1
           f == [[[calls[k] EXCEPT !.answer = "ok"] EXCEPT !.sets = t] EXCEPT !.as = a]
<1>2. /\ f \in Calls /\ f.op = calls[k].op /\ f.token = calls[k].token /\ f.cookie = calls[k].cookie
      /\ f.as = a /\ f.answer = "ok" /\ f.sets = t
  BY <1>1 DEF Calls, Replies
<1>3. calls' = [calls EXCEPT ![k] = f]
  BY <1>1 DEF Issued, Calls
<1> HIDE DEF f
<1>4. Replied(k, a, "ok", t)
  BY <1>2, <1>3 DEF Replied
<1> QED BY <1>4 DEF Started, Issued

LEMMA ServedIs ==
    ASSUME calls \in Seq(Calls), NEW k \in DOMAIN calls, NEW a \in People, Served(k, a)
    PROVE  Replied(k, a, "ok", calls[k].sets) /\ UNCHANGED <<holder, valid>>
<1>1. calls[k] \in Calls
  OBVIOUS
<1> DEFINE f == [[calls[k] EXCEPT !.answer = "ok"] EXCEPT !.as = a]
<1>2. /\ f \in Calls /\ f.op = calls[k].op /\ f.token = calls[k].token /\ f.cookie = calls[k].cookie
      /\ f.as = a /\ f.answer = "ok" /\ f.sets = calls[k].sets
  BY <1>1 DEF Calls, Replies
<1>3. calls' = [calls EXCEPT ![k] = f]
  BY <1>1 DEF Served, Calls
<1> HIDE DEF f
<1>4. Replied(k, a, "ok", calls[k].sets)
  BY <1>2, <1>3 DEF Replied
<1> QED BY <1>4 DEF Served

\* What comes of a request at the server.
Renewed(k) ==
    /\ calls[k].op \in Renews /\ calls[k].cookie \in valid
    /\ Replied(k, holder[calls[k].cookie], "ok", Len(holder) + 1)
    /\ Started(holder[calls[k].cookie], valid \ {calls[k].cookie})
NotRenewed(k) ==
    /\ calls[k].op \in Renews /\ calls[k].cookie \notin valid
    /\ Replied(k, calls[k].as, "unauthorized", NoCookie)
    /\ valid' \subseteq valid /\ UNCHANGED holder
    /\ calls[k].cookie = NoCookie => UNCHANGED valid
Entered(k) ==
    /\ calls[k].op \in {"login", "redeem"}
    /\ Replied(k, calls[k].as, "ok", Len(holder) + 1) /\ Started(calls[k].as, valid)
Rejected(k) ==
    /\ UNCHANGED <<holder, valid>>
    /\ \/ /\ calls[k].op \notin Renews \cup {"me"}
          /\ Replied(k, calls[k].as, "declined", Kept)
       \/ /\ calls[k].op \in {"login", "change", "profile"} \cup Plain
          /\ Replied(k, calls[k].as, "unauthorized", Kept)
Ended(k) ==
    /\ calls[k].op = "logout" /\ Replied(k, calls[k].as, "ok", NoCookie)
    /\ valid' = valid \ {calls[k].cookie} /\ UNCHANGED holder
Changed(k) ==
    /\ calls[k].op = "change" /\ calls[k].token.of \in People
    /\ Replied(k, calls[k].token.of, "ok", Len(holder) + 1)
    /\ Started(calls[k].token.of, valid \ Of(calls[k].token.of))
Given(k) ==
    /\ calls[k].op \in Tells \cup Plain /\ calls[k].token.of \in People
    /\ Replied(k, calls[k].token.of, "ok", calls[k].sets) /\ UNCHANGED <<holder, valid>>

LEMMA HandleIs ==
    ASSUME SessionTypes, NEW k \in DOMAIN calls, Handle(k)
    PROVE  /\ calls[k].answer = "none"
           /\ \/ Renewed(k) \/ NotRenewed(k) \/ Entered(k) \/ Rejected(k) \/ Ended(k)
              \/ Changed(k) \/ Given(k)
<1>1. /\ calls \in Seq(Calls) /\ holder \in Seq(People) /\ valid \in SUBSET DOMAIN holder
      /\ CallOK(calls[k], holder) /\ calls[k] \in Calls
  BY DEF SessionTypes, CallsOK
<1>2. calls[k].answer = "none"
  BY DEF Handle, Switches, Renews, Tells
<1>3. calls[k].op \in Operations
  BY <1>1 DEF Calls
<1>5. "unauthorized" \in Replies /\ "declined" \in Replies /\ "ok" \in Replies /\ Kept \in Int
      /\ NoCookie \in Int
  BY DEF Replies, Kept, NoCookie
<1> DEFINE declined == /\ calls[k].op \notin Renews \cup {"me"}
                       /\ Answered(k, "declined", Kept) /\ UNCHANGED <<holder, valid>>
<1>12. CASE declined
  BY <1>1, <1>2, <1>5, <1>12, AnsweredIs DEF Rejected
<1>4. CASE calls[k].op \in {"refresh", "restore"}
  <2>1. CASE calls[k].cookie \in valid
    <3>1. Issued(k, holder[calls[k].cookie], valid \ {calls[k].cookie})
      BY <1>4, <2>1 DEF Handle, Switches, Renews, Tells
    <3>2. holder[calls[k].cookie] \in People
      BY <1>1, <2>1
    <3> QED BY <1>1, <1>2, <1>4, <2>1, <3>1, <3>2, IssuedIs DEF Renewed, Renews
  <2>2. CASE calls[k].cookie \notin valid
    <3>1. /\ Answered(k, "unauthorized", NoCookie) /\ UNCHANGED holder
          /\ valid' = IF calls[k].cookie = NoCookie THEN valid
                      ELSE valid \ Of(holder[calls[k].cookie])
      BY <1>4, <2>2 DEF Handle, Switches, Renews, Tells
    <3>2. "unauthorized" \in Replies /\ NoCookie \in Int
      BY DEF Replies, NoCookie
    <3> QED BY <1>1, <1>2, <1>4, <2>2, <3>1, <3>2, AnsweredIs DEF NotRenewed, Renews
  <2> QED BY <2>1, <2>2
<1>6. CASE calls[k].op = "login" /\ ~declined
  <2>1. Issued(k, calls[k].as, valid) \/ Refused(k)
    BY <1>6 DEF Handle, Switches, Renews, Tells
  <2>2. calls[k].as \in People
    BY <1>1, <1>6 DEF CallOK
  <2> QED BY <1>1, <1>2, <1>5, <1>6, <2>1, <2>2, IssuedIs, AnsweredIs DEF Entered, Rejected, Refused
<1>7. CASE calls[k].op = "redeem" /\ ~declined
  <2>1. Issued(k, calls[k].as, valid)
    BY <1>7 DEF Handle, Switches, Renews, Tells
  <2>2. calls[k].as \in People
    BY <1>1, <1>7 DEF CallOK
  <2> QED BY <1>1, <1>2, <1>5, <1>7, <2>1, <2>2, IssuedIs, AnsweredIs DEF Entered, Rejected
<1>8. CASE calls[k].op = "logout" /\ ~declined
  <2>1. Answered(k, "ok", NoCookie) /\ valid' = valid \ {calls[k].cookie} /\ UNCHANGED holder
    BY <1>8 DEF Handle, Switches, Renews, Tells
  <2> QED BY <1>1, <1>2, <1>5, <1>8, <2>1, AnsweredIs DEF Ended
<1>9. CASE calls[k].op = "change" /\ calls[k].token.fresh /\ ~declined
  <2>1. Issued(k, calls[k].token.of, valid \ Of(calls[k].token.of)) \/ Refused(k)
    BY <1>9 DEF Handle, Switches, Renews, Tells
  <2>2. calls[k].token.of \in People
    BY <1>1, <1>9 DEF CallOK
  <2> QED BY <1>1, <1>2, <1>5, <1>9, <2>1, <2>2, IssuedIs, AnsweredIs DEF Changed, Rejected, Refused
<1>10. CASE /\ calls[k].op \notin {"refresh", "restore", "login", "redeem", "logout", "change"}
            /\ calls[k].token.fresh /\ ~declined
  <2>1. Served(k, calls[k].token.of)
    BY <1>10 DEF Handle, Switches, Renews, Tells
  <2>2. calls[k].token.of \in People
    BY <1>1, <1>10 DEF CallOK
  <2>3. calls[k].op \in Tells \cup Plain
    BY <1>3, <1>10 DEF Operations, Switches, Renews
  <2> QED BY <1>1, <1>2, <2>1, <2>2, <2>3, ServedIs DEF Given
<1>11. CASE /\ calls[k].op \notin {"refresh", "restore", "login", "redeem", "logout"}
            /\ ~calls[k].token.fresh /\ ~declined
  <2>1. Refused(k)
    BY <1>11 DEF Handle, Switches, Renews, Tells
  <2>2. calls[k].op \in {"login", "change", "profile"} \cup Plain
    BY <1>1, <1>3, <1>11 DEF Operations, Switches, Renews, Tells, CallOK
  <2> QED BY <1>1, <1>2, <1>5, <2>1, <2>2, AnsweredIs DEF Rejected, Refused
<1> QED BY <1>4, <1>6, <1>7, <1>8, <1>9, <1>10, <1>11, <1>12

LEMMA HandleTypes ==
    ASSUME SessionTypes, NEW k \in DOMAIN calls, Handle(k)
    PROVE  SessionTypes'
<1>1. /\ calls \in Seq(Calls) /\ holder \in Seq(People) /\ valid \in SUBSET DOMAIN holder
      /\ CallsOK(calls, holder) /\ CallOK(calls[k], holder) /\ calls[k] \in Calls
      /\ WaitingOK(waiting, holder)
  BY DEF SessionTypes, CallsOK
<1>2. UNCHANGED <<status, user, page, bearer, jar, waiting>>
  BY DEF Handle, tab
<1> SUFFICES /\ holder' \in Seq(People) /\ valid' \in SUBSET DOMAIN holder'
             /\ CallsOK(calls', holder') /\ WaitingOK(waiting, holder')
             /\ Underway("refresh") => Underway("refresh")'
  BY <1>2 DEF SessionTypes
<1>3. ASSUME NEW as, NEW answer, NEW sets, Replied(k, as, answer, sets)
      PROVE  Underway("refresh") => Underway("refresh")'
  <2>1. /\ DOMAIN calls' = DOMAIN calls
        /\ \A i \in DOMAIN calls : calls'[i].op = calls[i].op
    BY <1>3 DEF Replied
  <2> QED BY <2>1 DEF Underway
<1>4. ASSUME NEW as, NEW answer, NEW sets, Replied(k, as, answer, sets),
             NEW h, CallsOK(calls, h), CallOK(calls'[k], h)
      PROVE  CallsOK(calls', h)
  BY <1>4 DEF Replied, CallsOK
<1>5. ASSUME NEW a \in People, NEW remaining \in SUBSET valid, Started(a, remaining),
             Replied(k, a, "ok", Len(holder) + 1), calls[k].op \in {"login", "redeem", "change"} \cup Renews
      PROVE  /\ holder' \in Seq(People) /\ valid' \in SUBSET DOMAIN holder'
             /\ CallsOK(calls', holder') /\ WaitingOK(waiting, holder')
  <2>1. holder' = Append(holder, a) /\ valid' = remaining \cup {Len(holder) + 1}
    BY <1>5 DEF Started
  <2>2. /\ holder' \in Seq(People) /\ DOMAIN holder' = DOMAIN holder \cup {Len(holder) + 1}
        /\ holder'[Len(holder) + 1] = a
    BY <1>1, <2>1
  <2>3. CallsOK(calls, holder') /\ WaitingOK(waiting, holder')
    BY <1>1, <2>1, CallsGrow, WaitingGrow
  <2>4. CallOK(calls'[k], holder')
    BY <1>1, <1>5, <2>2 DEF CallOK, Replied, Renews
  <2>5. CallsOK(calls', holder')
    BY <1>4, <1>5, <2>3, <2>4
  <2> QED BY <1>1, <2>1, <2>2, <2>3, <2>5
<1>6. ASSUME Renewed(k) PROVE holder[calls[k].cookie] \in People
  BY <1>1, <1>6 DEF Renewed
<1>7. ASSUME Entered(k) PROVE calls[k].as \in People
  BY <1>1, <1>7 DEF Entered, CallOK
<1>8. CASE Renewed(k)
  <2>1. valid \ {calls[k].cookie} \in SUBSET valid
    OBVIOUS
  <2> QED BY <1>3, <1>5, <1>6, <1>8, <2>1 DEF Renewed
<1>9. CASE Entered(k)
  BY <1>3, <1>5, <1>7, <1>9 DEF Entered
<1>10. CASE Changed(k)
  <2>1. valid \ Of(calls[k].token.of) \in SUBSET valid
    OBVIOUS
  <2> QED BY <1>3, <1>5, <1>10, <2>1 DEF Changed
<1>11. CASE NotRenewed(k)
  <2>1. CallOK(calls'[k], holder)
    BY <1>1, <1>11 DEF NotRenewed, Replied, CallOK, Renews
  <2> QED BY <1>1, <1>3, <1>4, <1>11, <2>1 DEF NotRenewed
<1>12. CASE Rejected(k)
  <2>1. CallOK(calls'[k], holder)
    BY <1>1, <1>12 DEF Rejected, Replied, CallOK, Plain, Renews
  <2> QED BY <1>1, <1>3, <1>4, <1>12, <2>1 DEF Rejected
<1>13. CASE Ended(k)
  <2>1. CallOK(calls'[k], holder)
    BY <1>1, <1>13 DEF Ended, Replied, CallOK, Issuing, Renews
  <2> QED BY <1>1, <1>3, <1>4, <1>13, <2>1 DEF Ended
<1>14. CASE Given(k)
  <2>1. CallOK(calls'[k], holder)
    BY <1>1, <1>14 DEF Given, Replied, CallOK, Issuing, Renews, Tells, Plain
  <2> QED BY <1>1, <1>3, <1>4, <1>14, <2>1 DEF Given
<1> QED BY HandleIs, <1>8, <1>9, <1>10, <1>11, <1>12, <1>13, <1>14

\* What comes of a request whose handler fails: a token issued all the same, or not.
IssuedAllTheSame(k) ==
    \E a \in People, remaining \in SUBSET valid, cookie \in Int :
        /\ calls[k].op \in Renews => cookie = NoCookie
        /\ Replied(k, calls[k].as, "failed", cookie) /\ Started(a, remaining)
FailedBefore(k) ==
    \E cookie \in Int :
        /\ calls[k].op \in Renews => cookie = NoCookie
        /\ Replied(k, calls[k].as, "failed", cookie) /\ valid' \subseteq valid /\ UNCHANGED holder

LEMMA InVainIs ==
    ASSUME calls \in Seq(Calls), holder \in Seq(People), NEW k \in DOMAIN calls, NEW a \in People,
           NEW remaining \in SUBSET valid, NEW cookie \in Int, IssuedInVain(k, a, remaining, cookie),
           calls[k].op \in Renews => cookie = NoCookie
    PROVE  IssuedAllTheSame(k)
<1>1. Answered(k, "failed", cookie) /\ Started(a, remaining) /\ "failed" \in Replies
  BY DEF IssuedInVain, Started, Replies
<1>2. Replied(k, calls[k].as, "failed", cookie)
  BY <1>1, AnsweredIs
<1> QED BY <1>1, <1>2 DEF IssuedAllTheSame

LEMMA HandlerFailsIs ==
    ASSUME SessionTypes, NEW k \in DOMAIN calls, HandlerFails(k)
    PROVE  IssuedAllTheSame(k) \/ FailedBefore(k)
<1>1. /\ calls \in Seq(Calls) /\ holder \in Seq(People) /\ valid \in SUBSET DOMAIN holder
      /\ CallOK(calls[k], holder)
  BY DEF SessionTypes, CallsOK
<1>2. Len(holder) + 1 \in Int /\ Kept \in Int /\ NoCookie \in Int /\ "failed" \in Replies
  BY <1>1 DEF Kept, NoCookie, Replies
<1>3. CASE /\ calls[k].op \in Renews /\ calls[k].cookie \in valid
           /\ IssuedInVain(k, holder[calls[k].cookie], valid \ {calls[k].cookie}, NoCookie)
  <2>1. holder[calls[k].cookie] \in People
    BY <1>1, <1>3
  <2> QED BY <1>1, <1>2, <1>3, <2>1, InVainIs
<1>4. ASSUME NEW cookie \in {Kept, NoCookie}, Answered(k, "failed", cookie), valid' \subseteq valid,
             UNCHANGED holder, calls[k].op \in Renews => cookie = NoCookie
      PROVE  FailedBefore(k)
  <2>1. cookie \in Int
    BY <1>2
  <2>2. Replied(k, calls[k].as, "failed", cookie)
    BY <1>1, <1>2, <1>4, <2>1, AnsweredIs
  <2> QED BY <1>4, <2>1, <2>2 DEF FailedBefore
<1>5. CASE /\ calls[k].op \in Renews
           /\ Answered(k, "failed", NoCookie) /\ UNCHANGED <<holder, valid>>
  BY <1>4, <1>5
<1>6. CASE /\ calls[k].op \in {"login", "redeem"}
           /\ IssuedInVain(k, calls[k].as, valid, Len(holder) + 1)
  <2>1. calls[k].as \in People /\ calls[k].op \notin Renews
    BY <1>1, <1>6 DEF CallOK, Renews
  <2> QED BY <1>1, <1>2, <1>6, <2>1, InVainIs
<1>7. CASE /\ calls[k].op \in {"logout", "change", "me"} /\ Answered(k, "failed", Kept)
           /\ valid' \subseteq valid /\ UNCHANGED holder
  <2>1. calls[k].op \notin Renews
    BY <1>7 DEF Renews
  <2> QED BY <1>4, <1>7, <2>1
<1>8. CASE /\ calls[k].op = "change" /\ calls[k].token.fresh
           /\ IssuedInVain(k, calls[k].token.of, valid \ Of(calls[k].token.of), Len(holder) + 1)
  <2>1. calls[k].token.of \in People /\ calls[k].op \notin Renews
    BY <1>1, <1>8 DEF CallOK, Renews
  <2> QED BY <1>1, <1>2, <1>8, <2>1, InVainIs
<1> QED BY <1>3, <1>5, <1>6, <1>7, <1>8 DEF HandlerFails

LEMMA HandlerFailsTypes ==
    ASSUME SessionTypes, NEW k \in DOMAIN calls, HandlerFails(k)
    PROVE  SessionTypes'
<1>1. /\ calls \in Seq(Calls) /\ holder \in Seq(People) /\ valid \in SUBSET DOMAIN holder
      /\ CallsOK(calls, holder) /\ CallOK(calls[k], holder) /\ WaitingOK(waiting, holder)
  BY DEF SessionTypes, CallsOK
<1>2. UNCHANGED <<status, user, page, bearer, jar, waiting>>
  BY DEF HandlerFails, tab
<1>3. ASSUME NEW h, NEW cookie \in Int, CallsOK(calls, h),
             calls[k].op \in Renews => cookie = NoCookie, Replied(k, calls[k].as, "failed", cookie)
      PROVE  CallsOK(calls', h) /\ (Underway("refresh") => Underway("refresh")')
  <2>1. /\ DOMAIN calls' = DOMAIN calls
        /\ \A i \in DOMAIN calls : calls'[i].op = calls[i].op
        /\ calls' \in Seq(Calls) /\ \A i \in DOMAIN calls \ {k} : calls'[i] = calls[i]
    BY <1>3 DEF Replied
  <2>2. Underway("refresh") => Underway("refresh")'
    BY <2>1 DEF Underway
  <2>3. CallOK(calls'[k], h)
    BY <1>1, <1>3 DEF Replied, CallOK, CallsOK
  <2> QED BY <1>3, <2>1, <2>2, <2>3 DEF CallsOK
<1>4. CASE IssuedAllTheSame(k)
  <2>1. PICK a \in People, remaining \in SUBSET valid, cookie \in Int :
           /\ calls[k].op \in Renews => cookie = NoCookie
           /\ Replied(k, calls[k].as, "failed", cookie) /\ Started(a, remaining)
    BY <1>4 DEF IssuedAllTheSame
  <2>2. /\ holder' = Append(holder, a) /\ valid' = remaining \cup {Len(holder) + 1}
    BY <2>1 DEF Started
  <2>3. /\ holder' \in Seq(People) /\ DOMAIN holder' = DOMAIN holder \cup {Len(holder) + 1}
    BY <1>1, <2>2
  <2>4. CallsOK(calls, holder') /\ WaitingOK(waiting, holder')
    BY <1>1, <2>2, CallsGrow, WaitingGrow
  <2>5. CallsOK(calls', holder') /\ (Underway("refresh") => Underway("refresh")')
    BY <1>3, <2>1, <2>4
  <2>6. valid' \in SUBSET DOMAIN holder'
    BY <1>1, <2>2, <2>3
  <2> QED BY <1>2, <2>3, <2>4, <2>5, <2>6 DEF SessionTypes
<1>5. CASE FailedBefore(k)
  <2>1. PICK cookie \in Int :
           /\ calls[k].op \in Renews => cookie = NoCookie
           /\ Replied(k, calls[k].as, "failed", cookie) /\ valid' \subseteq valid /\ UNCHANGED holder
    BY <1>5 DEF FailedBefore
  <2>2. CallsOK(calls', holder) /\ (Underway("refresh") => Underway("refresh")')
    BY <1>1, <1>3, <2>1
  <2> QED BY <1>1, <1>2, <2>1, <2>2 DEF SessionTypes
<1> QED BY HandlerFailsIs, <1>4, <1>5

LEMMA CarryingIs ==
    ASSUME NEW op \in Operations, NEW as \in People \cup {Nobody}, NEW again \in BOOLEAN,
           NEW token \in Bearers, NEW cookie \in Int, NEW h,
           token.fresh => token.of \in People,
           op \in {"login", "redeem"} => as \in People, op = "me" => token.fresh
    PROVE  /\ Carrying(op, as, again, token, cookie) \in Calls
           /\ CallOK(Carrying(op, as, again, token, cookie), h)
<1>1. "none" \in Replies /\ Kept \in Int
  BY DEF Replies, Kept
<1> QED BY <1>1 DEF Carrying, Calls, CallOK

LEMMA CarriedIs ==
    ASSUME SessionTypes, NEW op \in Operations \ {"me"}, NEW as \in People \cup {Nobody},
           op \in {"login", "redeem"} => as \in People
    PROVE  Carried(op, as) \in Calls /\ CallOK(Carried(op, as), holder)
BY CarryingIs DEF SessionTypes, Carried

LEMMA RefreshingOK ==
    ASSUME SessionTypes, NEW rest, CallsOK(rest, holder)
    PROVE  CallsOK(Refreshing(rest), holder)
<1>1. "refresh" \in Operations \ {"me"}
  BY DEF Operations, Renews
<1>2. CallsOK(Append(rest, Carried("refresh", Nobody)), holder)
  BY <1>1, CarriedIs, CallsAppend
<1> QED BY <1>2 DEF Refreshing

LEMMA AppendHas ==
    ASSUME NEW cs \in Seq(Calls), NEW f \in Calls
    PROVE  /\ Append(cs, f) \in Seq(Calls)
           /\ \A k \in DOMAIN cs : k \in DOMAIN Append(cs, f) /\ Append(cs, f)[k] = cs[k]
           /\ \A k \in DOMAIN Append(cs, f) \ DOMAIN cs : Append(cs, f)[k] = f /\ k = Len(cs) + 1
           /\ \E k \in DOMAIN Append(cs, f) : Append(cs, f)[k] = f
<1>1. Append(cs, f) \in Seq(Calls) /\ Len(Append(cs, f)) = Len(cs) + 1
  OBVIOUS
<1>2. DOMAIN Append(cs, f) = 1 .. Len(cs) + 1 /\ DOMAIN cs = 1 .. Len(cs) /\ Len(cs) \in Nat
  BY <1>1
<1>3. /\ \A k \in 1 .. Len(cs) : Append(cs, f)[k] = cs[k]
      /\ Append(cs, f)[Len(cs) + 1] = f
  OBVIOUS
<1> QED BY <1>1, <1>2, <1>3

LEMMA FetchTypes ==
    ASSUME SessionTypes, NEW op \in Operations \ {"me"}, NEW as \in People \cup {Nobody},
           op \in {"login", "redeem"} => as \in People, Fetch(op, as)
    PROVE  SessionTypes'
<1>1. /\ calls' = Append(calls, Carried(op, as))
      /\ UNCHANGED <<status, user, page, bearer, jar, waiting, holder, valid>>
  BY DEF Fetch, tab
<1>2. Carried(op, as) \in Calls /\ CallOK(Carried(op, as), holder)
  BY CarriedIs
<1>3. CallsOK(calls', holder)
  BY <1>1, <1>2, CallsAppend DEF SessionTypes
<1>4. calls \in Seq(Calls)
  BY DEF SessionTypes, CallsOK
<1> DEFINE f == Carried(op, as)
<1> HIDE DEF f
<1>7. f \in Calls /\ calls' = Append(calls, f)
  BY <1>1, <1>2 DEF f
<1>5. \A k \in DOMAIN calls : k \in DOMAIN calls' /\ calls'[k] = calls[k]
  BY <1>4, <1>7, AppendHas
<1>6. Underway("refresh") => Underway("refresh")'
  BY <1>5 DEF Underway
<1> QED BY <1>1, <1>3, <1>6 DEF SessionTypes

LEMMA RenewTypes ==
    ASSUME SessionTypes, Renew
    PROVE  SessionTypes'
<1>1. /\ calls' = Refreshing(calls)
      /\ UNCHANGED <<status, user, page, bearer, jar, waiting, holder, valid>>
  BY DEF Renew, tab
<1>2. CallsOK(calls', holder)
  BY <1>1, RefreshingOK DEF SessionTypes
<1>3. Carried("refresh", Nobody) \in Calls
  BY CarriedIs DEF Operations, Renews
<1>4. Underway("refresh") => Underway("refresh")'
  BY <1>1, <1>3, AppendHas DEF Underway, SessionTypes, CallsOK, Refreshing
<1> QED BY <1>1, <1>2, <1>4 DEF SessionTypes

LEMMA ExpireTypes ==
    ASSUME SessionTypes, Expire
    PROVE  SessionTypes' /\ bearer'.of = bearer.of
<1>1. bearer' = [bearer EXCEPT !.fresh = FALSE]
      /\ UNCHANGED <<status, user, page, jar, calls, waiting, holder, valid>>
  BY DEF Expire
<1>2. bearer' \in Bearers /\ bearer'.fresh = FALSE /\ bearer'.of = bearer.of
  BY <1>1 DEF SessionTypes, Bearers
<1> QED BY <1>1, <1>2 DEF SessionTypes, Underway

LEMMA RevokeTypes ==
    ASSUME SessionTypes, NEW a \in People, Revoke(a)
    PROVE  SessionTypes' /\ loose' # {}
<1>1. valid' \subseteq valid /\ UNCHANGED <<status, user, page, bearer, jar, calls, waiting, holder>>
      /\ loose' = loose \cup {"revoked"}
  BY DEF Revoke, tab
<1> QED BY <1>1 DEF SessionTypes, Underway

\* An answer that is taken, and what is still under way.
Taken(k) == RemoveAt(calls, k)

LEMMA TakenIs ==
    ASSUME SessionTypes, NEW k \in DOMAIN calls
    PROVE  /\ CallsOK(Taken(k), holder)
           /\ calls[k].op # "refresh" /\ Underway("refresh") =>
                 \E j \in DOMAIN Taken(k) : Taken(k)[j].op = "refresh"
<1>1. calls \in Seq(Calls) /\ CallsOK(calls, holder)
  BY DEF SessionTypes, CallsOK
<1>2. \A i \in DOMAIN calls \ {k} : \E j \in DOMAIN Taken(k) : Taken(k)[j] = calls[i]
  BY <1>1, Remaining DEF Taken
<1>3. CallsOK(Taken(k), holder)
  BY <1>1, CallsRemain DEF Taken
<1> QED BY <1>2, <1>3 DEF Underway

\* The user an answered request is for.
LEMMA AnswerIs ==
    ASSUME SessionTypes, NEW k \in DOMAIN calls, calls[k].answer = "ok"
    PROVE  /\ calls[k] \in Calls /\ calls[k].as \in People \cup {Nobody} /\ calls[k].sets \in Int
           /\ calls[k].op \in Issuing => calls[k].as \in People /\ calls[k].sets \in DOMAIN holder
                                         /\ holder[calls[k].sets] = calls[k].as
           /\ calls[k].op = "logout" => calls[k].sets = NoCookie
<1>1. calls[k] \in Calls /\ CallOK(calls[k], holder) /\ holder \in Seq(People)
  BY DEF SessionTypes, CallsOK
<1>2. calls[k].as \in People \cup {Nobody} /\ calls[k].sets \in Int
  BY <1>1 DEF Calls
<1> QED BY <1>1, <1>2 DEF CallOK

LEMMA FreshBearer ==
    ASSUME NEW a \in People
    PROVE  [of |-> a, fresh |-> TRUE] \in Bearers
BY DEF Bearers

LEMMA NoBearerIs == NoBearer \in Bearers /\ ~NoBearer.fresh
BY DEF NoBearer, Bearers

LEMMA CookieIs ==
    ASSUME SessionTypes, NEW k \in DOMAIN calls, SetCookie(calls[k])
    PROVE  jar' \in Int
<1>1. calls[k] \in Calls /\ jar \in Int
  BY DEF SessionTypes, CallsOK
<1>2. calls[k].sets \in Int
  BY <1>1 DEF Calls
<1> QED BY <1>1, <1>2 DEF SetCookie

LEMMA SwitchTypes ==
    ASSUME SessionTypes, NEW k \in DOMAIN calls, SwitchAnswered(k)
    PROVE  SessionTypes'
<1>1. /\ calls[k].op \in Switches /\ calls[k].answer = "ok"
      /\ SetCookie(calls[k]) /\ calls' = Taken(k)
      /\ bearer' = IF calls[k].op = "logout" THEN NoBearer ELSE [of |-> calls[k].as, fresh |-> TRUE]
      /\ \/ calls[k].op = "logout" /\ Becomes("anonymous", Nobody)
         \/ calls[k].op = "change" /\ UNCHANGED <<status, user>>
         \/ calls[k].op \in {"login", "redeem"} /\ Becomes("authenticated", calls[k].as)
      /\ UNCHANGED <<waiting, holder, valid>>
  BY DEF SwitchAnswered, Taken
<1>2. calls[k].op # "logout" => calls[k].as \in People
  BY <1>1, AnswerIs DEF Issuing, Switches
<1>3. bearer' \in Bearers /\ (bearer'.fresh => bearer'.of \in People)
  BY <1>1, <1>2, FreshBearer, NoBearerIs
<1>4. /\ status' \in {"loading", "anonymous", "authenticated"} /\ user' \in People \cup {Nobody}
  BY <1>1, <1>2 DEF SessionTypes, Becomes
<1>5. jar' \in Int
  BY <1>1, CookieIs
<1>6. CallsOK(calls', holder) /\ (Underway("refresh") => Underway("refresh")')
  BY <1>1, TakenIs DEF Underway, Switches
<1> QED BY <1>1, <1>3, <1>4, <1>5, <1>6 DEF SessionTypes

LEMMA CallTypes ==
    ASSUME SessionTypes, NEW k \in DOMAIN calls, CallAnswered(k)
    PROVE  SessionTypes'
<1>1. /\ \/ calls[k].op \notin Switches \cup Renews /\ calls[k].answer = "ok"
         \/ calls[k].answer = "declined"
      /\ calls' = Taken(k)
      /\ \/ calls[k].op = "me" /\ Becomes("authenticated", calls[k].as)
         \/ /\ calls[k].op = "profile" /\ calls[k].answer = "ok"
            /\ user' = calls[k].as /\ UNCHANGED status
         \/ /\ calls[k].op \notin Tells \/ calls[k].answer = "declined"
            /\ UNCHANGED <<status, user>>
      /\ UNCHANGED <<page, bearer, jar, waiting, holder, valid>>
  BY DEF CallAnswered, Taken
<1>2. calls[k].as \in People \cup {Nobody} /\ calls[k].op # "refresh"
  <2>1. calls[k] \in Calls /\ CallOK(calls[k], holder)
    BY DEF SessionTypes, CallsOK
  <2> QED BY <1>1, <2>1 DEF Calls, CallOK, Renews
<1>3. CallsOK(calls', holder) /\ (Underway("refresh") => Underway("refresh")')
  BY <1>1, <1>2, TakenIs DEF Underway
<1>4. /\ status' \in {"loading", "anonymous", "authenticated"} /\ user' \in People \cup {Nobody}
  BY <1>1, <1>2 DEF SessionTypes, Becomes
<1> QED BY <1>1, <1>3, <1>4 DEF SessionTypes

LEMMA FailedTypes ==
    ASSUME SessionTypes, NEW k \in DOMAIN calls, Failed(k)
    PROVE  SessionTypes'
<1>1. /\ calls[k].op \notin Renews /\ SetCookie(calls[k]) /\ calls' = Taken(k)
      /\ status' \in {status, "anonymous"} /\ UNCHANGED <<user, page, bearer, waiting, holder, valid>>
  BY DEF Failed, Taken
<1>2. CallsOK(calls', holder) /\ (Underway("refresh") => Underway("refresh")')
  BY <1>1, TakenIs DEF Underway, Renews
<1>3. jar' \in Int
  BY <1>1, CookieIs
<1> QED BY <1>1, <1>2, <1>3 DEF SessionTypes

LEMMA UnauthorizedTypes ==
    ASSUME SessionTypes, NEW k \in DOMAIN calls, Unauthorized(k)
    PROVE  SessionTypes'
<1>1. /\ calls[k].op \notin Renews /\ calls[k].answer = "unauthorized"
      /\ IF calls[k].again
         THEN /\ calls' = Taken(k) /\ UNCHANGED waiting
              /\ status' = IF calls[k].op = "me" THEN "anonymous" ELSE status
         ELSE /\ calls' = Refreshing(Taken(k)) /\ waiting' = Append(waiting, calls[k])
              /\ UNCHANGED status
      /\ UNCHANGED <<user, page, bearer, jar, holder, valid>>
  BY DEF Unauthorized, Taken
<1>2. calls[k] \in Calls /\ CallOK(calls[k], holder)
  BY DEF SessionTypes, CallsOK
<1>3. /\ CallsOK(Taken(k), holder)
      /\ Underway("refresh") => \E j \in DOMAIN Taken(k) : Taken(k)[j].op = "refresh"
  BY <1>1, TakenIs DEF Renews
<1>4. CASE calls[k].again
  <2>1. Underway("refresh") => Underway("refresh")'
    BY <1>1, <1>3, <1>4 DEF Underway
  <2> QED BY <1>1, <1>3, <1>4, <2>1 DEF SessionTypes
<1>5. CASE ~calls[k].again
  <2>1. CallsOK(calls', holder)
    BY <1>1, <1>3, <1>5, RefreshingOK
  <2>2. Underway("refresh")'
    <3>1. Carried("refresh", Nobody) \in Calls
      BY CarriedIs DEF Operations, Renews
    <3>2. Carried("refresh", Nobody).op = "refresh"
      BY DEF Carried, Carrying
    <3>3. CASE Underway("refresh")
      <4>1. calls' = Taken(k)
        BY <1>1, <1>5, <3>3 DEF Refreshing
      <4> QED BY <4>1, <1>3, <3>3 DEF Underway
    <3>4. CASE ~Underway("refresh")
      <4>1. calls' = Append(Taken(k), Carried("refresh", Nobody))
        BY <1>1, <1>5, <3>4 DEF Refreshing
      <4> QED BY <4>1, <1>3, <3>1, <3>2, AppendHas DEF Underway, CallsOK
    <3> QED BY <3>3, <3>4
  <2>3. WaitingOK(waiting', holder)
    <3>1. CallsOK(waiting, holder) /\ waiting' = Append(waiting, calls[k])
      BY <1>1, <1>5 DEF SessionTypes, WaitingOK
    <3>2. CallsOK(waiting', holder)
      BY <3>1, <1>2, CallsAppend
    <3>3. \A i \in DOMAIN waiting' : waiting'[i] = calls[k] \/ (i \in DOMAIN waiting /\ waiting'[i] = waiting[i])
      BY <3>1, <1>2, AppendHas DEF CallsOK
    <3> QED BY <1>1, <3>2, <3>3 DEF SessionTypes, WaitingOK
  <2> QED BY <1>1, <1>5, <2>1, <2>2, <2>3 DEF SessionTypes
<1> QED BY <1>4, <1>5

\* Whatever awaited a refresh is sent again, after what is still under way.
Again(w, token, cookie) == Carrying(w.op, w.as, TRUE, token, cookie)
Resent(rest, token, cookie) == rest \o [i \in DOMAIN waiting |-> Again(waiting[i], token, cookie)]

LEMMA ResentIs ==
    ASSUME SessionTypes, NEW rest, CallsOK(rest, holder), NEW a \in People, NEW cookie \in Int
    PROVE  LET new == [of |-> a, fresh |-> TRUE]
               resent == Resent(rest, new, cookie)
           IN
           /\ CallsOK(resent, holder)
           /\ \A j \in DOMAIN resent :
                 \/ \E i \in DOMAIN rest : resent[j] = rest[i]
                 \/ \E i \in DOMAIN waiting : resent[j] = Again(waiting[i], new, cookie)
<1> DEFINE new == [of |-> a, fresh |-> TRUE]
           again == [i \in DOMAIN waiting |-> Again(waiting[i], new, cookie)]
           resent == Resent(rest, new, cookie)
<1>1. new \in Bearers /\ new.of = a
  BY FreshBearer
<1> HIDE DEF new
<1>2. ASSUME NEW i \in DOMAIN waiting
      PROVE  Again(waiting[i], new, cookie) \in Calls /\ CallOK(Again(waiting[i], new, cookie), holder)
  <2>1. waiting[i] \in Calls /\ CallOK(waiting[i], holder) /\ waiting[i].answer = "unauthorized"
    BY DEF SessionTypes, WaitingOK, CallsOK
  <2>2. /\ waiting[i].op \in Operations /\ waiting[i].as \in People \cup {Nobody}
        /\ waiting[i].op \in {"login", "redeem"} => waiting[i].as \in People
        /\ waiting[i].op # "me"
    BY <2>1 DEF Calls, CallOK
  <2> QED BY <1>1, <2>2, CarryingIs DEF Again
<1>3. waiting \in Seq(Calls) /\ rest \in Seq(Calls) /\ \A i \in DOMAIN rest : CallOK(rest[i], holder)
  BY DEF SessionTypes, WaitingOK, CallsOK
<1>4. DOMAIN waiting = 1 .. Len(waiting) /\ Len(waiting) \in Nat
  BY <1>3
<1>5. DOMAIN again = 1 .. Len(waiting) /\ \A i \in DOMAIN waiting : again[i] = Again(waiting[i], new, cookie)
  BY <1>4
<1>6. again \in Seq(Calls)
  BY <1>2, <1>4, <1>5
<1>7. resent = rest \o again
  BY DEF Resent
<1> HIDE DEF again, resent
<1>8. /\ resent \in Seq(Calls) /\ Len(resent) = Len(rest) + Len(again)
      /\ \A i \in 1 .. Len(rest) + Len(again) :
            resent[i] = IF i <= Len(rest) THEN rest[i] ELSE again[i - Len(rest)]
  BY <1>3, <1>6, <1>7, ConcatProperties
<1>9. Len(again) = Len(waiting) /\ Len(rest) \in Nat /\ DOMAIN rest = 1 .. Len(rest)
  BY <1>3, <1>4, <1>5, <1>6
<1>10. ASSUME NEW j \in DOMAIN resent
       PROVE  \/ \E i \in DOMAIN rest : resent[j] = rest[i]
              \/ \E i \in DOMAIN waiting : resent[j] = Again(waiting[i], new, cookie)
  <2>1. j \in 1 .. Len(rest) + Len(again) /\ j \in Int
    BY <1>4, <1>8, <1>9
  <2>2. CASE j <= Len(rest)
    BY <1>8, <1>9, <2>1, <2>2
  <2>3. CASE j > Len(rest)
    <3>1. j - Len(rest) \in DOMAIN waiting /\ resent[j] = again[j - Len(rest)]
      BY <1>4, <1>8, <1>9, <2>1, <2>3
    <3> QED BY <1>5, <3>1
  <2> QED BY <1>9, <2>1, <2>2, <2>3
<1>11. CallsOK(resent, holder)
  BY <1>2, <1>3, <1>8, <1>10 DEF CallsOK
<1>12. resent = Resent(rest, new, cookie)
  BY DEF resent
<1> QED BY <1>10, <1>11, <1>12 DEF new

\* A refresh that brings new tokens.
RefreshedTo(k) ==
    /\ calls[k].op \in Renews /\ calls[k].answer = "ok"
    /\ SetCookie(calls[k]) /\ bearer' = [of |-> calls[k].as, fresh |-> TRUE]
    /\ \/ /\ calls[k].op = "restore" /\ UNCHANGED waiting
          /\ calls' = Append(Taken(k), Carrying("me", calls[k].as, FALSE,
                                               [of |-> calls[k].as, fresh |-> TRUE], calls[k].sets))
       \/ /\ calls[k].op = "refresh" /\ waiting' = <<>>
          /\ calls' = Resent(Taken(k), [of |-> calls[k].as, fresh |-> TRUE], calls[k].sets)
    /\ loose' = IF Crossing(calls[k], Taken(k)) THEN loose \cup {"crossed"} ELSE loose
    /\ UNCHANGED <<status, user, holder, valid, ousted>>

LEMMA RefreshedIs ==
    ASSUME NEW k \in DOMAIN calls, Refreshed(k)
    PROVE  RefreshedTo(k)
BY DEF Refreshed, RefreshedTo, Resent, Again, Taken, Renews

LEMMA RefreshedTypes ==
    ASSUME SessionTypes, NEW k \in DOMAIN calls, Refreshed(k)
    PROVE  SessionTypes'
<1>1. RefreshedTo(k)
  BY RefreshedIs
<1>2. /\ calls[k] \in Calls /\ calls[k].as \in People /\ calls[k].sets \in Int
  BY <1>1, AnswerIs DEF RefreshedTo, Issuing
<1>3. bearer' \in Bearers /\ (bearer'.fresh => bearer'.of \in People)
  BY <1>1, <1>2, FreshBearer DEF RefreshedTo
<1>4. jar' \in Int
  BY <1>1, CookieIs DEF RefreshedTo
<1>5. CallsOK(Taken(k), holder)
  BY TakenIs
<1>6. CASE calls[k].op = "restore"
  <2> DEFINE me == Carrying("me", calls[k].as, FALSE, [of |-> calls[k].as, fresh |-> TRUE], calls[k].sets)
  <2>1. me \in Calls /\ CallOK(me, holder)
    <3>1. [of |-> calls[k].as, fresh |-> TRUE] \in Bearers
      BY <1>2, FreshBearer
    <3> QED BY <1>2, <3>1, CarryingIs DEF Operations, Tells
  <2>2. calls' = Append(Taken(k), me) /\ UNCHANGED waiting
    BY <1>1, <1>6 DEF RefreshedTo
  <2> HIDE DEF me
  <2>3. CallsOK(calls', holder)
    BY <1>5, <2>1, <2>2, CallsAppend
  <2>4. Underway("refresh") => Underway("refresh")'
    <3>1. \A j \in DOMAIN Taken(k) : j \in DOMAIN calls' /\ calls'[j] = Taken(k)[j]
      BY <1>5, <2>1, <2>2, AppendHas DEF CallsOK
    <3> QED BY <1>6, <3>1, TakenIs DEF Underway
  <2> QED BY <1>1, <1>3, <1>4, <2>2, <2>3, <2>4 DEF SessionTypes, RefreshedTo
<1>7. CASE calls[k].op = "refresh"
  <2>1. waiting' = <<>> /\ calls' = Resent(Taken(k), [of |-> calls[k].as, fresh |-> TRUE], calls[k].sets)
    BY <1>1, <1>7 DEF RefreshedTo
  <2>2. CallsOK(calls', holder)
    BY <1>2, <1>5, <2>1, ResentIs
  <2>3. WaitingOK(<<>>, holder)
    BY DEF WaitingOK, CallsOK
  <2> QED BY <1>1, <1>3, <1>4, <2>1, <2>2, <2>3 DEF SessionTypes, RefreshedTo
<1> QED BY <1>1, <1>6, <1>7 DEF RefreshedTo, Renews

LEMMA GiveUpTypes ==
    ASSUME SessionTypes, NEW k \in DOMAIN calls, calls[k].op \in Renews, GiveUp(calls[k]),
           calls' = Taken(k), UNCHANGED <<holder, valid>>, jar' \in Int
    PROVE  SessionTypes'
<1>1. CallsOK(calls', holder)
  BY TakenIs
<1>2. CASE calls[k].op = "restore"
  <2>1. status' = "anonymous" /\ UNCHANGED <<user, bearer, waiting>>
    BY <1>2 DEF GiveUp
  <2>2. Underway("refresh") => Underway("refresh")'
    BY <1>2, TakenIs DEF Underway
  <2> QED BY <1>1, <2>1, <2>2 DEF SessionTypes
<1>3. CASE calls[k].op = "refresh"
  <2>1. /\ waiting' = <<>>
        /\ \/ status' = "anonymous" /\ user' = Nobody /\ bearer' = NoBearer
           \/ UNCHANGED <<status, user, bearer>>
    BY <1>3 DEF GiveUp, Becomes
  <2>2. WaitingOK(<<>>, holder)
    BY DEF WaitingOK, CallsOK
  <2> QED BY <1>1, <2>1, <2>2, NoBearerIs DEF SessionTypes
<1> QED BY <1>2, <1>3 DEF Renews

LEMMA NotRefreshedTypes ==
    ASSUME SessionTypes, NEW k \in DOMAIN calls, NotRefreshed(k)
    PROVE  SessionTypes'
<1>1. /\ calls[k].op \in Renews /\ GiveUp(calls[k]) /\ calls' = Taken(k) /\ SetCookie(calls[k])
      /\ UNCHANGED <<holder, valid>>
  BY DEF NotRefreshed, Taken
<1> QED BY <1>1, CookieIs, GiveUpTypes

LEMMA RejectsTypes ==
    ASSUME SessionTypes, NEW k \in DOMAIN calls, Rejects(k)
    PROVE  SessionTypes'
<1>1. /\ calls' = Taken(k) /\ UNCHANGED <<jar, holder, valid>>
      /\ \/ calls[k].op \in Renews /\ GiveUp(calls[k])
         \/ calls[k].op = "me" /\ status' = "anonymous" /\ UNCHANGED <<user, bearer, waiting>>
         \/ calls[k].op \notin Renews \cup {"me"} /\ UNCHANGED <<status, user, bearer, waiting>>
  BY DEF Rejects, Taken
<1>2. CASE calls[k].op \in Renews /\ GiveUp(calls[k])
  BY <1>1, <1>2, GiveUpTypes DEF SessionTypes
<1>3. CASE ~(calls[k].op \in Renews /\ GiveUp(calls[k]))
  <2>1. /\ status' \in {status, "anonymous"} /\ UNCHANGED <<user, bearer, waiting>>
        /\ calls[k].op \notin Renews
    BY <1>1, <1>3 DEF Renews
  <2>2. CallsOK(calls', holder) /\ (Underway("refresh") => Underway("refresh")')
    BY <1>1, <2>1, TakenIs DEF Underway, Renews
  <2> QED BY <1>1, <2>1, <2>2 DEF SessionTypes
<1> QED BY <1>2, <1>3

------------------------------------------------------------------------------
(* The session: what fits together while nothing of its kind has gone wrong.   *)

\* A token was, or is about to be, revoked by an answer that is still under way.
Switched(cs) == \E g \in DOMAIN cs : cs[g].op \in {"change", "logout"} /\ cs[g].answer = "ok"
Rotated(cs) == \E g \in DOMAIN cs : cs[g].op = "refresh" /\ cs[g].answer = "ok"
Overtaken(cs, k) ==
    \E g \in DOMAIN cs \ {k} :
       cs[g].op = "refresh" \/ (cs[g].op \in {"change", "logout"} /\ cs[g].answer = "ok")

OneRefresh(cs) == \A i, j \in DOMAIN cs : cs[i].op = "refresh" /\ cs[j].op = "refresh" => i = j

\* A request of u, who is signed in with the cookie c, when v are the tokens in force.
Fits(cs, k, v, u, c) ==
    /\ cs[k].op \in {"redeem", "logout", "change", "refresh", "profile"} \cup Plain
    /\ cs[k].op = "refresh" =>
          /\ cs[k].cookie = c
          /\ cs[k].answer = "ok" => cs[k].as = u /\ (cs[k].sets \in v \/ Switched(cs))
          /\ cs[k].answer = "unauthorized" => Switched(cs)
    /\ cs[k].op \in {"redeem", "change"} /\ cs[k].answer = "ok" =>
          cs[k].sets \in v \/ Overtaken(cs, k)
    /\ cs[k].op \in {"change", "profile"} =>
          cs[k].token.of = u /\ (cs[k].answer = "ok" => cs[k].as = u)

AllFit(cs, v, u, c) ==
    /\ OneRefresh(cs) /\ \A k \in DOMAIN cs : Fits(cs, k, v, u, c)
    /\ c \in v \/ Switched(cs) \/ Rotated(cs)

SignedIn ==
    /\ bearer.of = user /\ jar \in DOMAIN holder /\ holder[jar] = user
    /\ \A k \in DOMAIN waiting : waiting[k].op \in {"change", "profile"} \cup Plain
    /\ AllFit(calls, valid, user, jar)

SignedOut ==
    /\ bearer = NoBearer /\ jar = NoCookie
    /\ \A k \in DOMAIN calls :
          /\ calls[k].op \in {"login", "redeem", "refresh"} \cup Plain
          /\ calls[k].op = "refresh" => calls[k].cookie = NoCookie /\ calls[k].answer # "ok"
          /\ calls[k].op \in {"login", "redeem"} /\ calls[k].answer = "ok" => calls[k].sets \in valid

Restoring(k) ==
    /\ calls[k].op = "restore" /\ bearer = NoBearer /\ calls[k].cookie = jar
    /\ calls[k].answer = "none" /\ jar # NoCookie => jar \in valid
    /\ calls[k].answer = "ok" => calls[k].sets \in valid

Identifying(k) ==
    /\ calls[k].op = "me" /\ calls[k].token.of = bearer.of
    /\ jar \in valid /\ holder[jar] = bearer.of
    /\ calls[k].answer = "ok" => calls[k].as = bearer.of

Loading ==
    /\ waiting = <<>>
    /\ \E k \in DOMAIN calls :
          /\ \A j \in DOMAIN calls \ {k} : calls[j].op = "redeem"
          /\ Restoring(k) \/ Identifying(k)

Coherent ==
    \/ status = "loading" /\ Loading
    \/ status = "anonymous" /\ SignedOut
    \/ status = "authenticated" /\ SignedIn

SessionInv == SessionTypes /\ ~ousted /\ (loose = {} => Coherent)

LEMMA Alone ==
    ASSUME SessionTypes, NEW k \in DOMAIN calls, ~Crossing(calls[k], Taken(k))
    PROVE  /\ calls[k].op \in Switches => \A i \in DOMAIN calls \ {k} : calls[i].op \in Plain
           /\ calls[k].op \in Renews \cup Tells => \A i \in DOMAIN calls \ {k} : calls[i].op \notin Switches
<1>1. calls \in Seq(Calls)
  BY DEF SessionTypes, CallsOK
<1>2. \A i \in DOMAIN calls \ {k} :
         /\ ~(calls[k].op \in Switches /\ calls[i].op \in Switches \cup Renews \cup Tells)
         /\ ~(calls[k].op \in Renews \cup Tells /\ calls[i].op \in Switches)
  BY <1>1, RestIs DEF Taken
<1>3. ASSUME NEW i \in DOMAIN calls PROVE calls[i].op \in Operations
  <2>1. calls[i] \in Calls
    BY <1>1
  <2> QED BY <2>1 DEF Calls
<1> QED BY <1>2, <1>3 DEF Operations

LEMMA TakenFrom ==
    ASSUME SessionTypes, NEW k \in DOMAIN calls
    PROVE  \A j \in DOMAIN Taken(k) : \E i \in DOMAIN calls \ {k} : Taken(k)[j] = calls[i]
<1>1. calls \in Seq(Calls)
  BY DEF SessionTypes, CallsOK
<1> QED BY <1>1, Remaining DEF Taken

\* Nothing revokes a token while what is under way are the calls of components.
LEMMA QuietFits ==
    ASSUME NEW cs, NEW v, NEW u, NEW c \in v,
           \A k \in DOMAIN cs :
              /\ cs[k].op \in {"change", "profile"} \cup Plain
              /\ cs[k].op = "change" => cs[k].answer = "none"
              /\ cs[k].op \in {"change", "profile"} =>
                    cs[k].token.of = u /\ (cs[k].answer = "ok" => cs[k].as = u)
    PROVE  AllFit(cs, v, u, c)
BY DEF AllFit, OneRefresh, Fits, Plain

LEMMA AppendFits ==
    ASSUME NEW cs \in Seq(Calls), NEW v, NEW u, NEW c, AllFit(cs, v, u, c),
           NEW f \in Calls, f.answer = "none",
           f.op \in {"redeem", "logout", "change", "refresh", "profile"} \cup Plain,
           f.op = "refresh" => f.cookie = c /\ \A k \in DOMAIN cs : cs[k].op # "refresh",
           f.op \in {"change", "profile"} => f.token.of = u
    PROVE  AllFit(Append(cs, f), v, u, c)
<1> DEFINE ds == Append(cs, f)
<1>1. /\ ds \in Seq(Calls)
      /\ \A k \in DOMAIN cs : k \in DOMAIN ds /\ ds[k] = cs[k]
      /\ \A k \in DOMAIN ds \ DOMAIN cs : ds[k] = f /\ k = Len(cs) + 1
  BY AppendHas
<1> HIDE DEF ds
<1>2. Switched(cs) => Switched(ds)
  BY <1>1 DEF Switched
<1>3. Rotated(cs) => Rotated(ds)
  BY <1>1 DEF Rotated
<1>4. \A k \in DOMAIN cs : Overtaken(cs, k) => Overtaken(ds, k)
  BY <1>1 DEF Overtaken
<1>5. OneRefresh(ds)
  BY <1>1 DEF OneRefresh, AllFit
<1>6. ASSUME NEW k \in DOMAIN ds PROVE Fits(ds, k, v, u, c)
  <2>1. CASE k \in DOMAIN cs
    <3>1. Fits(cs, k, v, u, c) /\ ds[k] = cs[k]
      BY <1>1, <2>1 DEF AllFit
    <3> QED BY <1>2, <1>4, <2>1, <3>1 DEF Fits
  <2>2. CASE k \notin DOMAIN cs
    BY <1>1, <2>2 DEF Fits
  <2> QED BY <2>1, <2>2
<1>7. AllFit(ds, v, u, c)
  BY <1>2, <1>3, <1>5, <1>6 DEF AllFit
<1> QED BY <1>7 DEF ds

LEMMA RemoveFits ==
    ASSUME NEW cs \in Seq(Calls), NEW v, NEW u, NEW c, AllFit(cs, v, u, c), NEW k \in DOMAIN cs,
           cs[k].op # "refresh", ~(cs[k].op \in {"change", "logout"} /\ cs[k].answer = "ok")
    PROVE  AllFit(RemoveAt(cs, k), v, u, c)
<1> DEFINE ds == RemoveAt(cs, k)
<1>1. /\ ds \in Seq(Calls)
      /\ \A j \in DOMAIN ds :
            /\ Stood(k, j) \in DOMAIN cs \ {k} /\ ds[j] = cs[Stood(k, j)]
            /\ Stands(k, Stood(k, j)) = j
      /\ \A i \in DOMAIN cs \ {k} :
            Stands(k, i) \in DOMAIN ds /\ Stood(k, Stands(k, i)) = i
  BY PlacesLeft
<1> HIDE DEF ds
<1>2. Switched(cs) => Switched(ds)
  BY <1>1 DEF Switched
<1>3. Rotated(cs) => Rotated(ds)
  BY <1>1 DEF Rotated
<1>5. OneRefresh(ds)
  BY <1>1 DEF OneRefresh, AllFit
<1>6. ASSUME NEW j \in DOMAIN ds PROVE Fits(ds, j, v, u, c)
  <2> DEFINE i == Stood(k, j)
  <2>1. i \in DOMAIN cs \ {k} /\ ds[j] = cs[i]
    BY <1>1
  <2>2. Fits(cs, i, v, u, c)
    BY <2>1 DEF AllFit
  <2>3. ASSUME cs[i].op \in {"redeem", "change"}, cs[i].answer = "ok", Overtaken(cs, i)
        PROVE  cs[i].sets \in v \/ Overtaken(ds, j)
    <3>1. PICK g \in DOMAIN cs \ {i} :
             cs[g].op = "refresh" \/ (cs[g].op \in {"change", "logout"} /\ cs[g].answer = "ok")
      BY <2>3 DEF Overtaken
    <3>2. g # k
      BY <3>1
    <3>3. Stands(k, g) \in DOMAIN ds \ {j} /\ ds[Stands(k, g)] = cs[g]
      BY <1>1, <3>2
    <3> QED BY <3>1, <3>3 DEF Overtaken
  <2> QED BY <1>2, <2>1, <2>2, <2>3 DEF Fits
<1>7. AllFit(ds, v, u, c)
  BY <1>2, <1>3, <1>5, <1>6 DEF AllFit
<1> QED BY <1>7 DEF ds

\* What a handler at the server makes of the requests of one who is signed in.
LEMMA HandleFits ==
    ASSUME SessionTypes, NEW k \in DOMAIN calls, Handle(k), SignedIn
    PROVE  AllFit(calls', valid', user, jar)
<1>1. /\ AllFit(calls, valid, user, jar) /\ Fits(calls, k, valid, user, jar)
      /\ holder[jar] = user /\ jar \in DOMAIN holder
  BY DEF SignedIn, AllFit
<1>2. holder \in Seq(People) /\ valid \in SUBSET DOMAIN holder
  BY DEF SessionTypes
<1>3. calls[k].answer = "none"
  BY HandleIs
<1>4. ASSUME NEW as, NEW answer, NEW sets, Replied(k, as, answer, sets)
      PROVE  /\ OneRefresh(calls') /\ (Switched(calls) => Switched(calls'))
             /\ Rotated(calls) => Rotated(calls')
             /\ \A i \in DOMAIN calls : Overtaken(calls, i) => Overtaken(calls', i)
             /\ \A i \in DOMAIN calls' \ {k} : i \in DOMAIN calls /\ calls'[i] = calls[i]
             /\ DOMAIN calls' = DOMAIN calls
  <2>1. /\ DOMAIN calls' = DOMAIN calls /\ \A i \in DOMAIN calls \ {k} : calls'[i] = calls[i]
        /\ \A i \in DOMAIN calls : calls'[i].op = calls[i].op
    BY <1>4 DEF Replied
  <2>2. OneRefresh(calls')
    BY <1>1, <2>1 DEF OneRefresh, AllFit
  <2>3. Switched(calls) => Switched(calls')
    BY <1>3, <2>1 DEF Switched
  <2>4. Rotated(calls) => Rotated(calls')
    BY <1>3, <2>1 DEF Rotated
  <2>5. \A i \in DOMAIN calls : Overtaken(calls, i) => Overtaken(calls', i)
    BY <1>3, <2>1 DEF Overtaken
  <2> QED BY <2>1, <2>2, <2>3, <2>4, <2>5
\* An answer that revokes nothing.
<1>5. ASSUME NEW as, NEW answer, NEW sets, Replied(k, as, answer, sets), valid \subseteq valid',
             Fits(calls', k, valid', user, jar)
      PROVE  AllFit(calls', valid', user, jar)
  <2>1. ASSUME NEW i \in DOMAIN calls' \ {k} PROVE Fits(calls', i, valid', user, jar)
    <3>1. Fits(calls, i, valid, user, jar) /\ calls'[i] = calls[i] /\ i \in DOMAIN calls
      BY <1>1, <1>4, <1>5 DEF AllFit
    <3>2. (Switched(calls) => Switched(calls')) /\ (Overtaken(calls, i) => Overtaken(calls', i))
      BY <1>4, <1>5, <3>1
    <3> QED BY <1>5, <3>1, <3>2 DEF Fits
  <2> QED BY <1>1, <1>4, <1>5, <2>1 DEF AllFit
\* An answer that revokes, and that those that were under way are overtaken by.
<1>6. ASSUME NEW as, NEW answer, NEW sets, Replied(k, as, answer, sets),
             Fits(calls', k, valid', user, jar),
             \/ calls[k].op = "refresh" /\ (answer = "ok" \/ Switched(calls))
             \/ calls[k].op \in {"change", "logout"} /\ answer = "ok"
      PROVE  AllFit(calls', valid', user, jar)
  <2>0. calls'[k].op = calls[k].op /\ calls'[k].answer = answer /\ k \in DOMAIN calls'
    BY <1>6 DEF Replied
  <2>1. ASSUME NEW i \in DOMAIN calls' \ {k} PROVE Fits(calls', i, valid', user, jar)
    <3>1. Fits(calls, i, valid, user, jar) /\ calls'[i] = calls[i] /\ i \in DOMAIN calls
      BY <1>1, <1>4, <1>6 DEF AllFit
    <3>2. Overtaken(calls', i)
      BY <1>6, <2>0 DEF Overtaken
    <3>3. calls[i].op = "refresh" => Switched(calls')
      <4>1. CASE calls[k].op = "refresh"
        BY <1>1, <3>1, <4>1 DEF AllFit, OneRefresh
      <4>2. CASE calls[k].op # "refresh"
        BY <1>6, <2>0, <4>2 DEF Switched
      <4> QED BY <4>1, <4>2
    <3> QED BY <3>1, <3>2, <3>3 DEF Fits
  <2>2. Switched(calls') \/ Rotated(calls')
    BY <1>4, <1>6, <2>0 DEF Switched, Rotated
  <2> QED BY <1>4, <1>6, <2>1, <2>2 DEF AllFit
<1>7. CASE Renewed(k)
  <2>1. calls[k].op = "refresh" /\ calls[k].cookie = jar
    BY <1>1, <1>7 DEF Renewed, Fits, Renews, Plain
  <2>2. Replied(k, user, "ok", Len(holder) + 1) /\ valid' = (valid \ {jar}) \cup {Len(holder) + 1}
    BY <1>1, <1>7, <2>1 DEF Renewed, Started
  <2>3. Fits(calls', k, valid', user, jar)
    BY <2>1, <2>2 DEF Fits, Replied
  <2> QED BY <1>6, <2>1, <2>2, <2>3
<1>8. CASE NotRenewed(k)
  <2>1. calls[k].op = "refresh" /\ calls[k].cookie = jar /\ jar \notin valid
    BY <1>1, <1>8 DEF NotRenewed, Fits, Renews, Plain
  <2>2. ~Rotated(calls)
    BY <1>1, <1>3, <2>1 DEF Rotated, AllFit, OneRefresh
  <2>3. Switched(calls)
    BY <1>1, <2>1, <2>2 DEF AllFit
  <2>4. Replied(k, calls[k].as, "unauthorized", NoCookie)
    BY <1>8 DEF NotRenewed
  <2>5. Switched(calls')
    BY <1>4, <2>3, <2>4
  <2>6. Fits(calls', k, valid', user, jar)
    BY <2>1, <2>4, <2>5 DEF Fits, Replied
  <2> QED BY <1>6, <2>1, <2>3, <2>4, <2>6
<1>9. CASE Entered(k)
  <2>1. calls[k].op = "redeem"
    BY <1>1, <1>9 DEF Entered, Fits, Plain
  <2>2. /\ Replied(k, calls[k].as, "ok", Len(holder) + 1)
        /\ valid' = valid \cup {Len(holder) + 1}
    BY <1>9 DEF Entered, Started
  <2>3. Fits(calls', k, valid', user, jar)
    BY <2>1, <2>2 DEF Fits, Replied
  <2> QED BY <1>5, <2>2, <2>3
<1>10. CASE Rejected(k)
  <2>1. PICK answer \in {"declined", "unauthorized"} : Replied(k, calls[k].as, answer, Kept)
    BY <1>10 DEF Rejected
  <2>2. calls[k].op # "refresh" /\ UNCHANGED valid
    BY <1>10 DEF Rejected, Plain, Renews
  <2>3. Fits(calls', k, valid', user, jar)
    BY <1>1, <2>1, <2>2 DEF Fits, Replied
  <2> QED BY <1>5, <2>1, <2>2, <2>3
<1>11. CASE Ended(k)
  <2>1. Replied(k, calls[k].as, "ok", NoCookie) /\ calls[k].op = "logout"
    BY <1>11 DEF Ended
  <2>2. Fits(calls', k, valid', user, jar)
    BY <1>1, <2>1 DEF Fits, Replied
  <2> QED BY <1>6, <2>1, <2>2
<1>12. CASE Changed(k)
  <2>1. calls[k].op = "change" /\ calls[k].token.of = user
    BY <1>1, <1>12 DEF Changed, Fits
  <2>2. /\ Replied(k, user, "ok", Len(holder) + 1)
        /\ Len(holder) + 1 \in valid'
    BY <1>12, <2>1 DEF Changed, Started
  <2>3. Fits(calls', k, valid', user, jar)
    BY <2>1, <2>2 DEF Fits, Replied
  <2> QED BY <1>6, <2>1, <2>2, <2>3
<1>13. CASE Given(k)
  <2>1. Replied(k, calls[k].token.of, "ok", calls[k].sets) /\ UNCHANGED valid
        /\ calls[k].op \in Tells \cup Plain
    BY <1>13 DEF Given
  <2>2. Fits(calls', k, valid', user, jar)
    BY <1>1, <2>1 DEF Fits, Replied, Plain, Tells
  <2> QED BY <1>5, <2>1, <2>2
<1> QED BY HandleIs, <1>7, <1>8, <1>9, <1>10, <1>11, <1>12, <1>13

LEMMA HandleCoherent ==
    ASSUME SessionTypes, NEW k \in DOMAIN calls, Handle(k), Coherent
    PROVE  Coherent'
<1>1. /\ UNCHANGED <<status, user, page, bearer, jar, waiting>>
  BY DEF Handle, tab
<1>2. calls[k].answer = "none" /\ holder \in Seq(People) /\ valid \in SUBSET DOMAIN holder
  BY HandleIs DEF SessionTypes
<1>3. \A t \in DOMAIN holder : t \in DOMAIN holder' /\ holder'[t] = holder[t]
  <2>1. ASSUME NEW a \in People, NEW remaining, Started(a, remaining)
        PROVE  \A t \in DOMAIN holder : t \in DOMAIN holder' /\ holder'[t] = holder[t]
    BY <1>2, <2>1 DEF Started
  <2>2. CallOK(calls[k], holder)
    BY DEF SessionTypes, CallsOK
  <2>3. Renewed(k) => holder[calls[k].cookie] \in People
    BY <1>2 DEF Renewed
  <2>4. Entered(k) => calls[k].as \in People
    BY <2>2 DEF Entered, CallOK
  <2> QED BY HandleIs, <2>1, <2>3, <2>4 DEF Renewed, NotRenewed, Entered, Rejected, Ended, Changed, Given
<1>4. /\ DOMAIN calls' = DOMAIN calls
      /\ \A i \in DOMAIN calls \ {k} : calls'[i] = calls[i]
      /\ calls'[k].op = calls[k].op /\ calls'[k].token = calls[k].token
      /\ calls'[k].cookie = calls[k].cookie
  BY HandleIs DEF Renewed, NotRenewed, Entered, Rejected, Ended, Changed, Given, Replied
<1>5. CASE status = "authenticated" /\ SignedIn
  <2>1. AllFit(calls', valid', user', jar')
    BY <1>1, <1>5, HandleFits
  <2> QED BY <1>1, <1>3, <1>5, <2>1 DEF SignedIn, Coherent
<1>6. CASE status = "anonymous" /\ SignedOut
  <2>1. calls[k].op \in {"login", "redeem", "refresh"} \cup Plain
        /\ (calls[k].op = "refresh" => calls[k].cookie = NoCookie)
    BY <1>6 DEF SignedOut
  <2>2. NoCookie \notin valid
    BY <1>2 DEF NoCookie
  <2>3. /\ valid \subseteq valid' /\ (calls'[k].op = "refresh" => calls'[k].answer # "ok")
        /\ calls'[k].op \in {"login", "redeem"} /\ calls'[k].answer = "ok" => calls'[k].sets \in valid'
    <3>1. ~Renewed(k) /\ ~Ended(k) /\ ~Changed(k)
      BY <2>1, <2>2 DEF Renewed, Ended, Changed, Renews, Plain
    <3>2. CASE NotRenewed(k)
      <4>1. calls[k].op = "refresh"
        BY <2>1, <3>2 DEF NotRenewed, Renews, Plain
      <4> QED BY <2>1, <3>2, <4>1 DEF NotRenewed, Replied
    <3>3. CASE Entered(k)
      BY <3>3 DEF Entered, Replied, Started
    <3>4. CASE Rejected(k)
      BY <3>4 DEF Rejected, Replied
    <3>5. CASE Given(k)
      BY <3>5 DEF Given, Replied, Tells, Plain
    <3> QED BY HandleIs, <3>1, <3>2, <3>3, <3>4, <3>5
  <2>4. SignedOut'
    BY <1>1, <1>4, <1>6, <2>1, <2>3 DEF SignedOut
  <2> QED BY <1>1, <1>6, <2>4 DEF Coherent
<1>7. CASE status = "loading" /\ Loading
  <2>1. PICK j \in DOMAIN calls : /\ \A i \in DOMAIN calls \ {j} : calls[i].op = "redeem"
                                  /\ Restoring(j) \/ Identifying(j)
    BY <1>7 DEF Loading
  <2>2. \A i \in DOMAIN calls' \ {j} : calls'[i].op = "redeem"
    BY <1>4, <2>1
  <2>3. CASE k # j
    <3>1. calls[k].op = "redeem" /\ calls'[j] = calls[j]
      BY <1>4, <2>1, <2>3
    <3>2. valid \subseteq valid'
      BY HandleIs, <3>1 DEF Renewed, NotRenewed, Entered, Rejected, Ended, Changed, Given, Started,
         Renews, Tells, Plain
    <3>3. (Restoring(j) => Restoring(j)') /\ (Identifying(j) => Identifying(j)')
      BY <1>1, <1>2, <1>3, <3>1, <3>2 DEF Restoring, Identifying
    <3> QED BY <1>1, <1>4, <1>7, <2>1, <2>2, <3>3 DEF Coherent, Loading
  <2>4. CASE k = j /\ Restoring(j)
    <3>1. calls[k].op = "restore"
      BY <2>4 DEF Restoring
    <3>2. /\ calls'[k].answer # "none"
          /\ calls'[k].answer = "ok" => calls'[k].sets \in valid'
      BY HandleIs, <3>1 DEF Renewed, NotRenewed, Entered, Rejected, Ended, Changed, Given, Started,
         Replied, Tells, Plain
    <3>3. Restoring(j)'
      BY <1>1, <1>4, <2>4, <3>2 DEF Restoring
    <3> QED BY <1>1, <1>4, <1>7, <2>2, <3>3 DEF Coherent, Loading
  <2>5. CASE k = j /\ Identifying(j)
    <3>1. calls[k].op = "me" /\ calls[k].token.of = bearer.of
      BY <2>5 DEF Identifying
    <3>2. /\ UNCHANGED <<holder, valid>>
          /\ calls'[k].as = bearer.of
      BY HandleIs, <3>1 DEF Renewed, NotRenewed, Entered, Rejected, Ended, Changed, Given,
         Replied, Renews, Tells, Plain
    <3>3. Identifying(j)'
      BY <1>1, <1>4, <2>5, <3>2 DEF Identifying
    <3> QED BY <1>1, <1>4, <1>7, <2>2, <3>3 DEF Coherent, Loading
  <2> QED BY <2>1, <2>3, <2>4, <2>5
<1> QED BY <1>5, <1>6, <1>7 DEF Coherent

LEMMA FetchCoherent ==
    ASSUME SessionTypes, Coherent, NEW op, NEW as \in People \cup {Nobody}, Fetch(op, as),
           \/ op = "login" /\ status = "anonymous" /\ as \in People
           \/ op = "redeem" /\ as \in People
           \/ op \in {"logout", "change", "call", "profile", "stream"} /\ status = "authenticated"
    PROVE  Coherent'
<1> DEFINE f == Carried(op, as)
<1>1. calls \in Seq(Calls) /\ op \in Operations \ {"me"}
  BY DEF SessionTypes, CallsOK, Operations, Switches, Renews, Tells, Plain
<1>2. f \in Calls
  BY <1>1, CarriedIs
<1>3. f.op = op /\ f.token = bearer /\ f.cookie = jar /\ f.answer = "none"
  BY DEF Carried, Carrying
<1>4. calls' = Append(calls, f) /\ UNCHANGED <<status, user, page, bearer, jar, waiting, holder, valid>>
  BY DEF Fetch, tab
<1> HIDE DEF f
<1>5. /\ \A k \in DOMAIN calls : k \in DOMAIN calls' /\ calls'[k] = calls[k]
      /\ \A k \in DOMAIN calls' \ DOMAIN calls : calls'[k] = f
  BY <1>1, <1>2, <1>4, AppendHas
<1>6. CASE status = "authenticated" /\ SignedIn
  <2>1. AllFit(Append(calls, f), valid, user, jar)
    BY <1>1, <1>2, <1>3, <1>6, AppendFits DEF SignedIn, Plain
  <2> QED BY <1>4, <1>6, <2>1 DEF SignedIn, Coherent
<1>7. CASE status = "anonymous" /\ SignedOut
  BY <1>3, <1>4, <1>5, <1>7 DEF SignedOut, Coherent
<1>8. CASE status = "loading" /\ Loading
  <2>1. PICK j \in DOMAIN calls : /\ \A i \in DOMAIN calls \ {j} : calls[i].op = "redeem"
                                  /\ Restoring(j) \/ Identifying(j)
    BY <1>8 DEF Loading
  <2>2. \A i \in DOMAIN calls' \ {j} : calls'[i].op = "redeem"
    BY <1>3, <1>5, <1>8, <2>1
  <2>3. (Restoring(j) => Restoring(j)') /\ (Identifying(j) => Identifying(j)')
    BY <1>4, <1>5 DEF Restoring, Identifying
  <2> QED BY <1>4, <1>5, <1>8, <2>1, <2>2, <2>3 DEF Coherent, Loading
<1> QED BY <1>6, <1>7, <1>8 DEF Coherent

LEMMA RefreshingFits ==
    ASSUME SessionTypes, NEW cs \in Seq(Calls), AllFit(cs, valid, user, jar),
           Underway("refresh") <=> \E k \in DOMAIN cs : cs[k].op = "refresh"
    PROVE  AllFit(Refreshing(cs), valid, user, jar)
<1> DEFINE f == Carried("refresh", Nobody)
<1>1. f \in Calls
  BY CarriedIs DEF Operations, Renews
<1>2. f.op = "refresh" /\ f.cookie = jar /\ f.answer = "none"
  BY DEF Carried, Carrying
<1>3. Refreshing(cs) = IF Underway("refresh") THEN cs ELSE Append(cs, f)
  BY DEF Refreshing
<1> HIDE DEF f
<1> QED BY <1>1, <1>2, <1>3, AppendFits

LEMMA RenewCoherent ==
    ASSUME SessionTypes, Coherent, Renew
    PROVE  Coherent'
<1>1. /\ status = "authenticated" /\ calls' = Refreshing(calls)
      /\ UNCHANGED <<status, user, page, bearer, jar, waiting, holder, valid>>
  BY DEF Renew, InApp, tab
<1>2. SignedIn /\ calls \in Seq(Calls)
  BY <1>1 DEF Coherent, SessionTypes, CallsOK
<1>3. Underway("refresh") <=> \E k \in DOMAIN calls : calls[k].op = "refresh"
  BY DEF Underway
<1>4. AllFit(calls', valid, user, jar)
  BY <1>1, <1>2, <1>3, RefreshingFits DEF SignedIn
<1> QED BY <1>1, <1>2, <1>4 DEF SignedIn, Coherent

LEMMA ExpireCoherent ==
    ASSUME SessionTypes, Coherent, Expire
    PROVE  Coherent'
<1>1. /\ UNCHANGED <<status, user, page, jar, calls, waiting, holder, valid>> /\ bearer.fresh
      /\ bearer'.of = bearer.of
  BY ExpireTypes DEF Expire
<1>2. bearer # NoBearer
  BY <1>1 DEF NoBearer
<1>3. CASE status = "authenticated" /\ SignedIn
  BY <1>1, <1>3 DEF SignedIn, Coherent
<1>4. CASE status = "anonymous" /\ SignedOut
  BY <1>2, <1>4 DEF SignedOut
<1>5. CASE status = "loading" /\ Loading
  <2>1. PICK j \in DOMAIN calls : /\ \A i \in DOMAIN calls \ {j} : calls[i].op = "redeem"
                                  /\ Identifying(j)
    BY <1>2, <1>5 DEF Loading, Restoring
  <2>2. Identifying(j)'
    BY <1>1, <2>1 DEF Identifying
  <2> QED BY <1>1, <1>5, <2>1, <2>2 DEF Coherent, Loading
<1> QED BY <1>3, <1>4, <1>5 DEF Coherent

\* After signing in or out with nothing of the kind under way the session is coherent,
\* whatever went wrong before.
LEMMA SwitchCoherent ==
    ASSUME SessionTypes, NEW k \in DOMAIN calls, SwitchAnswered(k), loose = {} => Coherent
    PROVE  loose' = {} => Coherent'
<1> SUFFICES ASSUME loose' = {} PROVE Coherent'
  OBVIOUS
<1>1. /\ calls[k].op \in Switches /\ calls[k].answer = "ok"
      /\ SetCookie(calls[k]) /\ calls' = Taken(k)
      /\ bearer' = IF calls[k].op = "logout" THEN NoBearer ELSE [of |-> calls[k].as, fresh |-> TRUE]
      /\ \/ calls[k].op = "logout" /\ Becomes("anonymous", Nobody)
         \/ calls[k].op = "change" /\ UNCHANGED <<status, user>>
         \/ calls[k].op \in {"login", "redeem"} /\ Becomes("authenticated", calls[k].as)
      /\ loose' = IF Crossing(calls[k], Taken(k)) THEN loose \cup {"crossed"}
                  ELSE IF calls[k].op = "logout" \/ (calls[k].op # "change" /\ calls[k].sets \in valid) THEN {}
                  ELSE loose
      /\ UNCHANGED <<waiting, holder, valid>>
  BY DEF SwitchAnswered, Taken
<1>2. ~Crossing(calls[k], Taken(k))
  BY <1>1
<1>3. \A i \in DOMAIN calls \ {k} : calls[i].op \in Plain
  BY <1>1, <1>2, Alone
<1>4. \A j \in DOMAIN calls' : calls'[j].op \in Plain
  BY <1>1, <1>3, TakenFrom
<1>5. ~Underway("refresh") /\ waiting = <<>>
  BY <1>1, <1>3 DEF Underway, SessionTypes, Switches, Plain
<1>6. CASE calls[k].op = "logout"
  <2>1. jar' = NoCookie /\ bearer' = NoBearer /\ status' = "anonymous"
    BY <1>1, <1>6, AnswerIs DEF SetCookie, Becomes, NoCookie, Kept
  <2>2. SignedOut'
    BY <1>4, <2>1 DEF SignedOut, Plain
  <2> QED BY <2>1, <2>2 DEF Coherent
<1>7. ASSUME calls[k].op # "logout", calls[k].sets \in valid, status' = "authenticated",
             user' = calls[k].as
      PROVE  Coherent'
  <2>1. /\ calls[k].sets \in DOMAIN holder /\ holder[calls[k].sets] = calls[k].as
        /\ calls[k].sets # Kept
    BY <1>1, <1>7, AnswerIs DEF Issuing, Switches, SessionTypes, Kept
  <2>2. jar' = calls[k].sets /\ bearer'.of = calls[k].as
    BY <1>1, <1>7, <2>1 DEF SetCookie
  <2>3. AllFit(calls', valid', user', jar')
    BY <1>1, <1>4, <1>7, <2>2, QuietFits DEF Plain
  <2> QED BY <1>1, <1>5, <1>7, <2>1, <2>2, <2>3 DEF SignedIn, Coherent
<1>8. CASE calls[k].op = "change"
  <2>1. Coherent
    BY <1>1, <1>2, <1>8
  <2>2. status = "authenticated" /\ SignedIn
    BY <1>8, <2>1 DEF Coherent, SignedOut, Loading, Restoring, Identifying, Plain
  <2>3. Fits(calls, k, valid, user, jar)
    BY <2>2 DEF SignedIn, AllFit
  <2>4. ~Overtaken(calls, k)
    BY <1>3 DEF Overtaken, Plain
  <2>5. calls[k].sets \in valid /\ user = calls[k].as
    BY <1>1, <1>8, <2>3, <2>4 DEF Fits
  <2> QED BY <1>1, <1>7, <1>8, <2>2, <2>5
<1>9. CASE calls[k].op \in {"login", "redeem"}
  <2>1. calls[k].sets \in valid
    <3>1. CASE calls[k].sets \notin valid
      <4>1. Coherent
        BY <1>1, <1>2, <1>9, <3>1
      <4>2. status = "authenticated" /\ SignedIn
        BY <1>1, <1>3, <1>9, <3>1, <4>1 DEF Coherent, SignedOut, Loading, Restoring, Identifying, Plain
      <4>3. Fits(calls, k, valid, user, jar)
        BY <4>2 DEF SignedIn, AllFit
      <4>4. ~Overtaken(calls, k)
        BY <1>3 DEF Overtaken, Plain
      <4> QED BY <1>1, <1>9, <3>1, <4>3, <4>4 DEF Fits, Plain
    <3> QED BY <3>1
  <2>2. status' = "authenticated" /\ user' = calls[k].as
    BY <1>1, <1>9 DEF Becomes
  <2> QED BY <1>7, <1>9, <2>1, <2>2
<1> QED BY <1>1, <1>6, <1>8, <1>9 DEF Switches

LEMMA CallCoherent ==
    ASSUME SessionTypes, Coherent, NEW k \in DOMAIN calls, CallAnswered(k)
    PROVE  loose' = {} => Coherent'
<1> SUFFICES ASSUME loose' = {} PROVE Coherent'
  OBVIOUS
<1>1. /\ \/ calls[k].op \notin Switches \cup Renews /\ calls[k].answer = "ok"
         \/ calls[k].answer = "declined"
      /\ calls' = Taken(k)
      /\ \/ calls[k].op = "me" /\ Becomes("authenticated", calls[k].as)
         \/ /\ calls[k].op = "profile" /\ calls[k].answer = "ok"
            /\ user' = calls[k].as /\ UNCHANGED status
         \/ /\ calls[k].op \notin Tells \/ calls[k].answer = "declined"
            /\ UNCHANGED <<status, user>>
      /\ loose' = IF Crossing(calls[k], Taken(k)) THEN loose \cup {"crossed"} ELSE loose
      /\ UNCHANGED <<page, bearer, jar, waiting, holder, valid>>
  BY DEF CallAnswered, Taken
<1>2. ~Crossing(calls[k], Taken(k))
  BY <1>1
<1>3. calls \in Seq(Calls) /\ CallOK(calls[k], holder) /\ valid \in SUBSET DOMAIN holder
  BY DEF SessionTypes, CallsOK
<1>4. calls[k].answer = "declined" => calls[k].op \notin Renews \cup {"me"}
  BY <1>3 DEF CallOK
<1>5. CASE status = "authenticated" /\ SignedIn
  <2>1. Fits(calls, k, valid, user, jar) /\ AllFit(calls, valid, user, jar)
    BY <1>5 DEF SignedIn, AllFit
  <2>2. UNCHANGED <<status, user>>
    <3>1. calls[k].op # "me"
      BY <2>1 DEF Fits, Plain
    <3>2. calls[k].op = "profile" /\ calls[k].answer = "ok" => calls[k].as = user
      BY <2>1 DEF Fits
    <3> QED BY <1>1, <3>1, <3>2
  <2>3. calls[k].op # "refresh" /\ ~(calls[k].op \in {"change", "logout"} /\ calls[k].answer = "ok")
    BY <1>1, <1>4 DEF Switches, Renews
  <2>4. AllFit(calls', valid', user', jar')
    BY <1>1, <1>3, <2>1, <2>2, <2>3, RemoveFits DEF Taken
  <2> QED BY <1>1, <1>5, <2>2, <2>4 DEF SignedIn, Coherent
<1>6. CASE status = "anonymous" /\ SignedOut
  <2>1. calls[k].op \notin Tells
    BY <1>6 DEF SignedOut, Tells, Plain
  <2>2. UNCHANGED <<status, user>>
    BY <1>1, <2>1 DEF Tells
  <2>3. SignedOut'
    BY <1>1, <1>6, TakenFrom DEF SignedOut
  <2> QED BY <1>1, <1>6, <2>2, <2>3 DEF Coherent
<1>7. CASE status = "loading" /\ Loading
  <2>1. PICK j \in DOMAIN calls : /\ \A i \in DOMAIN calls \ {j} : calls[i].op = "redeem"
                                  /\ Restoring(j) \/ Identifying(j)
    BY <1>7 DEF Loading
  <2>2. calls[j].op \in {"restore", "me"}
    BY <2>1 DEF Restoring, Identifying
  <2>3. k = j
    <3>1. CASE k # j
      <4>1. calls[k].op = "redeem"
        BY <2>1, <3>1
      <4> QED BY <1>2, <2>2, <3>1, <4>1, Alone DEF Switches, Plain
    <3> QED BY <3>1
  <2>4. calls[k].op = "me" /\ calls[k].answer = "ok" /\ Identifying(k)
    BY <1>1, <1>4, <2>1, <2>2, <2>3 DEF Renews, Restoring
  <2>5. \A i \in DOMAIN calls \ {k} : FALSE
    BY <1>2, <2>1, <2>3, <2>4, Alone DEF Tells, Switches
  <2>6. DOMAIN calls' = {}
    BY <1>1, <2>5, TakenFrom
  <2>7. /\ status' = "authenticated" /\ user' = bearer.of /\ jar \in valid /\ holder[jar] = bearer.of
        /\ waiting = <<>>
    BY <1>1, <1>7, <2>4 DEF Becomes, Tells, Identifying, Loading
  <2>8. AllFit(calls', valid', user', jar')
    BY <1>1, <2>6, <2>7, QuietFits
  <2> QED BY <1>1, <1>3, <2>7, <2>8 DEF SignedIn, Coherent
<1> QED BY <1>5, <1>6, <1>7 DEF Coherent

LEMMA UnauthorizedCoherent ==
    ASSUME SessionTypes, Coherent, NEW k \in DOMAIN calls, Unauthorized(k)
    PROVE  Coherent'
<1>1. /\ calls[k].op \notin Renews /\ calls[k].answer = "unauthorized"
      /\ IF calls[k].again
         THEN /\ calls' = Taken(k) /\ UNCHANGED waiting
              /\ status' = IF calls[k].op = "me" THEN "anonymous" ELSE status
         ELSE /\ calls' = Refreshing(Taken(k)) /\ waiting' = Append(waiting, calls[k])
              /\ UNCHANGED status
      /\ UNCHANGED <<user, page, bearer, jar, holder, valid>>
  BY DEF Unauthorized, Taken
<1>2. /\ calls \in Seq(Calls) /\ CallOK(calls[k], holder) /\ calls[k] \in Calls /\ waiting \in Seq(Calls)
  BY DEF SessionTypes, CallsOK, WaitingOK
<1>3. calls[k].op \notin {"me", "redeem", "logout", "refresh", "restore"} /\ UNCHANGED status
  BY <1>1, <1>2 DEF CallOK, Renews
<1>4. Taken(k) \in Seq(Calls)
  BY <1>2, Remaining DEF Taken
<1>5. CASE status = "authenticated" /\ SignedIn
  <2>1. Fits(calls, k, valid, user, jar) /\ AllFit(calls, valid, user, jar)
    BY <1>5 DEF SignedIn, AllFit
  <2>2. AllFit(Taken(k), valid, user, jar)
    BY <1>1, <1>2, <1>3, <2>1, RemoveFits DEF Taken
  <2>3. Underway("refresh") <=> \E j \in DOMAIN Taken(k) : Taken(k)[j].op = "refresh"
    BY <1>3, TakenFrom, TakenIs DEF Underway
  <2>4. AllFit(Refreshing(Taken(k)), valid, user, jar)
    BY <1>4, <2>2, <2>3, RefreshingFits
  <2>5. AllFit(calls', valid, user, jar)
    BY <1>1, <2>2, <2>4
  <2>6. calls[k].op \in {"change", "profile"} \cup Plain
    BY <1>3, <2>1 DEF Fits
  <2>7. \A i \in DOMAIN waiting' : waiting'[i].op \in {"change", "profile"} \cup Plain
    <3>1. CASE UNCHANGED waiting
      BY <1>5, <3>1 DEF SignedIn
    <3>2. CASE waiting' = Append(waiting, calls[k])
      <4>1. \A i \in DOMAIN waiting' : waiting'[i] = calls[k] \/ (i \in DOMAIN waiting /\ waiting'[i] = waiting[i])
        BY <1>2, <3>2, AppendHas, SMTT(30)
      <4> QED BY <1>5, <2>6, <4>1 DEF SignedIn
    <3> QED BY <1>1, <3>1, <3>2
  <2> QED BY <1>1, <1>3, <1>5, <2>5, <2>7 DEF SignedIn, Coherent
<1>6. CASE status = "anonymous" /\ SignedOut
  <2> DEFINE f == Carried("refresh", Nobody)
  <2>1. f \in Calls
    BY CarriedIs DEF Operations, Renews
  <2>2. f.op = "refresh" /\ f.cookie = NoCookie /\ f.answer = "none"
    BY <1>6 DEF Carried, Carrying, SignedOut
  <2>3. calls' = Taken(k) \/ calls' = Append(Taken(k), f)
    BY <1>1 DEF Refreshing
  <2> HIDE DEF f
  <2>4. \A i \in DOMAIN calls' : calls'[i] = f \/ \E j \in DOMAIN calls : calls'[i] = calls[j]
    <3>1. \A i \in DOMAIN Append(Taken(k), f) : \/ Append(Taken(k), f)[i] = f
                                                \/ /\ i \in DOMAIN Taken(k)
                                                   /\ Append(Taken(k), f)[i] = Taken(k)[i]
      BY <1>4, <2>1, AppendHas
    <3> QED BY <2>3, <3>1, TakenFrom
  <2>5. SignedOut'
    BY <1>1, <1>6, <2>2, <2>4 DEF SignedOut
  <2> QED BY <1>3, <1>6, <2>5 DEF Coherent
<1>7. CASE status = "loading" /\ Loading
  BY <1>3, <1>7 DEF Loading, Restoring, Identifying
<1> QED BY <1>5, <1>6, <1>7 DEF Coherent

LEMMA RefreshedCoherent ==
    ASSUME SessionTypes, Coherent, NEW k \in DOMAIN calls, Refreshed(k)
    PROVE  loose' = {} => Coherent'
<1> SUFFICES ASSUME loose' = {} PROVE Coherent'
  OBVIOUS
<1>1. RefreshedTo(k)
  BY RefreshedIs
<1>2. calls[k].op \in Renews /\ calls[k].answer = "ok" /\ ~Crossing(calls[k], Taken(k))
  BY <1>1 DEF RefreshedTo
<1>3. \A i \in DOMAIN calls \ {k} : calls[i].op \notin Switches
  BY <1>2, Alone
<1>4. /\ calls[k].sets \in DOMAIN holder /\ holder[calls[k].sets] = calls[k].as
      /\ calls[k].as \in People /\ calls[k].sets \in Int
  BY <1>2, AnswerIs DEF Issuing
<1>5. holder \in Seq(People)
  BY DEF SessionTypes
<1>6. jar' = calls[k].sets /\ bearer' = [of |-> calls[k].as, fresh |-> TRUE]
  BY <1>1, <1>4, <1>5 DEF RefreshedTo, SetCookie, Kept
<1>7. UNCHANGED <<status, user, holder, valid>>
  BY <1>1 DEF RefreshedTo
<1>8. CASE status = "authenticated" /\ SignedIn
  <2>1. Fits(calls, k, valid, user, jar) /\ AllFit(calls, valid, user, jar)
    BY <1>8 DEF SignedIn, AllFit
  <2>2. calls[k].op = "refresh"
    BY <1>2, <2>1 DEF Fits, Renews, Plain
  <2>3. ~Switched(calls)
    BY <1>2, <1>3, <2>2 DEF Switched, Switches
  <2>4. calls[k].sets \in valid /\ calls[k].as = user
    BY <1>2, <2>1, <2>2, <2>3 DEF Fits
  <2> DEFINE new == [of |-> calls[k].as, fresh |-> TRUE]
  <2>5. waiting' = <<>> /\ calls' = Resent(Taken(k), new, calls[k].sets)
    BY <1>1, <2>2 DEF RefreshedTo
  <2>6. CallsOK(Taken(k), holder)
    BY TakenIs
  <2>7. \A j \in DOMAIN calls' :
           \/ \E i \in DOMAIN Taken(k) : calls'[j] = Taken(k)[i]
           \/ \E i \in DOMAIN waiting : calls'[j] = Again(waiting[i], new, calls[k].sets)
    BY <1>4, <2>5, <2>6, ResentIs
  <2>8. ASSUME NEW j \in DOMAIN calls'
        PROVE  /\ calls'[j].op \in {"change", "profile"} \cup Plain
               /\ calls'[j].op = "change" => calls'[j].answer = "none"
               /\ calls'[j].op \in {"change", "profile"} =>
                     calls'[j].token.of = user /\ (calls'[j].answer = "ok" => calls'[j].as = user)
    <3>1. ASSUME NEW i \in DOMAIN calls \ {k}, calls'[j] = calls[i]
          PROVE  /\ calls'[j].op \in {"profile"} \cup Plain
                 /\ calls'[j].op = "profile" =>
                       calls'[j].token.of = user /\ (calls'[j].answer = "ok" => calls'[j].as = user)
      <4>1. Fits(calls, i, valid, user, jar) /\ calls[i].op # "refresh"
        BY <2>1, <2>2 DEF AllFit, OneRefresh
      <4> QED BY <1>3, <3>1, <4>1 DEF Fits, Switches
    <3>2. ASSUME NEW i \in DOMAIN waiting, calls'[j] = Again(waiting[i], new, calls[k].sets)
          PROVE  /\ calls'[j].op \in {"change", "profile"} \cup Plain
                 /\ calls'[j].answer = "none" /\ calls'[j].token.of = user
      <4>1. waiting[i].op \in {"change", "profile"} \cup Plain
        BY <1>8 DEF SignedIn
      <4> QED BY <2>4, <3>2, <4>1 DEF Again, Carrying
    <3>3. CASE \E i \in DOMAIN Taken(k) : calls'[j] = Taken(k)[i]
      <4>1. \E i \in DOMAIN calls \ {k} : calls'[j] = calls[i]
        BY <3>3, TakenFrom
      <4> QED BY <3>1, <4>1 DEF Plain
    <3>4. CASE \E i \in DOMAIN waiting : calls'[j] = Again(waiting[i], new, calls[k].sets)
      BY <3>2, <3>4
    <3> QED BY <2>7, <3>3, <3>4
  <2>9. AllFit(calls', valid, user, calls[k].sets)
    BY <2>4, <2>8, QuietFits
  <2> QED BY <1>4, <1>6, <1>7, <1>8, <2>4, <2>5, <2>9 DEF SignedIn, Coherent
<1>9. CASE status = "anonymous" /\ SignedOut
  BY <1>2, <1>9 DEF SignedOut, Renews, Plain
<1>10. CASE status = "loading" /\ Loading
  <2>1. PICK j \in DOMAIN calls : /\ \A i \in DOMAIN calls \ {j} : calls[i].op = "redeem"
                                  /\ Restoring(j) \/ Identifying(j)
    BY <1>10 DEF Loading
  <2>2. k = j /\ Restoring(k)
    BY <1>2, <2>1 DEF Renews, Identifying
  <2>3. \A i \in DOMAIN calls \ {k} : FALSE
    BY <1>3, <2>1, <2>2 DEF Switches
  <2>4. DOMAIN Taken(k) = {}
    BY <2>3, TakenFrom
  <2> DEFINE me == Carrying("me", calls[k].as, FALSE, [of |-> calls[k].as, fresh |-> TRUE], calls[k].sets)
  <2>5. calls[k].op = "restore" /\ calls[k].sets \in valid
    BY <1>2, <2>2 DEF Restoring
  <2>6. calls' = Append(Taken(k), me) /\ waiting' = <<>>
    BY <1>1, <1>10, <2>5 DEF RefreshedTo, Loading
  <2>7. me \in Calls
    <3>1. [of |-> calls[k].as, fresh |-> TRUE] \in Bearers
      BY <1>4, FreshBearer
    <3> QED BY <1>4, <3>1, CarryingIs DEF Operations, Tells
  <2>8. me.op = "me" /\ me.token.of = calls[k].as /\ me.answer = "none"
    BY DEF Carrying
  <2> HIDE DEF me
  <2>9. Taken(k) \in Seq(Calls)
    BY TakenIs DEF CallsOK
  <2>10. /\ \A i \in DOMAIN calls' : calls'[i] = me /\ i = Len(Taken(k)) + 1
         /\ \E i \in DOMAIN calls' : calls'[i] = me
    BY <2>4, <2>6, <2>7, <2>9, AppendHas
  <2>11. PICK i \in DOMAIN calls' : calls'[i] = me
    BY <2>10
  <2>12. \A p \in DOMAIN calls' \ {i} : FALSE
    BY <2>10
  <2>13. /\ calls'[i].op = "me" /\ calls'[i].token.of = bearer'.of
         /\ jar' \in valid' /\ holder'[jar'] = bearer'.of
         /\ calls'[i].answer = "none"
    BY <1>4, <1>6, <1>7, <2>5, <2>8, <2>11
  <2>14. Loading'
    BY <2>6, <2>11, <2>12, <2>13 DEF Loading, Identifying
  <2> QED BY <1>7, <1>10, <2>14 DEF Coherent
<1> QED BY <1>8, <1>9, <1>10 DEF Coherent

\* While nothing of the kind has gone wrong, no refresh of one who is signed in is refused.
LEMMA NotRefreshedCoherent ==
    ASSUME SessionTypes, NEW k \in DOMAIN calls, NotRefreshed(k), loose = {} => Coherent
    PROVE  /\ loose' = {} => Coherent'
           /\ loose' = {} => status # "authenticated"
<1> SUFFICES ASSUME loose' = {} PROVE Coherent' /\ status # "authenticated"
  OBVIOUS
<1>1. /\ calls[k].op \in Renews /\ calls[k].answer = "unauthorized"
      /\ SetCookie(calls[k]) /\ calls' = Taken(k) /\ GiveUp(calls[k])
      /\ loose = {} /\ ~Crossing(calls[k], Taken(k))
      /\ UNCHANGED <<page, holder, valid>>
  BY DEF NotRefreshed, Taken
<1>2. ~Crossing(calls[k], Taken(k)) /\ Coherent
  BY <1>1
<1>3. \A i \in DOMAIN calls \ {k} : calls[i].op \notin Switches
  BY <1>1, <1>2, Alone
<1>4. CallOK(calls[k], holder)
  BY DEF SessionTypes, CallsOK
<1>5. jar' = NoCookie
  BY <1>1, <1>4 DEF CallOK, SetCookie, NoCookie, Kept
<1>6. CASE status = "authenticated" /\ SignedIn
  <2>1. Fits(calls, k, valid, user, jar)
    BY <1>6 DEF SignedIn, AllFit
  <2>2. calls[k].op = "refresh" /\ Switched(calls)
    BY <1>1, <2>1 DEF Fits, Renews, Plain
  <2> QED BY <1>3, <2>2 DEF Switched, Switches
<1>7. CASE status = "anonymous" /\ SignedOut
  <2>1. status' = "anonymous" /\ bearer' = NoBearer
    BY <1>1, <1>7 DEF GiveUp, Becomes, SignedOut
  <2>2. SignedOut'
    BY <1>1, <1>5, <1>7, <2>1, TakenFrom DEF SignedOut
  <2> QED BY <1>7, <2>1, <2>2 DEF Coherent
<1>8. CASE status = "loading" /\ Loading
  <2>1. PICK j \in DOMAIN calls : /\ \A i \in DOMAIN calls \ {j} : calls[i].op = "redeem"
                                  /\ Restoring(j) \/ Identifying(j)
    BY <1>8 DEF Loading
  <2>2. k = j /\ Restoring(k)
    BY <1>1, <2>1 DEF Renews, Identifying
  <2>3. DOMAIN calls' = {}
    BY <1>1, <1>3, <2>1, <2>2, TakenFrom DEF Switches
  <2>4. status' = "anonymous" /\ bearer' = NoBearer
    BY <1>1, <2>2 DEF GiveUp, Restoring
  <2> QED BY <1>5, <1>8, <2>3, <2>4 DEF SignedOut, Coherent
<1> QED BY <1>2, <1>6, <1>7, <1>8 DEF Coherent

LEMMA RejectsCoherent ==
    ASSUME SessionTypes, Coherent, NEW k \in DOMAIN calls, Rejects(k)
    PROVE  loose' = {} => Coherent'
<1> SUFFICES ASSUME loose' = {} PROVE Coherent'
  OBVIOUS
<1>1. /\ calls' = Taken(k) /\ UNCHANGED <<jar, holder, valid>>
      /\ calls[k].op \notin Switches \cup Renews \cup {"me"}
      /\ UNCHANGED <<status, user, bearer, waiting>>
  BY DEF Rejects, Taken
<1>2. calls \in Seq(Calls)
  BY DEF SessionTypes, CallsOK
<1>3. CASE status = "authenticated" /\ SignedIn
  <2>1. AllFit(calls', valid, user, jar)
    BY <1>1, <1>2, <1>3, RemoveFits DEF SignedIn, Taken, Switches, Renews
  <2> QED BY <1>1, <1>3, <2>1 DEF SignedIn, Coherent
<1>4. CASE status = "anonymous" /\ SignedOut
  <2>1. SignedOut'
    BY <1>1, <1>4, TakenFrom DEF SignedOut
  <2> QED BY <1>1, <1>4, <2>1 DEF Coherent
<1>5. CASE status = "loading" /\ Loading
  BY <1>1, <1>5 DEF Loading, Restoring, Identifying, Switches, Renews
<1> QED BY <1>3, <1>4, <1>5 DEF Coherent

\* Throughout, the session is coherent unless something of its kind went wrong.
THEOREM SessionInvariance == SessionSpec => []SessionInv
<1>1. SessionInit => SessionInv
  <2> SUFFICES ASSUME SessionInit PROVE SessionInv
    OBVIOUS
  <2> DEFINE f == Carrying("restore", Nobody, FALSE, NoBearer, jar)
  <2>1. PICK a \in People \ {Invited} : holder = <<a>>
    BY DEF SessionInit
  <2>2. /\ calls = <<f>> /\ jar \in {NoCookie, 1} /\ valid = {1} /\ bearer = NoBearer
        /\ status = "loading" /\ user = Nobody /\ waiting = <<>> /\ loose = {} /\ ~ousted
    BY DEF SessionInit
  <2>3. jar \in Int
    BY <2>2 DEF NoCookie
  <2>4. f \in Calls /\ CallOK(f, holder)
    BY <2>3, NoBearerIs, CarryingIs DEF Operations, Renews
  <2>5. f.op = "restore" /\ f.cookie = jar /\ f.answer = "none"
    BY DEF Carrying
  <2> HIDE DEF f
  <2>6. CallsOK(calls, holder) /\ DOMAIN calls = {1} /\ calls[1] = f
    BY <2>2, <2>4 DEF CallsOK
  <2>7. WaitingOK(waiting, holder)
    BY <2>2 DEF WaitingOK, CallsOK
  <2>8. holder \in Seq(People) /\ valid \in SUBSET DOMAIN holder
    BY <2>1, <2>2
  <2>9. Loading
    BY <2>2, <2>5, <2>6 DEF Loading, Restoring
  <2> QED BY <2>2, <2>3, <2>6, <2>7, <2>8, <2>9, NoBearerIs DEF SessionInv, SessionTypes, Coherent
<1>2. SessionInv /\ [SessionNext]_sessionVars => SessionInv'
  <2> SUFFICES ASSUME SessionInv, [SessionNext]_sessionVars PROVE SessionInv'
    OBVIOUS
  <2>1. SessionTypes /\ ~ousted /\ (loose = {} => Coherent)
    BY DEF SessionInv
  <2>2. ASSUME NEW op \in {"logout", "change", "call", "profile", "stream"}, InApp, Fetch(op, user)
        PROVE  SessionInv'
    <3>1. op \in Operations \ {"me"} /\ op \notin {"login", "redeem"} /\ user \in People \cup {Nobody}
      BY <2>1 DEF Operations, Switches, Tells, Plain, SessionTypes
    <3>2. UNCHANGED <<loose, ousted>> /\ status = "authenticated"
      BY <2>2 DEF Fetch, InApp
    <3>3. SessionTypes'
      BY <2>1, <2>2, <3>1, FetchTypes
    <3>4. Coherent => Coherent'
      BY <2>1, <2>2, <3>1, <3>2, FetchCoherent
    <3> QED BY <2>1, <3>2, <3>3, <3>4 DEF SessionInv
  <2>3. ASSUME NEW op \in {"login", "redeem"}, NEW a \in People, Fetch(op, a),
               op = "login" => status = "anonymous"
        PROVE  SessionInv'
    <3>1. op \in Operations \ {"me"}
      BY DEF Operations, Switches
    <3>2. UNCHANGED <<loose, ousted>>
      BY <2>3 DEF Fetch
    <3>3. SessionTypes'
      BY <2>1, <2>3, <3>1, FetchTypes
    <3>4. Coherent => Coherent'
      BY <2>1, <2>3, FetchCoherent
    <3> QED BY <2>1, <3>2, <3>3, <3>4 DEF SessionInv
  <2>4. CASE Redeem
    BY <2>3, <2>4, ClientSessionAssumption DEF Redeem, ClientSessionAssumption
  <2>5. CASE Logout \/ ChangePassword \/ AnyCall \/ SetProfile \/ Stream
    BY <2>2, <2>5 DEF Logout, ChangePassword, AnyCall, SetProfile, Stream
  <2>6. CASE Renew
    <3>1. UNCHANGED <<loose, ousted>>
      BY <2>6 DEF Renew
    <3> QED BY <2>1, <2>6, <3>1, RenewTypes, RenewCoherent DEF SessionInv
  <2>7. CASE Expire
    <3>1. UNCHANGED <<loose, ousted>>
      BY <2>7 DEF Expire
    <3> QED BY <2>1, <2>7, <3>1, ExpireTypes, ExpireCoherent DEF SessionInv
  <2>8. ASSUME NEW a \in People, Login(a) PROVE SessionInv'
    BY <2>3, <2>8 DEF Login
  <2>9. ASSUME NEW a \in People, Revoke(a) PROVE SessionInv'
    <3>1. UNCHANGED ousted
      BY <2>9 DEF Revoke
    <3> QED BY <2>1, <2>9, <3>1, RevokeTypes DEF SessionInv
  <2>10. ASSUME NEW k \in DOMAIN calls, Handle(k) PROVE SessionInv'
    <3>1. UNCHANGED <<loose, ousted>>
      BY <2>10 DEF Handle
    <3> QED BY <2>1, <2>10, <3>1, HandleTypes, HandleCoherent DEF SessionInv
  <2>18. ASSUME NEW k \in DOMAIN calls, HandlerFails(k) PROVE SessionInv'
    <3>1. UNCHANGED ousted /\ loose' # {}
      BY <2>18 DEF HandlerFails
    <3> QED BY <2>1, <2>18, <3>1, HandlerFailsTypes DEF SessionInv
  <2>19. ASSUME NEW k \in DOMAIN calls, Failed(k) PROVE SessionInv'
    <3>1. UNCHANGED ousted /\ loose' # {}
      BY <2>19 DEF Failed
    <3> QED BY <2>1, <2>19, <3>1, FailedTypes DEF SessionInv
  <2>11. ASSUME NEW k \in DOMAIN calls, SwitchAnswered(k) PROVE SessionInv'
    <3>1. UNCHANGED ousted
      BY <2>11 DEF SwitchAnswered
    <3> QED BY <2>1, <2>11, <3>1, SwitchTypes, SwitchCoherent DEF SessionInv
  <2>12. ASSUME NEW k \in DOMAIN calls, CallAnswered(k) PROVE SessionInv'
    <3>1. UNCHANGED ousted /\ (loose' = {} => loose = {})
      BY <2>12 DEF CallAnswered
    <3> QED BY <2>1, <2>12, <3>1, CallTypes, CallCoherent DEF SessionInv
  <2>13. ASSUME NEW k \in DOMAIN calls, Unauthorized(k) PROVE SessionInv'
    <3>1. UNCHANGED <<loose, ousted>>
      BY <2>13 DEF Unauthorized
    <3> QED BY <2>1, <2>13, <3>1, UnauthorizedTypes, UnauthorizedCoherent DEF SessionInv
  <2>14. ASSUME NEW k \in DOMAIN calls, Refreshed(k) PROVE SessionInv'
    <3>1. UNCHANGED ousted /\ (loose' = {} => loose = {})
      BY <2>14 DEF Refreshed
    <3> QED BY <2>1, <2>14, <3>1, RefreshedTypes, RefreshedCoherent DEF SessionInv
  <2>15. ASSUME NEW k \in DOMAIN calls, NotRefreshed(k) PROVE SessionInv'
    <3>1. ousted' = (ousted \/ (status = "authenticated" /\ status' = "anonymous" /\ loose' = {}))
      BY <2>15 DEF NotRefreshed
    <3>2. SessionTypes' /\ (loose' = {} => Coherent' /\ status # "authenticated")
      BY <2>1, <2>15, NotRefreshedTypes, NotRefreshedCoherent
    <3> QED BY <2>1, <3>1, <3>2 DEF SessionInv
  <2>16. ASSUME NEW k \in DOMAIN calls, Rejects(k) PROVE SessionInv'
    <3>1. UNCHANGED ousted /\ (loose' = {} => loose = {})
      BY <2>16 DEF Rejects
    <3> QED BY <2>1, <2>16, <3>1, RejectsTypes, RejectsCoherent DEF SessionInv
  <2>17. CASE UNCHANGED sessionVars
    <3>1. UNCHANGED <<status, user, page, bearer, jar, calls, waiting, holder, valid, loose, ousted>>
      BY <2>17 DEF sessionVars, tab
    <3>2. SessionTypes'
      BY <2>1, <3>1 DEF SessionTypes, Underway
    <3>3. Coherent => Coherent'
      BY <3>1 DEF Coherent, Loading, Restoring, Identifying, SignedOut, SignedIn
    <3> QED BY <2>1, <3>1, <3>2, <3>3 DEF SessionInv
  <2> QED BY <2>4, <2>5, <2>6, <2>7, <2>8, <2>9, <2>10, <2>11, <2>12, <2>13, <2>14, <2>15, <2>16,
             <2>17, <2>18, <2>19 DEF SessionNext
<1> QED BY <1>1, <1>2, PTL DEF SessionSpec

\* When nothing is under way, the tab shows the user whose tokens it holds and the server
\* accepts, and it was never signed out by requests of its own, however many shared a refresh
\* (api/client.js, context/AuthContext.jsx): but for those that crossed, were lost or revoked, or
\* that the server failed half-way through.
THEOREM TabAgreesWithServer == SessionSpec => []SessionIsTrue
<1>1. SessionInv => SessionIsTrue
  <2> SUFFICES ASSUME SessionInv PROVE SessionIsTrue
    OBVIOUS
  <2>1. SessionTypes /\ ~ousted /\ (loose = {} => Coherent)
    BY DEF SessionInv
  <2>2. ASSUME Quiet, loose = {}
        PROVE  /\ status # "loading"
               /\ status = "authenticated" => bearer.of = user /\ jar \in valid /\ holder[jar] = user
               /\ status = "anonymous" => bearer = NoBearer /\ jar = NoCookie
    <3>1. DOMAIN calls = {}
      BY <2>2 DEF Quiet
    <3>2. status # "loading"
      BY <2>1, <2>2, <3>1 DEF Coherent, Loading
    <3>3. ASSUME status = "authenticated" PROVE bearer.of = user /\ jar \in valid /\ holder[jar] = user
      <4>1. SignedIn
        BY <2>1, <2>2, <3>3 DEF Coherent
      <4>2. ~Switched(calls) /\ ~Rotated(calls)
        BY <3>1 DEF Switched, Rotated
      <4> QED BY <4>1, <4>2 DEF SignedIn, AllFit
    <3>4. ASSUME status = "anonymous" PROVE bearer = NoBearer /\ jar = NoCookie
      BY <2>1, <2>2, <3>4 DEF Coherent, SignedOut
    <3> QED BY <3>2, <3>3, <3>4
  <2> QED BY <2>1, <2>2 DEF SessionIsTrue
<1> QED BY <1>1, SessionInvariance, PTL

------------------------------------------------------------------------------
(* The panels that change something: their ways, and the requests under way.   *)

Ways == {None, Patch, PutBack, Reload, Save, EditMetadata, Generate, Relate}
HasForm == \E way \in editor.ways : way.form
Forms(e) == \E way \in e.ways : way.form

\* What the handlers of a panel have in common.
WayFits(e, way) ==
    /\ way \in Ways /\ way.rows \subseteq Entries /\ way.form \in BOOLEAN
    /\ way.via \in {"patch", "captured", "reload", "object", "metadata", "awaited"}
    /\ way.form <=> way.via \in {"object", "metadata"}
    /\ e.scoped => way.via = "reload"
    /\ way.form => way.once /\ way.rows = Fields /\ ~e.scoped /\ e.hides /\ ~e.clears
    /\ way.form => \A other \in e.ways : other.form => other = way
    /\ way.via = "object" => way = Save /\ e.ways = {Save}
    /\ way.via = "metadata" => way = EditMetadata
    /\ way.via = "awaited" => way = Relate
    /\ way.via \in {"captured", "awaited"} /\ Forms(e) => way.rows \cap Fields = {}
    /\ way.via \in {"patch", "reload"} => ~Forms(e)
    /\ way.via = "captured" /\ EditMetadata \in e.ways =>
           way.once /\ \A other \in e.ways : other.rows \cap way.rows # {} => other = way

LEMMA WaysAre ==
    /\ Patch.via = "patch" /\ Patch.rows = Fields /\ Patch.form = FALSE
    /\ PutBack.via = "captured" /\ PutBack.rows = Fields /\ PutBack.form = FALSE
    /\ Reload.via = "reload" /\ Reload.rows = Fields /\ Reload.form = FALSE
    /\ Save.via = "object" /\ Save.rows = Fields /\ Save.form = TRUE /\ Save.once = TRUE
    /\ EditMetadata.via = "metadata" /\ EditMetadata.rows = Fields
    /\ EditMetadata.form = TRUE /\ EditMetadata.once = TRUE
    /\ Generate.via = "captured" /\ Generate.rows = {Summary}
    /\ Generate.form = FALSE /\ Generate.once = TRUE
    /\ Relate.via = "awaited" /\ Relate.rows = {Relationships}
    /\ Relate.form = FALSE /\ Relate.once = TRUE
    /\ None.via = "none" /\ None.once = FALSE /\ None.form = FALSE
BY DEF Patch, PutBack, Reload, Save, EditMetadata, Generate, Relate, None, Way

LEMMA EditorFacts ==
    ASSUME EditorsAssumption, NEW e \in Editors
    PROVE  /\ e.scoped \in BOOLEAN /\ e.hides \in BOOLEAN /\ e.clears \in BOOLEAN
           /\ \A way \in e.ways : WayFits(e, way)
<1>0. /\ Summary \notin Fields /\ Relationships \notin Fields /\ Summary # Relationships
      /\ Fields \subseteq Entries /\ Summary \in Entries /\ Relationships \in Entries
  BY DEF EditorsAssumption, Entries
<1>a. {Patch, PutBack, Reload, Save, EditMetadata, Generate, Relate} \subseteq Ways
  BY DEF Ways
<1>1. CASE e = EditWorkspaceMembers
  <2>1. /\ e.scoped = TRUE /\ e.hides = TRUE /\ e.clears = FALSE
        /\ e.ways = {Reload}
    BY <1>1 DEF EditWorkspaceMembers, Editor
  <2>2. WayFits(e, Reload)
    BY <1>0, <1>a, <2>1, WaysAre DEF WayFits, Forms
  <2> QED BY <2>1, <2>2
<1>2. CASE e = EditLinks
  <2>1. /\ e.scoped = TRUE /\ e.hides = FALSE /\ e.clears = TRUE
        /\ e.ways = {Reload}
    BY <1>2 DEF EditLinks, Editor
  <2>2. WayFits(e, Reload)
    BY <1>0, <1>a, <2>1, WaysAre DEF WayFits, Forms
  <2> QED BY <2>1, <2>2
<1>3. CASE e = EditChannelMembers
  <2>1. /\ e.scoped = FALSE /\ e.hides = FALSE /\ e.clears = FALSE
        /\ e.ways = {Reload}
    BY <1>3 DEF EditChannelMembers, Editor
  <2>2. WayFits(e, Reload)
    BY <1>0, <1>a, <2>1, WaysAre DEF WayFits, Forms
  <2> QED BY <2>1, <2>2
<1>4. CASE e = EditUserOrgs
  <2>1. /\ e.scoped = FALSE /\ e.hides = TRUE /\ e.clears = FALSE
        /\ e.ways = {Reload}
    BY <1>4 DEF EditUserOrgs, Editor
  <2>2. WayFits(e, Reload)
    BY <1>0, <1>a, <2>1, WaysAre DEF WayFits, Forms
  <2> QED BY <2>1, <2>2
<1>5. CASE e = EditAllOrganizations
  <2>1. /\ e.scoped = FALSE /\ e.hides = FALSE /\ e.clears = TRUE
        /\ e.ways = {Reload}
    BY <1>5 DEF EditAllOrganizations, Editor
  <2>2. WayFits(e, Reload)
    BY <1>0, <1>a, <2>1, WaysAre DEF WayFits, Forms
  <2> QED BY <2>1, <2>2
<1>6. CASE e = EditAllWorkspaces
  <2>1. /\ e.scoped = FALSE /\ e.hides = FALSE /\ e.clears = TRUE
        /\ e.ways = {Patch, Reload}
    BY <1>6 DEF EditAllWorkspaces, Editor
  <2>2. WayFits(e, Patch)
    BY <1>0, <1>a, <2>1, WaysAre DEF WayFits, Forms
  <2>3. WayFits(e, Reload)
    BY <1>0, <1>a, <2>1, WaysAre DEF WayFits, Forms
  <2> QED BY <2>1, <2>2, <2>3
<1>7. CASE e = EditOwnWorkspaces
  <2>1. /\ e.scoped = FALSE /\ e.hides = FALSE /\ e.clears = FALSE
        /\ e.ways = {Patch, Reload, PutBack}
    BY <1>7 DEF EditOwnWorkspaces, Editor
  <2>2. WayFits(e, Patch)
    BY <1>0, <1>a, <2>1, WaysAre DEF WayFits, Forms
  <2>3. WayFits(e, Reload)
    BY <1>0, <1>a, <2>1, WaysAre DEF WayFits, Forms
  <2>4. WayFits(e, PutBack)
    BY <1>0, <1>a, <2>1, WaysAre DEF WayFits, Forms
  <2> QED BY <2>1, <2>2, <2>3, <2>4
<1>8. CASE e = EditOwnOrganizations
  <2>1. /\ e.scoped = FALSE /\ e.hides = FALSE /\ e.clears = FALSE
        /\ e.ways = {Patch, PutBack}
    BY <1>8 DEF EditOwnOrganizations, Editor
  <2>2. WayFits(e, Patch)
    BY <1>0, <1>a, <2>1, WaysAre DEF WayFits, Forms
  <2>3. WayFits(e, PutBack)
    BY <1>0, <1>a, <2>1, WaysAre DEF WayFits, Forms
  <2> QED BY <2>1, <2>2, <2>3
<1>9. CASE e = EditAiSettings
  <2>1. /\ e.scoped = FALSE /\ e.hides = TRUE /\ e.clears = FALSE
        /\ e.ways = {Save}
    BY <1>9 DEF EditAiSettings, Editor
  <2>2. WayFits(e, Save)
    BY <1>0, <1>a, <2>1, WaysAre DEF WayFits, Forms
  <2> QED BY <2>1, <2>2
<1>10. CASE e = EditEntity
  <2>1. /\ e.scoped = FALSE /\ e.hides = TRUE /\ e.clears = FALSE
        /\ e.ways = {EditMetadata, Generate, Relate}
    BY <1>10 DEF EditEntity, Editor
  <2>2. WayFits(e, EditMetadata)
    BY <1>0, <1>a, <2>1, WaysAre DEF WayFits, Forms
  <2>3. WayFits(e, Generate)
    BY <1>0, <1>a, <2>1, WaysAre DEF WayFits, Forms
  <2>4. WayFits(e, Relate)
    BY <1>0, <1>a, <2>1, WaysAre DEF WayFits, Forms
  <2> QED BY <2>1, <2>2, <2>3, <2>4
<1> QED
  BY <1>1, <1>2, <1>3, <1>4, <1>5, <1>6, <1>7, <1>8, <1>9, <1>10
     DEF Editors, EditOrgMembers, EditOrgLinks, EditAdminChannelMembers, EditAdminChannels, EditAccounts

\* Asking for what is shown is no way of a handler.
LEMMA NoneFacts == None \in Ways /\ Relate \in Ways
BY DEF Ways

Sends == {<<>>} \cup UNION {[R -> Int] : R \in SUBSET Entries}
EditorRequests ==
    [step : {"load", "change"}, way : Ways, scope : Scopes, sends : Sends,
     seen : {<<>>} \cup [Entries -> Int], got : {<<>>} \cup [Entries -> Int], at : Nat]

Pending == {sent[k] : k \in DOMAIN sent}
Others(k) == {sent[j] : j \in DOMAIN sent \ {k}}

\* A control that is disabled while it is under way is under way once at most.
OneEach(s) == \A j, k \in DOMAIN s : s[j].way.once /\ s[j].way = s[k].way => j = k

Sequenced == sent \in Seq(EditorRequests) /\ OneEach(sent)

LEMMA SendsHas ==
    ASSUME NEW R \in SUBSET Entries, NEW f \in [R -> Int]
    PROVE  f \in Sends
BY DEF Sends

LEMMA NotEmpty ==
    ASSUME EditorsAssumption, NEW S, NEW f \in [Entries -> S]
    PROVE  f # <<>>
<1>1. Summary \in Entries /\ Summary \in DOMAIN f
  BY DEF Entries
<1>2. DOMAIN <<>> = {}
  OBVIOUS
<1> QED BY <1>1, <1>2

\* One request is among those under way, and with the others makes them up.
LEMMA Among ==
    ASSUME Sequenced, NEW k \in DOMAIN sent
    PROVE  /\ sent[k] \in EditorRequests /\ sent[k] \in Pending
           /\ Pending = Others(k) \cup {sent[k]} /\ Pending \subseteq EditorRequests
           /\ sent[k].way.once => \A p \in Others(k) : p.way # sent[k].way
           /\ Len(sent) \in Nat /\ Len(sent) >= 1
           /\ Len(sent) <= 1 => Others(k) = {}
<1>1. DOMAIN sent = 1 .. Len(sent) /\ Len(sent) \in Nat
  BY DEF Sequenced
<1>2. \A j \in DOMAIN sent : sent[j] \in EditorRequests
  BY DEF Sequenced
<1>3. sent[k].way.once => \A p \in Others(k) : p.way # sent[k].way
  BY DEF Others, Sequenced, OneEach
<1>4. Len(sent) <= 1 => Others(k) = {}
  <2>1. Len(sent) <= 1 => DOMAIN sent \ {k} = {}
    BY <1>1
  <2> QED BY <2>1 DEF Others
<1> QED BY <1>1, <1>2, <1>3, <1>4 DEF Pending, Others

LEMMA Sending ==
    ASSUME Sequenced, NEW q \in EditorRequests, sent' = Append(sent, q),
           q.way.once => \A p \in Pending : p.way # q.way
    PROVE  /\ Sequenced' /\ Pending' = Pending \cup {q} /\ Len(sent') = Len(sent) + 1
           /\ Len(sent) \in Nat /\ (Pending = {} => Len(sent) = 0)
<1>1. /\ Len(sent) \in Nat /\ DOMAIN sent = 1 .. Len(sent)
      /\ \A j \in DOMAIN sent : sent[j] \in Pending
  BY DEF Sequenced, Pending
<1>2. /\ sent' \in Seq(EditorRequests) /\ Len(sent') = Len(sent) + 1
      /\ \A j \in 1 .. Len(sent) : sent'[j] = sent[j]
      /\ sent'[Len(sent) + 1] = q
  BY AppendProperties DEF Sequenced
<1>3. DOMAIN sent' = 1 .. Len(sent) + 1
  BY <1>2
<1>4. Pending' = Pending \cup {q}
  BY <1>1, <1>2, <1>3 DEF Pending
<1>5. OneEach(sent')
  <2> SUFFICES ASSUME NEW i \in DOMAIN sent', NEW j \in DOMAIN sent',
                      sent'[i].way.once, sent'[i].way = sent'[j].way
               PROVE  i = j
    BY DEF OneEach
  <2>1. (i \in DOMAIN sent \/ i = Len(sent) + 1) /\ (j \in DOMAIN sent \/ j = Len(sent) + 1)
    BY <1>1, <1>3
  <2>2. CASE i \in DOMAIN sent /\ j \in DOMAIN sent
    BY <2>2, <1>1, <1>2 DEF Sequenced, OneEach
  <2>3. CASE i \in DOMAIN sent /\ j = Len(sent) + 1
    BY <2>3, <1>1, <1>2
  <2>4. CASE i = Len(sent) + 1 /\ j \in DOMAIN sent
    BY <2>4, <1>1, <1>2
  <2> QED BY <2>1, <2>2, <2>3, <2>4
<1>6. Pending = {} => Len(sent) = 0
  <2>1. Len(sent) >= 1 => 1 \in DOMAIN sent
    BY <1>1
  <2> QED BY <2>1, <1>1
<1> QED BY <1>1, <1>2, <1>4, <1>5, <1>6 DEF Sequenced

LEMMA Answering ==
    ASSUME Sequenced, NEW k \in DOMAIN sent, sent' = RemoveAt(sent, k)
    PROVE  Sequenced' /\ Pending' = Others(k) /\ Len(sent') = Len(sent) - 1
<1>1. /\ Len(sent) \in Nat /\ DOMAIN sent = 1 .. Len(sent) /\ k \in 1 .. Len(sent)
      /\ sent \in Seq(EditorRequests)
  BY DEF Sequenced
<1> DEFINE At(i) == IF i < k THEN i ELSE i + 1
<1>2. /\ sent' \in Seq(EditorRequests) /\ Len(sent') = Len(sent) - 1
      /\ \A i \in 1 .. Len(sent) - 1 : sent'[i] = sent[At(i)]
  <2>1. /\ RemoveAt(sent, k) \in Seq(EditorRequests) /\ Len(RemoveAt(sent, k)) = Len(sent) - 1
        /\ \A i \in 1 .. Len(sent) - 1 :
              RemoveAt(sent, k)[i] = IF i < k THEN sent[i] ELSE sent[i + 1]
    BY <1>1, Removed
  <2> QED BY <2>1
<1>3. DOMAIN sent' = 1 .. Len(sent) - 1
  BY <1>2
<1>4. \A i \in DOMAIN sent' : At(i) \in DOMAIN sent \ {k} /\ sent'[i] = sent[At(i)]
  BY <1>1, <1>2, <1>3
<1>5. \A j \in DOMAIN sent \ {k} : \E i \in DOMAIN sent' : At(i) = j
  <2> TAKE j \in DOMAIN sent \ {k}
  <2>1. CASE j < k
    <3>1. j \in DOMAIN sent' /\ At(j) = j
      BY <2>1, <1>1, <1>3
    <3> QED BY <3>1
  <2>2. CASE j > k
    <3>1. j - 1 \in DOMAIN sent' /\ At(j - 1) = j
      BY <2>2, <1>1, <1>3
    <3> QED BY <3>1
  <2> QED BY <2>1, <2>2, <1>1
<1>6. \A i, j \in DOMAIN sent' : At(i) = At(j) => i = j
  BY <1>1, <1>3
<1> HIDE DEF At
<1>7. Pending' = Others(k)
  BY <1>4, <1>5 DEF Pending, Others
<1>8. OneEach(sent')
  BY <1>4, <1>6 DEF OneEach, Sequenced
<1> QED BY <1>2, <1>7, <1>8 DEF Sequenced

LEMMA Following ==
    ASSUME Sequenced, NEW k \in DOMAIN sent, NEW q \in EditorRequests,
           sent' = [sent EXCEPT ![k] = q], q.way.once => q.way = sent[k].way
    PROVE  Sequenced' /\ Pending' = Others(k) \cup {q} /\ Len(sent') = Len(sent)
<1>1. /\ Len(sent) \in Nat /\ DOMAIN sent = 1 .. Len(sent)
      /\ \A j \in DOMAIN sent : sent[j] \in EditorRequests
  BY DEF Sequenced
<1>2. /\ sent' \in Seq(EditorRequests) /\ Len(sent') = Len(sent)
      /\ DOMAIN sent' = DOMAIN sent
      /\ \A j \in DOMAIN sent : sent'[j] = IF j = k THEN q ELSE sent[j]
  BY <1>1 DEF Sequenced
<1>3. Pending' = Others(k) \cup {q}
  BY <1>2 DEF Pending, Others
<1>4. OneEach(sent')
  <2> SUFFICES ASSUME NEW i \in DOMAIN sent, NEW j \in DOMAIN sent,
                      sent'[i].way.once, sent'[i].way = sent'[j].way
               PROVE  i = j
    BY <1>2 DEF OneEach
  <2>1. CASE i # k /\ j # k
    BY <2>1, <1>2 DEF Sequenced, OneEach
  <2>2. CASE i = k /\ j # k
    BY <2>2, <1>2 DEF Sequenced, OneEach
  <2>3. CASE i # k /\ j = k
    BY <2>3, <1>2 DEF Sequenced, OneEach
  <2> QED BY <2>1, <2>2, <2>3
<1> QED BY <1>2, <1>3, <1>4 DEF Sequenced

------------------------------------------------------------------------------
(* What is shown, and what is under way.                                       *)

Numbers == 0 .. clock
HasAnswer(q) == q.got # <<>>

\* Values never get older than a change, where no form is.
CapturedFits(q) ==
    /\ q.seen \in [Entries -> Numbers \cup {Missing}]
    /\ HasAnswer(q) => \A r \in DOMAIN q.sends :
           /\ q.seen[r] < q.at /\ q.at <= stored[q.scope][r]
           /\ EditMetadata \in editor.ways => q.got[r] = stored[q.scope][r]

ChangeFits(q) ==
    /\ q.way \in editor.ways /\ DOMAIN q.sends \subseteq q.way.rows
    /\ q.way.form => q.sends \in [Fields -> Numbers \cup {Typed}]
    /\ ~q.way.form => \A r \in DOMAIN q.sends : q.sends[r] = Typed
    /\ q.way.via = "captured" => CapturedFits(q)

RequestFits(q) ==
    /\ q.at <= clock /\ (~editor.scoped => q.scope = scope)
    /\ HasAnswer(q) => q.got \in [Entries -> Numbers]
    /\ q.step = "load" => q.way = None \/ q.way = Relate
    /\ q.step = "change" => ChangeFits(q)

AllFits == \A q \in Pending : RequestFits(q)

EditorTypes ==
    /\ editor \in Editors /\ scope \in Scopes /\ clock \in Nat
    /\ stored \in [Scopes -> [Entries -> Numbers]] /\ heard \in [Scopes -> Numbers]
    /\ display \in [of : Scopes, rows : [Entries -> Numbers \cup {Missing}]]
    /\ loading \in BOOLEAN /\ astray \in BOOLEAN
    /\ undone \in SUBSET Entries /\ unheard \in SUBSET Entries /\ reverted \in SUBSET Entries
    /\ form \in [open : BOOLEAN, has : [Fields -> Int]]
    /\ form.open => HasForm /\ form.has \in [Fields -> Numbers \cup {Typed}]
    /\ ~editor.scoped => display.of = scope

\* The answer to c will tell what r of s is.
WillTell(c, s, r) ==
    c.step = "change" /\ HasAnswer(c) /\ c.scope = s /\ r \in DOMAIN c.sends /\ c.got[r] = stored[s][r]

\* An answer is what there is, or late, or a later one is to come.
Current(q, r) ==
    \/ q.got[r] = stored[q.scope][r]
    \/ q.at < heard[q.scope]
    \/ \E c \in Pending : WillTell(c, q.scope, r) /\ c.at > q.at

AllCurrent == \A q \in Pending : HasAnswer(q) => \A r \in Entries : Current(q, r)

\* The answer to q will show r as it is.
WillShow(q, r) ==
    q.step = "load" /\ q.scope = scope /\ (HasAnswer(q) => q.got[r] = stored[scope][r])

\* A row is as it is kept, or known not to be, or an answer is to come that makes it so.
RowFits(r) ==
    \/ display.rows[r] = stored[scope][r]
    \/ r \in undone \cup unheard
    \/ display.rows[r] = Missing /\ r \notin Fields /\ EditMetadata \in editor.ways
    \/ \E c \in Pending : WillTell(c, scope, r)
    \/ /\ \E q \in Pending : WillShow(q, r)
       /\ HasForm /\ r \in Fields => display.rows[r] = Missing

AllShown == display.of = scope => \A r \in Changeable : RowFits(r)

LoadUnderWay == \E q \in Pending : q.step = "load" /\ q.scope = scope
SelectionLoads == display.of # scope /\ ~astray => LoadUnderWay

\* The form that sends the whole object does one thing at a time.
ObjectAlone ==
    Save \in editor.ways =>
        /\ undone = {} /\ Len(sent) <= 1
        /\ \A q \in Pending : (HasAnswer(q) => q.at = clock) /\ (loading \/ q.way = Save)

\* A value of a form is new, or not older than what is kept, or known to be.
Back(f, v) == v = Typed \/ v >= stored[scope][f] \/ f \in reverted

FormUnderWay == \E q \in Pending : q.step = "change" /\ q.way.form /\ HasAnswer(q)
FormFits == form.open => \A f \in Fields : Back(f, form.has[f]) \/ FormUnderWay
SaveFits ==
    \A q \in Pending : q.step = "change" /\ q.way.form /\ ~HasAnswer(q) =>
        \A f \in Fields : Back(f, q.sends[f])

EditorsInv ==
    /\ EditorTypes /\ Sequenced /\ AllFits /\ AllCurrent /\ AllShown
    /\ SelectionLoads /\ ObjectAlone /\ FormFits /\ SaveFits

\* The ways of the panel at hand.
LEMMA ThisEditor ==
    ASSUME EditorsAssumption, EditorTypes
    PROVE  /\ editor.scoped \in BOOLEAN /\ editor.hides \in BOOLEAN /\ editor.clears \in BOOLEAN
           /\ \A way \in editor.ways : WayFits(editor, way)
           /\ HasForm <=> Forms(editor)
BY EditorFacts DEF EditorTypes, HasForm, Forms

\* What can be changed are rows.
LEMMA ChangeableRows ==
    ASSUME EditorsAssumption, EditorTypes
    PROVE  Changeable \subseteq Entries /\ \A way \in editor.ways : way.rows \subseteq Changeable
<1>1. \A way \in editor.ways : way.rows \subseteq Entries
  BY ThisEditor DEF WayFits
<1> QED BY <1>1 DEF Changeable

\* A question is a request that nobody has answered.
LEMMA AskIs ==
    ASSUME EditorsAssumption, NEW way \in {None, Relate}, NEW s \in Scopes
    PROVE  /\ Ask(way, s) \in EditorRequests /\ Ask(way, s).step = "load" /\ Ask(way, s).way = way
           /\ Ask(way, s).scope = s /\ Ask(way, s).at = 0 /\ ~HasAnswer(Ask(way, s))
<1>1. way \in Ways /\ way.via # "captured"
  BY NoneFacts, WaysAre
<1>2. <<>> \in Sends /\ <<>> \in {<<>>} \cup [Entries -> Int] /\ 0 \in Nat
  BY DEF Sends
<1>3. Ask(way, s) = [step |-> "load", way |-> way, scope |-> s, sends |-> <<>>,
                     seen |-> <<>>, got |-> <<>>, at |-> 0]
  BY <1>1 DEF Ask, Call
<1> QED BY <1>1, <1>2, <1>3 DEF EditorRequests, HasAnswer

\* So is a change that was made.
LEMMA ChangeIs ==
    ASSUME NEW way \in Ways, NEW s \in Scopes, NEW f \in Sends, NEW listed \in [Entries -> Int]
    PROVE  LET q == Call("change", way, s, f, listed) IN
           /\ q \in EditorRequests /\ q.step = "change" /\ q.way = way /\ q.scope = s /\ q.sends = f
           /\ (way.via = "captured" => q.seen = listed) /\ q.at = 0 /\ ~HasAnswer(q)
<1>1. <<>> \in {<<>>} \cup [Entries -> Int] /\ 0 \in Nat /\ listed \in {<<>>} \cup [Entries -> Int]
  OBVIOUS
<1> DEFINE seen == IF way.via = "captured" THEN listed ELSE <<>>
<1>2. seen \in {<<>>} \cup [Entries -> Int]
  BY <1>1
<1>3. Call("change", way, s, f, listed)
          = [step |-> "change", way |-> way, scope |-> s, sends |-> f,
             seen |-> seen, got |-> <<>>, at |-> 0]
  BY DEF Call
<1>4. way.via = "captured" => seen = listed
  OBVIOUS
<1> HIDE DEF seen
<1> QED BY <1>1, <1>2, <1>3, <1>4 DEF EditorRequests, HasAnswer

LEMMA FitsOn ==
    ASSUME UNCHANGED <<editor, stored, clock>>, scope' = scope \/ editor.scoped,
           NEW q, RequestFits(q)
    PROVE  RequestFits(q)'
BY DEF RequestFits, ChangeFits, CapturedFits, Numbers, HasAnswer

\* What was current stays so while answers are heard, or known to be lost.
LEMMA CurrentOn ==
    ASSUME EditorTypes, stored' = stored, heard' \in [Scopes -> Nat],
           \A s \in Scopes : heard[s] <= heard'[s],
           NEW q \in EditorRequests, NEW r, Current(q, r), clock \in Nat,
           \A c \in Pending : c \in EditorRequests,
           \A c \in Pending : c \in Pending' \/ (c.step = "change" /\ HasAnswer(c) => c.at <= heard'[c.scope])
    PROVE  Current(q, r)'
<1>1. q.scope \in Scopes /\ q.at \in Nat
  BY DEF EditorRequests
<1>2. heard[q.scope] \in Nat /\ heard'[q.scope] \in Nat /\ heard[q.scope] <= heard'[q.scope]
  BY <1>1 DEF EditorTypes, Numbers
<1>3. CASE q.got[r] = stored[q.scope][r]
  BY <1>3 DEF Current
<1>4. CASE q.at < heard[q.scope]
  <2>1. q.at < heard'[q.scope]
    BY <1>1, <1>2, <1>4
  <2> QED BY <2>1 DEF Current
<1>5. CASE \E c \in Pending : WillTell(c, q.scope, r) /\ c.at > q.at
  <2>1. PICK c \in Pending : WillTell(c, q.scope, r) /\ c.at > q.at
    BY <1>5
  <2>2. c.at \in Nat
    BY DEF EditorRequests
  <2>3. CASE c \in Pending'
    <3>1. WillTell(c, q.scope, r)'
      BY <2>1 DEF WillTell, HasAnswer
    <3> QED BY <2>1, <2>3, <3>1 DEF Current
  <2>4. CASE c \notin Pending'
    <3>1. c.at <= heard'[q.scope]
      BY <2>1, <2>4 DEF WillTell
    <3>2. q.at < heard'[q.scope]
      BY <1>1, <1>2, <2>1, <2>2, <3>1
    <3> QED BY <3>2 DEF Current
  <2> QED BY <2>3, <2>4
<1> QED BY <1>3, <1>4, <1>5 DEF Current

\* A row that is shown as before, with nothing wrong forgotten.
LEMMA RowOn ==
    ASSUME UNCHANGED <<editor, scope, stored>>, NEW r, RowFits(r),
           display'.rows[r] = display.rows[r],
           r \in undone => r \in undone' \/ display.rows[r] = stored[scope][r],
           r \in unheard => r \in unheard' \/ display.rows[r] = stored[scope][r],
           \A c \in Pending : WillTell(c, scope, r) => c \in Pending' \/ RowFits(r)',
           \A q \in Pending : WillShow(q, r) => q \in Pending' \/ RowFits(r)'
    PROVE  RowFits(r)'
<1>1. CASE display.rows[r] = stored[scope][r]
  BY <1>1 DEF RowFits
<1>2. CASE r \in undone \cup unheard
  BY <1>2 DEF RowFits
<1>3. CASE display.rows[r] = Missing /\ r \notin Fields /\ EditMetadata \in editor.ways
  BY <1>3 DEF RowFits
<1>4. CASE \E c \in Pending : WillTell(c, scope, r)
  <2>1. PICK c \in Pending : WillTell(c, scope, r)
    BY <1>4
  <2>2. WillTell(c, scope, r)'
    BY <2>1 DEF WillTell, HasAnswer
  <2> QED BY <2>1, <2>2 DEF RowFits
<1>5. CASE /\ \E q \in Pending : WillShow(q, r)
           /\ HasForm /\ r \in Fields => display.rows[r] = Missing
  <2>1. PICK q \in Pending : WillShow(q, r)
    BY <1>5
  <2>2. WillShow(q, r)'
    BY <2>1 DEF WillShow, HasAnswer
  <2>3. HasForm' <=> HasForm
    BY DEF HasForm
  <2> QED BY <1>5, <2>1, <2>2, <2>3 DEF RowFits
<1> QED BY <1>1, <1>2, <1>3, <1>4, <1>5 DEF RowFits

------------------------------------------------------------------------------
(* The user's steps.                                                           *)

LEMMA EditorsStart ==
    ASSUME EditorsAssumption, EditorsInit
    PROVE  EditorsInv
<1> DEFINE q == Ask(None, scope)
<1>1. /\ editor \in Editors /\ scope \in Scopes /\ clock = 0 /\ undone = {} /\ unheard = {}
      /\ astray = FALSE /\ reverted = {} /\ sent = <<q>> /\ loading = editor.hides
      /\ stored = [s \in Scopes |-> [r \in Entries |-> 0]] /\ heard = [s \in Scopes |-> 0]
      /\ display = [of |-> scope, rows |-> [r \in Entries |-> Missing]]
      /\ form = Closed
  BY DEF EditorsInit
<1>2. /\ q \in EditorRequests /\ q.step = "load" /\ q.way = None /\ q.scope = scope /\ q.at = 0
      /\ ~HasAnswer(q)
  BY <1>1, AskIs
<1> HIDE DEF q
<1>3. sent \in Seq(EditorRequests) /\ Len(sent) = 1 /\ sent[1] = q /\ DOMAIN sent = {1}
  <2>1. <<q>> \in Seq(EditorRequests) /\ Len(<<q>>) = 1 /\ <<q>>[1] = q
    BY <1>2
  <2>2. DOMAIN <<q>> = 1 .. 1
    BY <2>1
  <2>3. 1 .. 1 = {1}
    OBVIOUS
  <2> QED BY <1>1, <2>1, <2>2, <2>3
<1>4. Pending = {q} /\ Sequenced
  BY <1>3 DEF Pending, Sequenced, OneEach
<1>5. 0 \in Numbers
  BY <1>1 DEF Numbers
<1>6. EditorTypes
  <2>1. stored \in [Scopes -> [Entries -> Numbers]] /\ heard \in [Scopes -> Numbers]
    BY <1>1, <1>5
  <2>2. display \in [of : Scopes, rows : [Entries -> Numbers \cup {Missing}]] /\ display.of = scope
    BY <1>1
  <2>3. form \in [open : BOOLEAN, has : [Fields -> Int]] /\ ~form.open
    BY <1>1 DEF Closed, Missing
  <2>4. editor.hides \in BOOLEAN
    BY <1>1, EditorFacts
  <2> QED BY <1>1, <2>1, <2>2, <2>3, <2>4 DEF EditorTypes
<1>7. AllFits
  BY <1>2, <1>4, <1>1 DEF AllFits, RequestFits
<1>8. AllCurrent /\ SaveFits
  BY <1>2, <1>4 DEF AllCurrent, SaveFits
<1>9. AllShown
  <2>1. \A r \in Changeable : WillShow(q, r) /\ display.rows[r] = Missing
    BY <1>1, <1>2, <1>6, ChangeableRows DEF WillShow
  <2> QED BY <1>4, <2>1 DEF AllShown, RowFits
<1>10. SelectionLoads /\ FormFits
  BY <1>1 DEF SelectionLoads, FormFits, Closed
<1>11. ObjectAlone
  <2>1. Save \in editor.ways => editor.hides
    BY <1>6, ThisEditor, WaysAre DEF WayFits
  <2> QED BY <1>1, <1>2, <1>3, <1>4, <2>1 DEF ObjectAlone
<1> QED BY <1>4, <1>6, <1>7, <1>8, <1>9, <1>10, <1>11 DEF EditorsInv

LEMMA SelectKeeps ==
    ASSUME EditorsAssumption, EditorsInv, NEW s \in Scopes, Select(s)
    PROVE  EditorsInv'
<1> DEFINE q == Ask(None, s)
<1>1. /\ editor.scoped /\ scope' = s /\ loading' = editor.hides /\ sent' = Append(sent, q)
      /\ undone' = {} /\ unheard' = {}
      /\ UNCHANGED <<editor, heard, stored, display, form, clock, astray, reverted>>
  BY DEF Select, Send
<1>2. /\ q \in EditorRequests /\ q.step = "load" /\ q.way = None /\ q.scope = s /\ q.at = 0
      /\ ~HasAnswer(q)
  BY AskIs
<1> HIDE DEF q
<1>3. Sequenced /\ EditorTypes
  BY DEF EditorsInv
<1>4. Sequenced' /\ Pending' = Pending \cup {q}
  BY <1>1, <1>2, <1>3, Sending, WaysAre
<1>5. /\ editor.hides \in BOOLEAN /\ ~HasForm
      /\ \A way \in editor.ways : way.via = "reload" /\ ~way.form
  BY <1>1, <1>3, ThisEditor DEF WayFits, HasForm
<1>6. EditorTypes'
  BY <1>1, <1>3, <1>5 DEF EditorTypes, Numbers, HasForm
<1>7. AllFits'
  <2>1. RequestFits(q)'
    BY <1>1, <1>2, <1>3 DEF RequestFits, HasAnswer, EditorTypes
  <2>2. \A p \in Pending : RequestFits(p)'
    BY <1>1, FitsOn DEF EditorsInv, AllFits
  <2> QED BY <1>4, <2>1, <2>2 DEF AllFits
<1>8. AllCurrent'
  <2> SUFFICES ASSUME NEW p \in Pending', HasAnswer(p)', NEW r \in Entries PROVE Current(p, r)'
    BY DEF AllCurrent
  <2>1. p \in Pending /\ HasAnswer(p)
    BY <1>2, <1>4 DEF HasAnswer
  <2>2. Current(p, r)
    BY <2>1 DEF EditorsInv, AllCurrent
  <2> QED BY <1>1, <1>4, <2>2 DEF Current, WillTell, HasAnswer
<1>9. AllShown'
  <2>1. \A r : WillShow(q, r)'
    BY <1>1, <1>2 DEF WillShow, HasAnswer
  <2>2. ~HasForm'
    BY <1>1, <1>5 DEF HasForm
  <2> QED BY <1>4, <2>1, <2>2 DEF AllShown, RowFits
<1>10. SelectionLoads'
  BY <1>1, <1>2, <1>4 DEF SelectionLoads, LoadUnderWay
<1>11. ObjectAlone'
  BY <1>1, <1>5, WaysAre DEF ObjectAlone
<1>12. FormFits'
  BY <1>1, <1>3, <1>5 DEF FormFits, EditorTypes
<1>13. SaveFits'
  BY <1>1, <1>5, <1>7 DEF SaveFits, AllFits, RequestFits, ChangeFits
<1> QED BY <1>4, <1>6, <1>7, <1>8, <1>9, <1>10, <1>11, <1>12, <1>13 DEF EditorsInv

\* A change that is sent leaves what is shown, and what is known of it.
LEMMA OneMore ==
    ASSUME EditorsAssumption, EditorsInv, NEW q \in EditorRequests, Pending' = Pending \cup {q},
           q.step = "change", ~HasAnswer(q),
           UNCHANGED <<editor, scope, stored, display, clock, heard, undone, unheard, astray>>
    PROVE  /\ AllCurrent' /\ AllShown' /\ SelectionLoads'
           /\ \A p \in Pending : RequestFits(p)'
<1>1. \A p \in Pending : RequestFits(p)'
  BY FitsOn DEF EditorsInv, AllFits
<1>2. AllCurrent'
  <2> SUFFICES ASSUME NEW p \in Pending', HasAnswer(p)', NEW r \in Entries PROVE Current(p, r)'
    BY DEF AllCurrent
  <2>1. p \in Pending /\ HasAnswer(p)
    BY DEF HasAnswer
  <2>2. Current(p, r)
    BY <2>1 DEF EditorsInv, AllCurrent
  <2> QED BY <2>2 DEF Current, WillTell, HasAnswer
<1>3. AllShown'
  <2> SUFFICES ASSUME display.of = scope, NEW r \in Changeable PROVE RowFits(r)'
    BY DEF AllShown, Changeable
  <2>1. RowFits(r)
    BY DEF EditorsInv, AllShown
  <2> QED BY <2>1, RowOn
<1>4. SelectionLoads'
  BY DEF EditorsInv, SelectionLoads, LoadUnderWay
<1> QED BY <1>1, <1>2, <1>3, <1>4

LEMMA ActKeeps ==
    ASSUME EditorsAssumption, EditorsInv, NEW way \in editor.ways, NEW row \in Entries, Act(way, row)
    PROVE  EditorsInv'
<1> DEFINE f == [r \in {row} |-> Typed]
<1>0. Sequenced /\ EditorTypes /\ WayFits(editor, way)
  BY ThisEditor DEF EditorsInv
<1>1. /\ ~way.form /\ row \in way.rows /\ ~Busy(way)
      /\ sent' = Append(sent, Call("change", way, scope, f, display.rows))
      /\ UNCHANGED <<editor, heard, scope, stored, display, loading, form, clock, undone,
                     unheard, astray, reverted>>
  BY DEF Act, Send
<1>2. f \in Sends /\ DOMAIN f = {row} /\ \A r \in {row} : f[r] = Typed
  <2>1. f \in [{row} -> Int] /\ {row} \in SUBSET Entries
    BY DEF Typed
  <2>2. f \in Sends
    BY <2>1, SendsHas
  <2> QED BY <2>2
<1>3. display.rows \in [Entries -> Int]
  <2>1. Numbers \cup {Missing} \subseteq Int
    BY <1>0 DEF Numbers, Missing, EditorTypes
  <2>2. display.rows \in [Entries -> Numbers \cup {Missing}]
    BY <1>0 DEF EditorTypes
  <2> QED BY <2>1, <2>2
<1> HIDE DEF f
<1>4. PICK q \in EditorRequests :
          /\ q.step = "change" /\ q.way = way /\ q.scope = scope /\ q.sends = f
          /\ (way.via = "captured" => q.seen = display.rows) /\ q.at = 0 /\ ~HasAnswer(q)
          /\ sent' = Append(sent, q)
  <2>1. way \in Ways /\ scope \in Scopes
    BY <1>0 DEF WayFits, EditorTypes
  <2> QED BY <1>1, <2>1, <1>2, <1>3, ChangeIs
<1>5. Sequenced' /\ Pending' = Pending \cup {q}
  <2>1. q.way.once => \A p \in Pending : p.way # q.way
    BY <1>1, <1>4 DEF Busy, Pending
  <2> QED BY <1>0, <1>1, <1>4, <2>1, Sending
<1>6. EditorTypes'
  BY <1>0, <1>1 DEF EditorTypes, Numbers, HasForm
<1>7. /\ AllCurrent' /\ AllShown' /\ SelectionLoads'
      /\ \A p \in Pending : RequestFits(p)'
  BY <1>1, <1>4, <1>5, OneMore
<1>8. AllFits'
  <2>1. ChangeFits(q)'
    <3>1. /\ q.way \in editor.ways /\ DOMAIN q.sends \subseteq q.way.rows /\ ~q.way.form
          /\ \A r \in DOMAIN q.sends : q.sends[r] = Typed
      BY <1>1, <1>2, <1>4
    <3>2. q.way.via = "captured" => CapturedFits(q)'
      BY <1>0, <1>1, <1>4 DEF CapturedFits, Numbers, HasAnswer, EditorTypes
    <3> QED BY <1>1, <3>1, <3>2 DEF ChangeFits
  <2>2. RequestFits(q)'
    BY <1>0, <1>1, <1>4, <2>1 DEF RequestFits, HasAnswer, EditorTypes
  <2> QED BY <1>5, <1>7, <2>2 DEF AllFits
<1>9. ObjectAlone'
  <2>1. Save \notin editor.ways
    BY <1>0, <1>1, WaysAre, ThisEditor DEF WayFits
  <2> QED BY <1>1, <2>1 DEF ObjectAlone
<1>10. FormFits'
  <2>1. FormUnderWay => FormUnderWay'
    BY <1>5 DEF FormUnderWay, HasAnswer
  <2> QED BY <1>1, <2>1 DEF EditorsInv, FormFits, Back
<1>11. SaveFits'
  BY <1>1, <1>4, <1>5 DEF EditorsInv, SaveFits, Back, HasAnswer
<1> QED BY <1>5, <1>6, <1>7, <1>8, <1>9, <1>10, <1>11 DEF EditorsInv

\* Where there is a form, nothing is selected, and only the form changes its fields.
LEMMA FormFacts ==
    ASSUME EditorsAssumption, EditorsInv, HasForm
    PROVE  /\ ~editor.scoped /\ editor.hides /\ ~editor.clears /\ display.of = scope
           /\ Fields \subseteq Changeable /\ Fields \subseteq Entries
           /\ \A way \in editor.ways : way.form \/ way.rows \cap Fields = {}
           /\ \A c \in Pending : \A f \in Fields : WillTell(c, scope, f) => FormUnderWay
<1>0. EditorTypes
  BY DEF EditorsInv
<1>1. PICK one \in editor.ways : one.form
  BY DEF HasForm
<1>2. WayFits(editor, one) /\ Forms(editor) /\ \A way \in editor.ways : WayFits(editor, way)
  BY <1>0, <1>1, ThisEditor DEF Forms
<1>3. \A way \in editor.ways : way.form \/ way.rows \cap Fields = {}
  BY <1>2 DEF WayFits
<1>4. \A c \in Pending : \A f \in Fields : WillTell(c, scope, f) => FormUnderWay
  BY <1>3 DEF WillTell, FormUnderWay, EditorsInv, AllFits, RequestFits, ChangeFits
<1>5. one.rows = Fields /\ ~editor.scoped /\ editor.hides /\ ~editor.clears
  BY <1>1, <1>2 DEF WayFits
<1> QED BY <1>0, <1>1, <1>3, <1>4, <1>5, ChangeableRows DEF EditorTypes

\* A step of the form alone.
LEMMA FormKeeps ==
    ASSUME EditorsAssumption, EditorsInv, EditorTypes', FormFits', SaveFits',
           UNCHANGED <<editor, scope, stored, display, loading, sent, clock, heard, undone,
                       unheard, astray>>
    PROVE  EditorsInv'
<1>1. Pending' = Pending
  BY DEF Pending
<1>2. AllFits'
  BY <1>1, FitsOn DEF EditorsInv, AllFits
<1>3. AllCurrent'
  BY <1>1 DEF EditorsInv, AllCurrent, Current, WillTell, HasAnswer
<1>4. AllShown'
  <2> SUFFICES ASSUME display.of = scope, NEW r \in Changeable PROVE RowFits(r)'
    BY DEF AllShown, Changeable
  <2>1. RowFits(r)
    BY DEF EditorsInv, AllShown
  <2> QED BY <1>1, <2>1, RowOn
<1>5. SelectionLoads' /\ ObjectAlone' /\ Sequenced'
  BY <1>1 DEF EditorsInv, SelectionLoads, LoadUnderWay, ObjectAlone, HasAnswer, Sequenced
<1> QED BY <1>2, <1>3, <1>4, <1>5 DEF EditorsInv

LEMMA CancelKeeps ==
    ASSUME EditorsAssumption, EditorsInv, Cancel
    PROVE  EditorsInv'
<1>1. /\ form' = Closed
      /\ UNCHANGED <<editor, heard, scope, stored, display, loading, sent, clock, undone,
                     unheard, astray, reverted>>
  BY DEF Cancel
<1>2. form' \in [open : BOOLEAN, has : [Fields -> Int]] /\ ~form'.open
  BY <1>1 DEF Closed, Missing
<1>3. EditorTypes'
  BY <1>1, <1>2 DEF EditorsInv, EditorTypes, Numbers
<1>4. FormFits' /\ SaveFits'
  <2>1. SaveFits'
    BY <1>1 DEF EditorsInv, SaveFits, Pending, Back, HasAnswer
  <2> QED BY <1>2, <2>1 DEF FormFits
<1> QED BY <1>1, <1>3, <1>4, FormKeeps

LEMMA EditKeeps ==
    ASSUME EditorsAssumption, EditorsInv, Edit
    PROVE  EditorsInv'
<1>a. PICK has : has = [f \in Fields |-> display.rows[f]]
  OBVIOUS
<1>1. /\ HasForm /\ \A f \in Fields : Visible(f)
      /\ form' = [open |-> TRUE, has |-> has]
      /\ reverted' = (Fields \cap (undone \cup unheard)) \cup Reverting
      /\ UNCHANGED <<editor, heard, scope, stored, display, loading, sent, clock, spent,
                     undone, unheard, astray>>
  BY <1>a DEF Edit, HasForm
<1>2. /\ ~editor.scoped /\ editor.hides /\ display.of = scope
      /\ Fields \subseteq Changeable /\ Fields \subseteq Entries
      /\ \A c \in Pending : \A f \in Fields : WillTell(c, scope, f) => FormUnderWay
  BY <1>1, FormFacts
<1>3. \A f \in Fields : display.rows[f] # Missing
  BY <1>1, <1>2 DEF Visible
<1>4. has \in [Fields -> Numbers] /\ \A f \in Fields : has[f] = display.rows[f]
  <2>1. \A f \in Fields : display.rows[f] \in Numbers
    BY <1>2, <1>3 DEF EditorsInv, EditorTypes
  <2> QED BY <1>a, <2>1
<1>5. Numbers \subseteq Int /\ Numbers' = Numbers /\ form'.has = has
  BY <1>1 DEF Numbers, EditorsInv, EditorTypes
<1>6. EditorTypes'
  <2>1. has \in [Fields -> Int] /\ has \in [Fields -> Numbers \cup {Typed}]
    BY <1>4, <1>5
  <2>2. /\ form' \in [open : BOOLEAN, has : [Fields -> Int]]
        /\ form'.has \in [Fields -> Numbers' \cup {Typed}]
    BY <1>1, <1>5, <2>1
  <2>3. reverted' \in SUBSET Entries
    BY <1>1, <1>2 DEF EditorsInv, EditorTypes, Reverting
  <2>4. HasForm'
    BY <1>1 DEF HasForm
  <2> QED BY <1>1, <2>2, <2>3, <2>4, <1>5 DEF EditorsInv, EditorTypes
<1>7. Pending' = Pending
  BY <1>1 DEF Pending
<1>8. FormFits'
  <2> SUFFICES ASSUME NEW f \in Fields PROVE Back(f, has[f])' \/ FormUnderWay'
    BY <1>5 DEF FormFits
  <2>1. RowFits(f)
    BY <1>2 DEF EditorsInv, AllShown
  <2>2. CASE display.rows[f] = stored[scope][f]
    <3>1. has[f] >= stored[scope][f]
      <4>1. has[f] \in Int
        BY <1>4, <1>5
      <4> QED BY <4>1, <2>2, <1>4
    <3> QED BY <1>1, <3>1 DEF Back
  <2>3. CASE f \in undone \cup unheard
    BY <1>1, <2>3 DEF Back
  <2>4. CASE \E c \in Pending : WillTell(c, scope, f)
    BY <1>2, <1>7, <2>4 DEF FormUnderWay, HasAnswer
  <2> QED BY <1>1, <1>3, <2>1, <2>2, <2>3, <2>4 DEF RowFits
<1>9. SaveFits'
  <2>1. (\E q \in Pending : q.way.form) => reverted \subseteq reverted'
    BY <1>1 DEF Reverting, Pending
  <2> QED BY <1>1, <1>7, <2>1 DEF EditorsInv, SaveFits, Back, HasAnswer
<1> QED BY <1>1, <1>6, <1>8, <1>9, FormKeeps

LEMMA SubmitKeeps ==
    ASSUME EditorsAssumption, EditorsInv, NEW way \in editor.ways, NEW field \in Fields,
           Submit(way, field)
    PROVE  EditorsInv'
<1>a. PICK has : has = [form.has EXCEPT ![field] = Typed]
  OBVIOUS
<1>0. Sequenced /\ EditorTypes /\ WayFits(editor, way)
  BY ThisEditor DEF EditorsInv
<1>1. /\ way.form /\ form.open /\ ~loading /\ ~Busy(way)
      /\ sent' = Append(sent, Call("change", way, scope, has, display.rows))
      /\ form' = [form EXCEPT !.has = has]
      /\ UNCHANGED <<editor, heard, scope, stored, display, loading, clock, undone,
                     unheard, astray, reverted>>
  BY <1>a DEF Submit, Send
<1>2. HasForm /\ way.once /\ way.rows = Fields /\ way.via # "captured"
  BY <1>0, <1>1 DEF HasForm, WayFits
<1>3. /\ has \in [Fields -> Numbers \cup {Typed}]
      /\ \A f \in Fields : has[f] = Typed \/ has[f] = form.has[f]
  <2>1. form.has \in [Fields -> Numbers \cup {Typed}]
    BY <1>0, <1>1 DEF EditorTypes
  <2> QED BY <1>a, <2>1
<1>4. Numbers \subseteq Int /\ Numbers' = Numbers /\ Typed \in Int /\ Missing \in Int
  BY <1>0, <1>1 DEF Numbers, EditorTypes, Typed, Missing
<1>5. has \in Sends /\ display.rows \in [Entries -> Int] /\ has \in [Fields -> Int]
  <2>1. has \in [Fields -> Int] /\ Fields \in SUBSET Entries
    BY <1>3, <1>4 DEF Entries
  <2>2. display.rows \in [Entries -> Numbers \cup {Missing}]
    BY <1>0 DEF EditorTypes
  <2>3. display.rows \in [Entries -> Int]
    BY <1>4, <2>2
  <2> QED BY <2>1, <2>3, SendsHas
<1>6. PICK q \in EditorRequests :
          /\ q.step = "change" /\ q.way = way /\ q.scope = scope /\ q.sends = has
          /\ q.at = 0 /\ ~HasAnswer(q) /\ sent' = Append(sent, q)
  <2>1. way \in Ways /\ scope \in Scopes
    BY <1>0 DEF WayFits, EditorTypes
  <2> QED BY <1>1, <2>1, <1>5, ChangeIs
<1>7. \A p \in Pending : p.way # way
  BY <1>1, <1>2 DEF Busy, Pending
<1>8. /\ Sequenced' /\ Pending' = Pending \cup {q} /\ Len(sent') = Len(sent) + 1
      /\ Len(sent) \in Nat /\ (Pending = {} => Len(sent) = 0)
  <2>1. q.way.once => \A p \in Pending : p.way # q.way
    BY <1>6, <1>7
  <2> QED BY <1>0, <1>1, <1>6, <2>1, Sending
<1>9. \A p \in Pending : p.step = "change" => ~p.way.form
  <2>1. \A p \in Pending : p.step = "change" => p.way \in editor.ways
    BY DEF EditorsInv, AllFits, RequestFits, ChangeFits
  <2> QED BY <2>1, <1>0, <1>1, <1>7 DEF WayFits
<1>10. form' \in [open : BOOLEAN, has : [Fields -> Int]] /\ form'.has = has /\ form'.open
  BY <1>0, <1>1, <1>5 DEF EditorTypes
<1>11. EditorTypes'
  <2>1. HasForm'
    BY <1>1, <1>2 DEF HasForm
  <2> QED BY <1>0, <1>1, <1>3, <1>4, <1>10, <2>1 DEF EditorTypes
<1>12. /\ AllCurrent' /\ AllShown' /\ SelectionLoads'
       /\ \A p \in Pending : RequestFits(p)'
  BY <1>1, <1>6, <1>8, OneMore
<1>13. AllFits'
  <2>1. ChangeFits(q)'
    BY <1>1, <1>2, <1>3, <1>4, <1>6 DEF ChangeFits
  <2>2. RequestFits(q)'
    BY <1>0, <1>1, <1>6, <2>1 DEF RequestFits, HasAnswer, EditorTypes
  <2> QED BY <1>8, <1>12, <2>2 DEF AllFits
<1>14. ObjectAlone'
  <2> SUFFICES ASSUME Save \in editor.ways
               PROVE  /\ undone' = {} /\ Len(sent') <= 1
                      /\ \A p \in Pending' : (HasAnswer(p)' => p.at = clock') /\ (loading' \/ p.way = Save)
    BY <1>1 DEF ObjectAlone
  <2>1. way = Save
    BY <1>0, WaysAre, ThisEditor DEF WayFits
  <2>2. Pending = {}
    BY <1>1, <1>7, <2>1 DEF EditorsInv, ObjectAlone
  <2>3. Pending' = {q} /\ Len(sent') = 1
    BY <1>8, <2>2
  <2>4. ~HasAnswer(q)' /\ undone' = {}
    BY <1>1, <1>6 DEF HasAnswer, EditorsInv, ObjectAlone
  <2> QED BY <1>6, <2>1, <2>3, <2>4
<1>15. \A f \in Fields : Back(f, has[f])'
  <2>1. ~FormUnderWay
    BY <1>9 DEF FormUnderWay
  <2>2. \A f \in Fields : Back(f, form.has[f])
    BY <1>1, <2>1 DEF EditorsInv, FormFits
  <2> QED BY <1>1, <1>3, <2>2 DEF Back
<1>16. FormFits'
  BY <1>10, <1>15 DEF FormFits
<1>17. SaveFits'
  BY <1>6, <1>8, <1>9, <1>15 DEF SaveFits, HasAnswer
<1> QED BY <1>8, <1>11, <1>12, <1>13, <1>14, <1>16, <1>17 DEF EditorsInv

------------------------------------------------------------------------------
(* The server's step.                                                          *)

\* A request once it is carried out.
SameRequest(new, q) ==
    /\ new.step = q.step /\ new.way = q.way /\ new.scope = q.scope /\ new.sends = q.sends
    /\ new.seen = q.seen

Fulfilled(k, then, now) == sent' = [sent EXCEPT ![k].got = then, ![k].at = now]

LEMMA FulfilledIs ==
    ASSUME Sequenced, NEW k \in DOMAIN sent, NEW then \in [Entries -> Int], NEW now \in Nat,
           Fulfilled(k, then, now)
    PROVE  \E new \in EditorRequests :
               /\ SameRequest(new, sent[k]) /\ new.got = then /\ new.at = now
               /\ sent' = [sent EXCEPT ![k] = new]
<1>1. sent[k] \in EditorRequests
  BY Among
<1> DEFINE half == [sent[k] EXCEPT !.got = then]
           new == [half EXCEPT !.at = now]
<1>2. /\ half \in EditorRequests /\ half.got = then /\ SameRequest(half, sent[k])
  BY <1>1 DEF EditorRequests, SameRequest
<1>3. sent' = [sent EXCEPT ![k] = new]
  BY DEF Sequenced, Fulfilled
<1> HIDE DEF half
<1>4. new \in EditorRequests /\ new.got = then /\ new.at = now /\ SameRequest(new, sent[k])
  BY <1>2 DEF EditorRequests, SameRequest
<1> HIDE DEF new
<1> QED BY <1>3, <1>4

\* A list or an object that is read.
LEMMA ReadScopeKeeps ==
    ASSUME EditorsAssumption, EditorsInv, NEW k \in DOMAIN sent, Serve(k), sent[k].step = "load"
    PROVE  EditorsInv'
<1>a. PICK q : q = sent[k]
  OBVIOUS
<1>0. /\ EditorTypes /\ Sequenced /\ RequestFits(q) /\ q \in EditorRequests /\ q \in Pending
      /\ Pending = Others(k) \cup {q}
  BY <1>a, Among DEF EditorsInv, AllFits
<1>1. /\ ~HasAnswer(q) /\ q.step = "load"
      /\ UNCHANGED <<editor, heard, scope, stored, display, loading, form, clock, undone,
                     unheard, astray, reverted>>
      /\ Fulfilled(k, stored[q.scope], clock)
  <2>1. [stored EXCEPT ![q.scope] = stored[q.scope]] = stored
    BY <1>0 DEF EditorTypes, EditorRequests
  <2> QED BY <1>a, <2>1 DEF Serve, HasAnswer, Fulfilled
<1>2. /\ stored[q.scope] \in [Entries -> Numbers] /\ stored[q.scope] \in [Entries -> Int]
      /\ clock \in Nat /\ clock \in Numbers
  <2>1. Numbers \subseteq Int /\ clock \in Nat /\ clock \in Numbers
    BY <1>0 DEF Numbers, EditorTypes
  <2>2. stored[q.scope] \in [Entries -> Numbers]
    BY <1>0 DEF EditorTypes, EditorRequests
  <2> QED BY <2>1, <2>2
<1>3. PICK new \in EditorRequests :
          /\ SameRequest(new, q) /\ new.got = stored[q.scope] /\ new.at = clock
          /\ sent' = [sent EXCEPT ![k] = new]
  <2>1. PICK then \in [Entries -> Int] : then = stored[q.scope]
    BY <1>2
  <2>2. PICK now \in Nat : now = clock
    BY <1>2
  <2>3. Fulfilled(k, then, now)
    BY <1>1, <2>1, <2>2
  <2>4. \E new \in EditorRequests :
               /\ SameRequest(new, sent[k]) /\ new.got = then /\ new.at = now
               /\ sent' = [sent EXCEPT ![k] = new]
    BY <1>0, <2>3, FulfilledIs
  <2> QED BY <1>a, <2>1, <2>2, <2>4
<1>4. Sequenced' /\ Pending' = Others(k) \cup {new} /\ Len(sent') = Len(sent)
  <2>1. new.way.once => new.way = sent[k].way
    BY <1>3, <1>a DEF SameRequest
  <2> QED BY <1>0, <1>3, <2>1, Following
<1>5. HasAnswer(new) /\ HasAnswer(new)'
  BY <1>2, <1>3, NotEmpty DEF HasAnswer
<1>6. \A p \in Others(k) : p \in Pending /\ p \in Pending'
  BY <1>0, <1>4
<1>7. EditorTypes'
  BY <1>0, <1>1 DEF EditorTypes, Numbers, HasForm
<1>8. AllFits'
  <2>1. \A p \in Pending : RequestFits(p)'
    BY <1>1, FitsOn DEF EditorsInv, AllFits
  <2>2. RequestFits(new)'
    BY <1>0, <1>1, <1>2, <1>3 DEF RequestFits, SameRequest, Numbers, HasAnswer
  <2> QED BY <1>4, <1>6, <2>1, <2>2 DEF AllFits
<1>9. AllCurrent'
  <2> SUFFICES ASSUME NEW p \in Pending', HasAnswer(p)', NEW r \in Entries PROVE Current(p, r)'
    BY DEF AllCurrent
  <2>1. CASE p = new
    <3>1. p.got[r] = stored'[p.scope][r]
      BY <1>1, <1>3, <2>1 DEF SameRequest
    <3> QED BY <3>1 DEF Current
  <2>2. CASE p \in Others(k)
    <3>1. Current(p, r)
      BY <1>6, <2>2 DEF EditorsInv, AllCurrent, HasAnswer
    <3>2. \A c \in Pending : WillTell(c, p.scope, r) => c \in Pending'
      BY <1>0, <1>1, <1>6 DEF WillTell
    <3> QED BY <1>1, <3>1, <3>2 DEF Current, WillTell, HasAnswer
  <2> QED BY <1>4, <2>1, <2>2
<1>10. AllShown'
  <2> SUFFICES ASSUME display.of = scope, NEW r \in Changeable PROVE RowFits(r)'
    BY <1>1 DEF AllShown, Changeable
  <2>1. RowFits(r)
    BY DEF EditorsInv, AllShown
  <2>2. \A c \in Pending : WillTell(c, scope, r) => c \in Pending'
    BY <1>0, <1>1, <1>6 DEF WillTell
  <2>3. CASE \E p \in Others(k) : WillShow(p, r)
    <3>1. \E p \in Pending' : WillShow(p, r)'
      BY <1>1, <1>6, <2>3 DEF WillShow, HasAnswer
    <3>2. HasForm' <=> HasForm
      BY <1>1 DEF HasForm
    <3> QED BY <1>1, <2>1, <2>2, <3>1, <3>2 DEF RowFits, WillTell, HasAnswer
  <2>4. CASE WillShow(q, r)
    <3>1. WillShow(new, r)' /\ new \in Pending'
      BY <1>1, <1>3, <1>4, <2>4 DEF WillShow, SameRequest
    <3>2. HasForm' <=> HasForm
      BY <1>1 DEF HasForm
    <3> QED BY <1>1, <2>1, <2>2, <3>1, <3>2 DEF RowFits, WillTell, HasAnswer
  <2>5. CASE ~\E p \in Pending : WillShow(p, r)
    BY <1>1, <2>1, <2>2, <2>5 DEF RowFits, WillTell, HasAnswer
  <2> QED BY <1>0, <2>3, <2>4, <2>5
<1>11. SelectionLoads'
  <2>1. LoadUnderWay => LoadUnderWay'
    BY <1>0, <1>1, <1>3, <1>4 DEF LoadUnderWay, SameRequest
  <2> QED BY <1>1, <2>1 DEF EditorsInv, SelectionLoads
<1>12. ObjectAlone'
  <2> SUFFICES ASSUME Save \in editor.ways
               PROVE  /\ undone' = {} /\ Len(sent') <= 1
                      /\ \A p \in Pending' : (HasAnswer(p)' => p.at = clock') /\ (loading' \/ p.way = Save)
    BY <1>1 DEF ObjectAlone
  <2>1. /\ undone = {} /\ Len(sent) <= 1
        /\ \A p \in Pending : (HasAnswer(p) => p.at = clock) /\ (loading \/ p.way = Save)
    BY DEF EditorsInv, ObjectAlone
  <2> QED BY <1>0, <1>1, <1>3, <1>4, <2>1 DEF SameRequest, HasAnswer
<1>13. FormFits'
  <2>1. FormUnderWay => FormUnderWay'
    BY <1>0, <1>1, <1>4 DEF FormUnderWay, HasAnswer
  <2> QED BY <1>1, <2>1 DEF EditorsInv, FormFits, Back
<1>14. SaveFits'
  BY <1>1, <1>3, <1>4, <1>5, <1>6 DEF EditorsInv, SaveFits, Back, HasAnswer
<1> QED BY <1>4, <1>7, <1>8, <1>9, <1>10, <1>11, <1>12, <1>13, <1>14 DEF EditorsInv

\* A change: what it sends is new or was sent back, and the rest is as it was.
LEMMA WriteIs ==
    ASSUME EditorsAssumption, EditorsInv, NEW k \in DOMAIN sent, NEW q, q = sent[k],
           Serve(k), q.step = "change"
    PROVE  \E then \in [Entries -> 0 .. clock + 1] :
               /\ stored' = [stored EXCEPT ![q.scope] = then] /\ clock' = clock + 1
               /\ Fulfilled(k, then, clock + 1) /\ ~HasAnswer(q)
               /\ \A r \in Entries \ DOMAIN q.sends : then[r] = stored[q.scope][r]
               /\ \A r \in DOMAIN q.sends : r \in Entries
               /\ \A r \in DOMAIN q.sends : q.sends[r] = Typed => then[r] = clock + 1
               /\ \A r \in DOMAIN q.sends : q.sends[r] # Typed => then[r] = q.sends[r]
               /\ UNCHANGED <<editor, heard, scope, display, loading, form, undone, unheard,
                              astray, reverted>>
<1>0. /\ EditorTypes /\ RequestFits(q) /\ q \in EditorRequests /\ ChangeFits(q) /\ WayFits(editor, q.way)
  <2>1. EditorTypes /\ RequestFits(q) /\ q \in EditorRequests
    BY Among DEF EditorsInv, AllFits
  <2>2. ChangeFits(q)
    BY <2>1 DEF RequestFits
  <2> QED BY <2>1, <2>2, ThisEditor DEF ChangeFits
<1> DEFINE then == Stored(q.sends, stored[q.scope])
<1>1. DOMAIN q.sends \subseteq Entries /\ clock \in Nat /\ Numbers = 0 .. clock
  BY <1>0 DEF ChangeFits, WayFits, EditorTypes, Numbers
<1>2. stored[q.scope] \in [Entries -> Numbers]
  BY <1>0 DEF EditorTypes, EditorRequests
<1>3. \A r \in DOMAIN q.sends : q.sends[r] = Typed \/ q.sends[r] \in Numbers
  BY <1>0 DEF ChangeFits, WayFits
<1>4. /\ then \in [Entries -> 0 .. clock + 1]
      /\ \A r \in Entries \ DOMAIN q.sends : then[r] = stored[q.scope][r]
      /\ \A r \in DOMAIN q.sends : q.sends[r] = Typed => then[r] = clock + 1
      /\ \A r \in DOMAIN q.sends : q.sends[r] # Typed => then[r] = q.sends[r]
  <2> DEFINE Is(r) == IF r \notin DOMAIN q.sends THEN stored[q.scope][r]
                      ELSE IF q.sends[r] = Typed THEN clock + 1 ELSE q.sends[r]
  <2>1. then = [r \in Entries |-> Is(r)]
    BY DEF Stored
  <2>2. \A r \in Entries : Is(r) \in 0 .. clock + 1
    BY <1>1, <1>2, <1>3
  <2>3. \A r \in Entries : then[r] = Is(r)
    BY <2>1
  <2>4. then \in [Entries -> 0 .. clock + 1]
    <3> HIDE DEF then, Is
    <3> QED BY <2>1, <2>2
  <2> HIDE DEF then
  <2> QED BY <2>3, <2>4, <1>1
<1>5. /\ stored' = [stored EXCEPT ![q.scope] = then] /\ clock' = clock + 1
      /\ Fulfilled(k, then, clock + 1) /\ ~HasAnswer(q)
      /\ UNCHANGED <<editor, heard, scope, display, loading, form, undone, unheard,
                     astray, reverted>>
  BY DEF Serve, HasAnswer, Fulfilled
<1> HIDE DEF then
<1> QED BY <1>1, <1>4, <1>5

LEMMA WriteKeeps ==
    ASSUME EditorsAssumption, EditorsInv, NEW k \in DOMAIN sent, Serve(k), sent[k].step = "change"
    PROVE  EditorsInv'
<1>a. PICK q : q = sent[k]
  OBVIOUS
<1>b. PICK now : now = clock + 1
  OBVIOUS
<1>0. /\ EditorTypes /\ Sequenced /\ RequestFits(q) /\ q \in EditorRequests /\ q \in Pending
      /\ Pending = Others(k) \cup {q} /\ q.step = "change" /\ Len(sent) >= 1
      /\ q.way.once => \A p \in Others(k) : p.way # q.way
      /\ Len(sent) <= 1 => Others(k) = {}
      /\ Pending \subseteq EditorRequests
  BY <1>a, Among DEF EditorsInv, AllFits
<1>c. ChangeFits(q) /\ WayFits(editor, q.way) /\ q.scope \in Scopes
  <2>1. ChangeFits(q)
    BY <1>0 DEF RequestFits
  <2> QED BY <1>0, <2>1, ThisEditor DEF ChangeFits, EditorRequests
<1>1. PICK then \in [Entries -> 0 .. now] :
          /\ stored' = [stored EXCEPT ![q.scope] = then] /\ clock' = now
          /\ Fulfilled(k, then, now) /\ ~HasAnswer(q)
          /\ \A r \in Entries \ DOMAIN q.sends : then[r] = stored[q.scope][r]
          /\ \A r \in DOMAIN q.sends : r \in Entries
          /\ \A r \in DOMAIN q.sends : q.sends[r] = Typed => then[r] = now
          /\ \A r \in DOMAIN q.sends : q.sends[r] # Typed => then[r] = q.sends[r]
          /\ UNCHANGED <<editor, heard, scope, display, loading, form, undone, unheard,
                         astray, reverted>>
  BY <1>0, <1>a, <1>b, WriteIs, SMTT(30)
<1>2. /\ clock \in Nat /\ now \in Nat /\ now = clock + 1 /\ Numbers \subseteq Numbers'
      /\ Numbers' = 0 .. now /\ now \in Numbers' /\ Numbers = 0 .. clock
  BY <1>0, <1>1, <1>b DEF EditorTypes, Numbers
<1>3. /\ stored'[q.scope] = then
      /\ \A s \in Scopes : s # q.scope => stored'[s] = stored[s]
      /\ stored' \in [Scopes -> [Entries -> Numbers']]
  <2>1. stored \in [Scopes -> [Entries -> Numbers]]
    BY <1>0 DEF EditorTypes
  <2>2. stored \in [Scopes -> [Entries -> Numbers']]
    BY <1>2, <2>1
  <2>3. then \in [Entries -> Numbers']
    BY <1>1, <1>2
  <2> QED BY <1>1, <1>c, <2>2, <2>3
<1>4. PICK new \in EditorRequests :
          /\ SameRequest(new, q) /\ new.got = then /\ new.at = now
          /\ sent' = [sent EXCEPT ![k] = new]
  <2>1. then \in [Entries -> Int]
    BY <1>1, <1>2
  <2>2. \E new \in EditorRequests :
               /\ SameRequest(new, sent[k]) /\ new.got = then /\ new.at = now
               /\ sent' = [sent EXCEPT ![k] = new]
    BY <1>0, <1>1, <1>2, <2>1, FulfilledIs
  <2> QED BY <1>a, <2>2
<1>5. Sequenced' /\ Pending' = Others(k) \cup {new} /\ Len(sent') = Len(sent)
  <2>1. new.way.once => new.way = sent[k].way
    BY <1>4, <1>a DEF SameRequest
  <2> QED BY <1>0, <1>4, <2>1, Following
<1>6. /\ HasAnswer(new) /\ HasAnswer(new)' /\ new.step = "change" /\ new.way = q.way
      /\ new.scope = q.scope /\ new.sends = q.sends /\ new.seen = q.seen
  BY <1>0, <1>1, <1>4, NotEmpty DEF HasAnswer, SameRequest
<1>7. \A p \in Others(k) : p \in Pending /\ p \in Pending' /\ p \in EditorRequests
  BY <1>0, <1>5
\* What this change does not touch is as it was.
<1>8. \A s \in Scopes : \A r \in Entries :
          ~(s = q.scope /\ r \in DOMAIN q.sends) => stored'[s][r] = stored[s][r]
  BY <1>1, <1>3
<1>9. HasForm /\ ~q.way.form => q.way.rows \cap Fields = {}
  <2>1. HasForm => \A way \in editor.ways : way.form \/ way.rows \cap Fields = {}
    BY FormFacts
  <2> QED BY <2>1, <1>c DEF ChangeFits
<1>10. EditorTypes'
  <2>1. display' \in [of : Scopes, rows : [Entries -> Numbers' \cup {Missing}]]
    <3>1. display \in [of : Scopes, rows : [Entries -> Numbers \cup {Missing}]]
      BY <1>0 DEF EditorTypes
    <3>2. [Entries -> Numbers \cup {Missing}] \subseteq [Entries -> Numbers' \cup {Missing}]
      BY <1>2
    <3> QED BY <1>1, <3>1, <3>2
  <2>2. heard' \in [Scopes -> Numbers']
    <3>1. heard \in [Scopes -> Numbers]
      BY <1>0 DEF EditorTypes
    <3> QED BY <1>1, <1>2, <3>1
  <2>3. form'.open => HasForm' /\ form'.has \in [Fields -> Numbers' \cup {Typed}]
    <3>1. form.open => HasForm /\ form.has \in [Fields -> Numbers \cup {Typed}]
      BY <1>0 DEF EditorTypes
    <3>2. [Fields -> Numbers \cup {Typed}] \subseteq [Fields -> Numbers' \cup {Typed}]
      BY <1>2
    <3> QED BY <1>1, <3>1, <3>2 DEF HasForm
  <2> QED BY <1>0, <1>1, <1>2, <1>3, <2>1, <2>2, <2>3 DEF EditorTypes
<1>11. ASSUME NEW p \in Others(k), ChangeFits(p), p.way.via = "captured", RequestFits(p)
       PROVE  CapturedFits(p)'
  <2>1. CapturedFits(p) /\ DOMAIN p.sends \subseteq p.way.rows /\ p.scope \in Scopes
    BY <1>7, <1>11 DEF ChangeFits, EditorRequests
  <2>2. WayFits(editor, p.way) /\ p.way \in editor.ways /\ q.way \in editor.ways
    BY <1>0, <1>11, <1>c, ThisEditor DEF ChangeFits
  <2>3. DOMAIN p.sends \subseteq Entries /\ ~p.way.form /\ p.at \in Nat /\ p.at <= clock
    BY <1>7, <1>11, <2>1, <2>2 DEF WayFits, EditorRequests, RequestFits
  <2>4. p.seen \in [Entries -> Numbers' \cup {Missing}]
    <3>1. p.seen \in [Entries -> Numbers \cup {Missing}]
      BY <2>1 DEF CapturedFits
    <3> QED BY <1>2, <3>1
  <2>5. ASSUME HasAnswer(p), NEW r \in DOMAIN p.sends
        PROVE  p.at <= stored'[p.scope][r]
    <3>1. p.at <= stored[p.scope][r] /\ r \in Entries
      BY <2>1, <2>3, <2>5 DEF CapturedFits
    <3>2. CASE ~(p.scope = q.scope /\ r \in DOMAIN q.sends)
      BY <1>8, <2>1, <3>1, <3>2
    <3>3. CASE p.scope = q.scope /\ r \in DOMAIN q.sends
      <4>1. q.sends[r] = Typed
        <5>1. ~q.way.form
          <6>1. q.way.form => r \in Fields /\ HasForm
            BY <1>c, <2>2, <3>3 DEF HasForm, ChangeFits
          <6>2. HasForm => p.way.rows \cap Fields = {}
            BY <2>2, <2>3, FormFacts
          <6> QED BY <2>1, <2>5, <6>1, <6>2
        <5> QED BY <1>c, <3>3, <5>1 DEF ChangeFits
      <4>2. stored'[p.scope][r] = now
        BY <1>1, <1>3, <3>3, <4>1
      <4> QED BY <1>2, <2>3, <4>2
    <3> QED BY <3>2, <3>3
  <2>6. ASSUME HasAnswer(p), NEW r \in DOMAIN p.sends, EditMetadata \in editor.ways
        PROVE  p.got[r] = stored'[p.scope][r]
    <3>1. p.got[r] = stored[p.scope][r] /\ r \in Entries
      BY <2>1, <2>3, <2>6 DEF CapturedFits
    <3>2. r \notin DOMAIN q.sends
      <4>1. p.way.once /\ (q.way.rows \cap p.way.rows # {} => q.way = p.way)
        BY <1>11, <2>2, <2>6 DEF WayFits
      <4>2. q.way # p.way
        BY <1>0, <4>1
      <4> QED BY <1>c, <2>1, <2>6, <4>1, <4>2 DEF ChangeFits
    <3> QED BY <1>8, <2>1, <3>1, <3>2
  <2> QED BY <1>1, <2>1, <2>4, <2>5, <2>6 DEF CapturedFits, HasAnswer
<1>12. ASSUME NEW p \in Others(k) PROVE RequestFits(p)'
  <2>1. RequestFits(p) /\ p \in EditorRequests
    BY <1>7 DEF EditorsInv, AllFits
  <2>2. p.at <= clock' /\ (~editor'.scoped => p.scope = scope')
    BY <1>1, <1>2, <2>1 DEF RequestFits, EditorRequests
  <2>3. HasAnswer(p)' => p.got \in [Entries -> Numbers']
    <3>1. HasAnswer(p) => p.got \in [Entries -> Numbers]
      BY <2>1 DEF RequestFits
    <3> QED BY <1>2, <3>1 DEF HasAnswer
  <2>4. p.step = "change" => ChangeFits(p)'
    <3> SUFFICES ASSUME p.step = "change" PROVE ChangeFits(p)'
      OBVIOUS
    <3>1. ChangeFits(p)
      BY <2>1 DEF RequestFits
    <3>2. p.way.form => p.sends \in [Fields -> Numbers' \cup {Typed}]
      <4>1. p.way.form => p.sends \in [Fields -> Numbers \cup {Typed}]
        BY <3>1 DEF ChangeFits
      <4> QED BY <1>2, <4>1
    <3>3. p.way.via = "captured" => CapturedFits(p)'
      BY <1>11, <2>1, <3>1
    <3> QED BY <1>1, <3>1, <3>2, <3>3 DEF ChangeFits
  <2> QED BY <2>1, <2>2, <2>3, <2>4 DEF RequestFits
<1>13. RequestFits(new)'
  <2>1. new.at <= clock' /\ (~editor'.scoped => new.scope = scope')
    BY <1>0, <1>1, <1>2, <1>4, <1>6 DEF RequestFits
  <2>2. new.got \in [Entries -> Numbers']
    BY <1>2, <1>4
  <2>3. ChangeFits(new)'
    <3>1. new.way.form => new.sends \in [Fields -> Numbers' \cup {Typed}]
      <4>1. q.way.form => q.sends \in [Fields -> Numbers \cup {Typed}]
        BY <1>c DEF ChangeFits
      <4> QED BY <1>2, <1>6, <4>1
    <3>2. new.way.via = "captured" => CapturedFits(new)'
      <4> SUFFICES ASSUME q.way.via = "captured" PROVE CapturedFits(new)'
        BY <1>6
      <4>1. q.seen \in [Entries -> Numbers \cup {Missing}] /\ ~q.way.form
        BY <1>c DEF ChangeFits, CapturedFits, WayFits
      <4>2. new.seen \in [Entries -> Numbers' \cup {Missing}]
        BY <1>2, <1>6, <4>1
      <4>3. \A r \in DOMAIN q.sends : then[r] = now /\ r \in Entries
        BY <1>1, <1>c, <4>1 DEF ChangeFits
      <4>4. \A r \in DOMAIN q.sends : q.seen[r] < now
        <5>1. \A r \in Entries : q.seen[r] \in Numbers \cup {Missing}
          BY <4>1
        <5> QED BY <1>2, <4>3, <5>1 DEF Missing
      <4> QED BY <1>2, <1>3, <1>4, <1>6, <4>2, <4>3, <4>4 DEF CapturedFits
    <3> QED BY <1>1, <1>6, <1>c, <3>1, <3>2 DEF ChangeFits
  <2> QED BY <1>6, <2>1, <2>2, <2>3 DEF RequestFits
<1>14. AllFits'
  BY <1>5, <1>12, <1>13 DEF AllFits
<1>15. AllCurrent'
  <2> SUFFICES ASSUME NEW p \in Pending', HasAnswer(p)', NEW r \in Entries PROVE Current(p, r)'
    BY DEF AllCurrent
  <2>1. CASE p = new
    BY <1>3, <1>4, <1>6, <2>1 DEF Current
  <2>2. CASE p \in Others(k)
    <3>1. Current(p, r) /\ p.scope \in Scopes /\ p.at \in Nat /\ p.at <= clock
      BY <1>7, <2>2 DEF EditorsInv, AllCurrent, HasAnswer, AllFits, RequestFits, EditorRequests
    <3>2. CASE p.scope = q.scope /\ r \in DOMAIN q.sends
      <4>1. WillTell(new, p.scope, r)' /\ new.at > p.at
        BY <1>2, <1>3, <1>4, <1>6, <3>1, <3>2 DEF WillTell
      <4> QED BY <1>5, <4>1 DEF Current
    <3>3. CASE ~(p.scope = q.scope /\ r \in DOMAIN q.sends)
      <4>1. stored'[p.scope][r] = stored[p.scope][r]
        BY <1>8, <3>1, <3>3
      <4>2. \A c \in Pending : WillTell(c, p.scope, r) => c \in Pending' /\ WillTell(c, p.scope, r)'
        BY <1>0, <1>1, <1>7, <4>1 DEF WillTell, HasAnswer
      <4> QED BY <1>1, <3>1, <4>1, <4>2 DEF Current
    <3> QED BY <3>2, <3>3
  <2> QED BY <1>5, <2>1, <2>2
<1>16. AllShown'
  <2> SUFFICES ASSUME display.of = scope, NEW r \in Changeable PROVE RowFits(r)'
    BY <1>1 DEF AllShown, Changeable
  <2>0. RowFits(r) /\ r \in Entries /\ scope \in Scopes
    BY <1>0, ChangeableRows DEF EditorsInv, AllShown, EditorTypes
  <2>1. CASE q.scope = scope /\ r \in DOMAIN q.sends
    <3>1. WillTell(new, scope, r)'
      BY <1>1, <1>3, <1>4, <1>6, <2>1 DEF WillTell
    <3> QED BY <1>1, <1>5, <3>1 DEF RowFits
  <2>2. CASE ~(q.scope = scope /\ r \in DOMAIN q.sends)
    <3>1. stored'[scope][r] = stored[scope][r]
      BY <1>8, <2>0, <2>2
    <3>2. \A c \in Pending : WillTell(c, scope, r) => c \in Pending' /\ WillTell(c, scope, r)'
      BY <1>0, <1>1, <1>7, <3>1 DEF WillTell, HasAnswer
    <3>3. \A c \in Pending : WillShow(c, r) => c \in Pending' /\ WillShow(c, r)'
      BY <1>0, <1>1, <1>7, <3>1 DEF WillShow, HasAnswer
    <3>4. HasForm' <=> HasForm
      BY <1>1 DEF HasForm
    <3>5. CASE \/ display.rows[r] = stored[scope][r] \/ r \in undone \cup unheard
               \/ display.rows[r] = Missing /\ r \notin Fields /\ EditMetadata \in editor.ways
      BY <1>1, <3>1, <3>5 DEF RowFits
    <3>6. CASE \E c \in Pending : WillTell(c, scope, r)
      BY <1>1, <3>2, <3>6 DEF RowFits
    <3>7. CASE /\ \E c \in Pending : WillShow(c, r)
               /\ HasForm /\ r \in Fields => display.rows[r] = Missing
      BY <1>1, <3>3, <3>4, <3>7 DEF RowFits
    <3> QED BY <2>0, <3>5, <3>6, <3>7 DEF RowFits
  <2> QED BY <2>1, <2>2
<1>17. SelectionLoads'
  <2>1. LoadUnderWay => LoadUnderWay'
    BY <1>0, <1>1, <1>7 DEF LoadUnderWay
  <2> QED BY <1>1, <2>1 DEF EditorsInv, SelectionLoads
<1>18. ObjectAlone'
  <2> SUFFICES ASSUME Save \in editor.ways
               PROVE  /\ undone' = {} /\ Len(sent') <= 1
                      /\ \A p \in Pending' : (HasAnswer(p)' => p.at = clock') /\ (loading' \/ p.way = Save)
    BY <1>1 DEF ObjectAlone
  <2>1. /\ undone = {} /\ Len(sent) <= 1
        /\ \A p \in Pending : (HasAnswer(p) => p.at = clock) /\ (loading \/ p.way = Save)
    BY DEF EditorsInv, ObjectAlone
  <2>2. Pending' = {new}
    BY <1>0, <1>5, <2>1
  <2> QED BY <1>0, <1>1, <1>4, <1>5, <1>6, <2>1, <2>2
<1>19. q.way.form => \A p \in Others(k) : p.step = "change" => ~p.way.form
  <2> SUFFICES ASSUME q.way.form, NEW p \in Others(k), p.step = "change" PROVE ~p.way.form
    OBVIOUS
  <2>1. p.way \in editor.ways
    BY <1>7 DEF EditorsInv, AllFits, RequestFits, ChangeFits
  <2> QED BY <1>0, <1>c, <2>1 DEF WayFits
<1>20. CASE q.way.form
  <2>1. FormUnderWay'
    BY <1>5, <1>6, <1>20 DEF FormUnderWay
  <2>2. SaveFits'
    BY <1>5, <1>6, <1>19, <1>20 DEF SaveFits
  <2>3. FormFits'
    BY <2>1 DEF FormFits
  <2> QED BY <1>5, <1>10, <1>14, <1>15, <1>16, <1>17, <1>18, <2>2, <2>3 DEF EditorsInv
<1>21. CASE ~q.way.form
  <2>1. HasForm => \A f \in Fields : stored'[scope][f] = stored[scope][f]
    <3>1. Fields \subseteq Entries /\ DOMAIN q.sends \subseteq q.way.rows /\ scope \in Scopes
      BY <1>0, <1>c DEF Entries, ChangeFits, EditorTypes
    <3> QED BY <1>8, <1>9, <1>21, <3>1
  <2>2. FormFits'
    <3>1. FormUnderWay => FormUnderWay'
      BY <1>0, <1>1, <1>7 DEF FormUnderWay, HasAnswer
    <3>2. form.open => HasForm
      BY <1>0 DEF EditorTypes
    <3>3. HasForm => \A f \in Fields : \A v : Back(f, v) => Back(f, v)'
      BY <1>1, <2>1 DEF Back
    <3>4. form.open => \A f \in Fields : Back(f, form.has[f]) \/ FormUnderWay
      BY DEF EditorsInv, FormFits
    <3>5. form.open => \A f \in Fields : Back(f, form.has[f])' \/ FormUnderWay'
      <4> SUFFICES ASSUME form.open, NEW f \in Fields PROVE Back(f, form.has[f])' \/ FormUnderWay'
        OBVIOUS
      <4>1. PICK v : v = form.has[f]
        OBVIOUS
      <4>2. Back(f, v) => Back(f, v)'
        BY <3>2, <3>3
      <4>3. v = form'.has[f]
        BY <1>1, <4>1
      <4> QED BY <3>1, <3>4, <4>1, <4>2, <4>3 DEF Back
    <3> QED BY <1>1, <3>5 DEF FormFits
  <2>3. SaveFits'
    <3> SUFFICES ASSUME NEW p \in Pending', p.step = "change", p.way.form, ~HasAnswer(p)', NEW f \in Fields
                 PROVE  Back(f, p.sends[f])'
      BY DEF SaveFits
    <3>1. p \in Pending /\ ~HasAnswer(p)
      BY <1>5, <1>6, <1>7 DEF HasAnswer
    <3>2. Back(f, p.sends[f]) /\ p.way \in editor.ways
      BY <3>1 DEF EditorsInv, SaveFits, AllFits, RequestFits, ChangeFits
    <3>3. HasForm
      BY <3>2 DEF HasForm
    <3> QED BY <1>1, <2>1, <3>2, <3>3 DEF Back
  <2> QED BY <1>5, <1>10, <1>14, <1>15, <1>16, <1>17, <1>18, <2>2, <2>3 DEF EditorsInv
<1> QED BY <1>20, <1>21

------------------------------------------------------------------------------
(* The answers.                                                                *)

LEMMA Hears ==
    ASSUME EditorTypes, NEW s \in Scopes, NEW at \in Numbers, Hear(s, at)
    PROVE  /\ heard' \in [Scopes -> Numbers] /\ at <= heard'[s]
           /\ \A t \in Scopes : heard[t] <= heard'[t]
<1>1. heard \in [Scopes -> Numbers] /\ Numbers \subseteq Int
  BY DEF EditorTypes, Numbers
<1>2. heard' = [heard EXCEPT ![s] = IF at > heard[s] THEN at ELSE heard[s]]
  BY DEF Hear
<1>3. \A t \in Scopes : heard'[t] = IF t = s THEN (IF at > heard[s] THEN at ELSE heard[s]) ELSE heard[t]
  BY <1>1, <1>2
<1>4. \A t \in Scopes : heard[t] \in Numbers /\ heard[t] \in Int
  BY <1>1
<1>5. heard' \in [Scopes -> Numbers]
  BY <1>1, <1>2, <1>4
<1> QED BY <1>1, <1>3, <1>4, <1>5

\* What an answer leaves of the requests under way: the others, or the next one in its place.
LEMMA OneLess ==
    ASSUME EditorsAssumption, EditorsInv, NEW k \in DOMAIN sent, NEW q, q = sent[k],
           Others(k) \subseteq Pending', UNCHANGED <<editor, scope, stored, clock>>,
           heard' \in [Scopes -> Numbers], \A s \in Scopes : heard[s] <= heard'[s],
           q.step = "change" /\ HasAnswer(q) => q.at <= heard'[q.scope]
    PROVE  /\ \A p \in Others(k) : RequestFits(p)'
           /\ \A p \in Others(k) : HasAnswer(p) => \A r \in Entries : Current(p, r)'
           /\ q.step = "change" => (LoadUnderWay => LoadUnderWay')
           /\ q.step = "load" \/ ~q.way.form => (FormUnderWay => FormUnderWay')
           /\ \A p \in Others(k) : p.step = "change" /\ p.way.form /\ ~HasAnswer(p) =>
                  \A f \in Fields : Back(f, p.sends[f])
<1>0. /\ EditorTypes /\ Sequenced /\ q \in EditorRequests /\ Pending = Others(k) \cup {q}
      /\ Pending \subseteq EditorRequests
  BY Among DEF EditorsInv
<1>1. \A p \in Others(k) : RequestFits(p)'
  BY <1>0, FitsOn DEF EditorsInv, AllFits
<1>2. ASSUME NEW p \in Others(k), HasAnswer(p), NEW r \in Entries PROVE Current(p, r)'
  <2>1. Current(p, r) /\ p \in EditorRequests
    BY <1>0, <1>2 DEF EditorsInv, AllCurrent
  <2>2. \A c \in Pending : c \in Pending' \/ (c.step = "change" /\ HasAnswer(c) => c.at <= heard'[c.scope])
    BY <1>0
  <2>3. heard' \in [Scopes -> Nat] /\ clock \in Nat
    <3>1. Numbers \subseteq Nat /\ clock \in Nat
      BY <1>0 DEF Numbers, EditorTypes
    <3> QED BY <3>1
  <2>4. \A c \in Pending : c \in EditorRequests
    BY <1>0
  <2> QED BY <1>0, <2>1, <2>2, <2>3, <2>4, CurrentOn
<1>3. q.step = "change" => (LoadUnderWay => LoadUnderWay')
  BY <1>0 DEF LoadUnderWay
<1>4. q.step = "load" \/ ~q.way.form => (FormUnderWay => FormUnderWay')
  BY <1>0 DEF FormUnderWay, HasAnswer
<1> QED BY <1>0, <1>1, <1>2, <1>3, <1>4 DEF EditorsInv, SaveFits

LEMMA AnswerLoadKeeps ==
    ASSUME EditorsAssumption, EditorsInv, NEW k \in DOMAIN sent, AnswerLoad(k)
    PROVE  EditorsInv'
<1>a. PICK q : q = sent[k]
  OBVIOUS
<1>0. /\ EditorTypes /\ Sequenced /\ RequestFits(q) /\ q \in EditorRequests /\ q \in Pending
      /\ Pending = Others(k) \cup {q} /\ Len(sent) >= 1 /\ Len(sent) \in Nat
      /\ Len(sent) <= 1 => Others(k) = {}
  BY <1>a, Among DEF EditorsInv, AllFits
<1>1. /\ q.step = "load" /\ HasAnswer(q) /\ Shows(q.scope, q.got, Late(q)) /\ Hear(q.scope, q.at)
      /\ loading' = FALSE /\ astray' = (q.scope # scope) /\ sent' = RemoveAt(sent, k)
      /\ UNCHANGED <<editor, scope, stored, form, clock, reverted>>
  BY <1>a DEF AnswerLoad, HasAnswer
<1>2. /\ q.scope \in Scopes /\ q.at \in Numbers /\ q.got \in [Entries -> Numbers]
      /\ q.way.via # "captured" /\ ~q.way.form
  BY <1>0, <1>1, WaysAre DEF RequestFits, EditorRequests, Numbers, EditorTypes
<1>3. Late(q) <=> q.at < heard[q.scope]
  BY <1>2 DEF Late
<1>4. /\ display' = [of |-> q.scope, rows |-> q.got]
      /\ undone' = Wrong(q.scope, q.got) \cap (undone \cup IF Late(q) THEN Entries ELSE {})
      /\ unheard' = IF q.scope = scope THEN unheard \cap Wrong(q.scope, q.got) ELSE unheard
  BY <1>1 DEF Shows
<1>5. /\ heard' \in [Scopes -> Numbers] /\ \A t \in Scopes : heard[t] <= heard'[t]
  BY <1>0, <1>1, <1>2, Hears
<1>6. Sequenced' /\ Pending' = Others(k) /\ Len(sent') = Len(sent) - 1
  BY <1>0, <1>1, Answering
<1>7. /\ \A p \in Others(k) : RequestFits(p)'
      /\ \A p \in Others(k) : HasAnswer(p) => \A r \in Entries : Current(p, r)'
      /\ FormUnderWay => FormUnderWay'
      /\ \A p \in Others(k) : p.step = "change" /\ p.way.form /\ ~HasAnswer(p) =>
             \A f \in Fields : Back(f, p.sends[f])
  BY <1>a, <1>1, <1>5, <1>6, OneLess
<1>8. AllFits' /\ AllCurrent' /\ SaveFits'
  BY <1>1, <1>6, <1>7 DEF AllFits, AllCurrent, SaveFits, HasAnswer, Back
<1>9. EditorTypes'
  <2>1. display' \in [of : Scopes, rows : [Entries -> Numbers \cup {Missing}]]
    BY <1>2, <1>4
  <2>2. undone' \in SUBSET Entries /\ unheard' \in SUBSET Entries
    BY <1>0, <1>4 DEF Wrong, EditorTypes
  <2>3. Numbers' = Numbers /\ HasForm' = HasForm
    BY <1>1 DEF Numbers, HasForm
  <2>4. ~editor'.scoped => display'.of = scope'
    BY <1>0, <1>1, <1>4 DEF RequestFits
  <2> QED BY <1>0, <1>1, <1>5, <2>1, <2>2, <2>3, <2>4 DEF EditorTypes
<1>10. AllShown'
  <2> SUFFICES ASSUME q.scope = scope, NEW r \in Changeable PROVE RowFits(r)'
    BY <1>1, <1>4 DEF AllShown, Changeable
  <2>1. r \in Entries /\ display'.rows[r] = q.got[r]
    BY <1>0, <1>4, ChangeableRows
  <2>2. Current(q, r)
    BY <1>0, <1>1, <2>1 DEF EditorsInv, AllCurrent
  <2>3. CASE q.got[r] = stored[scope][r]
    BY <1>1, <2>1, <2>3 DEF RowFits
  <2>4. CASE q.got[r] # stored[scope][r] /\ Late(q)
    <3>1. r \in undone'
      BY <1>4, <2>1, <2>4 DEF Wrong
    <3> QED BY <3>1 DEF RowFits
  <2>5. CASE \E c \in Pending : WillTell(c, q.scope, r)
    <3>1. PICK c \in Pending : WillTell(c, q.scope, r)
      BY <2>5
    <3>2. c \in Pending' /\ WillTell(c, scope, r)'
      BY <1>0, <1>1, <1>6, <3>1 DEF WillTell, HasAnswer
    <3> QED BY <1>1, <3>2 DEF RowFits
  <2> QED BY <1>3, <2>2, <2>3, <2>4, <2>5 DEF Current
<1>11. SelectionLoads'
  BY <1>1, <1>4 DEF SelectionLoads
<1>12. ObjectAlone'
  <2> SUFFICES ASSUME Save \in editor.ways
               PROVE  undone' = {} /\ Len(sent') <= 1 /\ Pending' = {}
    BY <1>1 DEF ObjectAlone
  <2>1. undone = {} /\ Len(sent) <= 1 /\ q.at = clock
    BY <1>0, <1>1 DEF EditorsInv, ObjectAlone
  <2>2. heard[q.scope] \in Numbers
    BY <1>0, <1>2 DEF EditorTypes
  <2>3. ~Late(q)
    BY <1>0, <1>3, <2>1, <2>2 DEF Numbers, EditorTypes
  <2> QED BY <1>0, <1>4, <1>6, <2>1, <2>3
<1>13. FormFits'
  BY <1>1, <1>7 DEF EditorsInv, FormFits, Back
<1> QED BY <1>6, <1>8, <1>9, <1>10, <1>11, <1>12, <1>13 DEF EditorsInv

\* Nothing that a lost answer leaves wrong is taken for right.
LEMMA LoseKeeps ==
    ASSUME EditorsAssumption, EditorsInv, NEW k \in DOMAIN sent, Lose(k)
    PROVE  EditorsInv'
<1>a. PICK q : q = sent[k]
  OBVIOUS
<1> DEFINE load == q.step = "load"
           listed == IF load /\ editor.clears THEN [r \in Entries |-> Missing] ELSE display.rows
           wrong == {r \in Entries : listed[r] # stored[scope][r]}
           lost == IF load THEN wrong
                   ELSE IF q.got # <<>> /\ q.scope = scope THEN DOMAIN q.sends ELSE {}
<1>0. /\ EditorTypes /\ Sequenced /\ RequestFits(q) /\ q \in EditorRequests /\ q \in Pending
      /\ Pending = Others(k) \cup {q} /\ Len(sent) >= 1 /\ Len(sent) \in Nat
      /\ Len(sent) <= 1 => Others(k) = {}
  BY <1>a, Among DEF EditorsInv, AllFits
<1>1. /\ sent' = RemoveAt(sent, k) /\ display' = [display EXCEPT !.rows = listed]
      /\ loading' = (loading /\ ~(load /\ q.way = None))
      /\ unheard' = unheard \cup lost
      /\ astray' = (astray \/ (load /\ display.of # scope))
      /\ reverted' = IF form.open THEN reverted \cup (unheard' \cap Fields) ELSE reverted
      /\ UNCHANGED <<editor, scope, stored, form, clock, undone>>
  BY <1>a DEF Lose
<1>2. IF load \/ ~HasAnswer(q) THEN heard' = heard ELSE Hear(q.scope, q.at)
  BY <1>a DEF Lose, HasAnswer
<1>3. /\ q.scope \in Scopes /\ q.at \in Numbers /\ q.step \in {"load", "change"}
      /\ ~load => ChangeFits(q) /\ WayFits(editor, q.way) /\ DOMAIN q.sends \subseteq Entries
  <2>1. ~load => ChangeFits(q)
    BY <1>0 DEF RequestFits, EditorRequests
  <2>2. ~load => WayFits(editor, q.way)
    BY <1>0, <2>1, ThisEditor DEF ChangeFits
  <2> QED BY <1>0, <2>1, <2>2 DEF RequestFits, EditorRequests, Numbers, EditorTypes, ChangeFits, WayFits
<1>4. /\ load => \A r \in Entries : listed[r] # stored[scope][r] => r \in lost
      /\ ~load /\ HasAnswer(q) /\ q.scope = scope => lost = DOMAIN q.sends
      /\ lost \subseteq Entries
  <2>0. wrong \subseteq Entries /\ \A r \in Entries : listed[r] # stored[scope][r] => r \in wrong
    OBVIOUS
  <2> HIDE DEF wrong
  <2>1. load => lost = wrong
    OBVIOUS
  <2>2. ~load /\ HasAnswer(q) /\ q.scope = scope => lost = DOMAIN q.sends
    BY DEF HasAnswer
  <2>3. ~load /\ ~(HasAnswer(q) /\ q.scope = scope) => lost = {}
    BY DEF HasAnswer
  <2> HIDE DEF lost
  <2> QED BY <1>3, <2>0, <2>1, <2>2, <2>3
<1>5. /\ ~load => listed = display.rows
      /\ listed \in [Entries -> Numbers \cup {Missing}]
  BY <1>0 DEF EditorTypes
<1> HIDE DEF listed, wrong, lost
<1>6. display' \in [of : Scopes, rows : [Entries -> Numbers \cup {Missing}]]
      /\ display'.of = display.of /\ display'.rows = listed
  BY <1>0, <1>1, <1>5 DEF EditorTypes
<1>7. /\ heard' \in [Scopes -> Numbers] /\ \A t \in Scopes : heard[t] <= heard'[t]
      /\ q.step = "change" /\ HasAnswer(q) => q.at <= heard'[q.scope]
  <2>1. CASE load \/ ~HasAnswer(q)
    <3>1. heard' = heard /\ heard \in [Scopes -> Numbers] /\ \A t \in Scopes : heard[t] <= heard[t]
      BY <1>0, <1>2, <2>1 DEF EditorTypes, Numbers
    <3> QED BY <2>1, <3>1
  <2>2. CASE ~(load \/ ~HasAnswer(q))
    BY <1>0, <1>2, <1>3, <2>2, Hears
  <2> QED BY <2>1, <2>2
<1>8. Sequenced' /\ Pending' = Others(k) /\ Len(sent') = Len(sent) - 1
  BY <1>0, <1>1, Answering
<1>9. /\ \A p \in Others(k) : RequestFits(p)'
      /\ \A p \in Others(k) : HasAnswer(p) => \A r \in Entries : Current(p, r)'
      /\ q.step = "change" => (LoadUnderWay => LoadUnderWay')
      /\ q.step = "load" \/ ~q.way.form => (FormUnderWay => FormUnderWay')
      /\ \A p \in Others(k) : p.step = "change" /\ p.way.form /\ ~HasAnswer(p) =>
             \A f \in Fields : Back(f, p.sends[f])
  BY <1>a, <1>1, <1>7, <1>8, OneLess
<1>10. AllFits' /\ AllCurrent'
  BY <1>1, <1>8, <1>9 DEF AllFits, AllCurrent, HasAnswer
<1>11. EditorTypes'
  <2>1. Numbers' = Numbers /\ HasForm' = HasForm /\ Fields \subseteq Entries
    BY <1>1 DEF Numbers, HasForm, Entries
  <2>2. unheard' \in SUBSET Entries /\ reverted' \in SUBSET Entries
    BY <1>0, <1>1, <1>4, <2>1 DEF EditorTypes
  <2> QED BY <1>0, <1>1, <1>6, <1>7, <2>1, <2>2 DEF EditorTypes
<1>12. AllShown'
  <2> SUFFICES ASSUME display.of = scope, NEW r \in Changeable PROVE RowFits(r)'
    BY <1>1, <1>6 DEF AllShown, Changeable
  <2>1. r \in Entries /\ RowFits(r)
    BY <1>0, ChangeableRows DEF EditorsInv, AllShown
  <2>2. CASE load
    <3>1. display'.rows[r] = stored'[scope][r] \/ r \in unheard'
      BY <1>1, <1>4, <1>6, <2>1, <2>2
    <3> QED BY <1>1, <3>1 DEF RowFits
  <2>3. CASE ~load
    <3>1. display'.rows[r] = display.rows[r] /\ undone' = undone /\ unheard \subseteq unheard'
      BY <1>1, <1>5, <1>6, <2>3
    <3>2. \A c \in Pending : WillTell(c, scope, r) => c \in Pending' \/ RowFits(r)'
      <4> SUFFICES ASSUME WillTell(q, scope, r) PROVE RowFits(r)'
        BY <1>0, <1>8
      <4>1. r \in lost
        BY <1>4, <2>3 DEF WillTell
      <4> QED BY <1>1, <4>1 DEF RowFits
    <3>3. \A c \in Pending : WillShow(c, r) => c \in Pending' \/ RowFits(r)'
      BY <1>0, <1>8, <2>3 DEF WillShow
    <3> QED BY <1>1, <2>1, <3>1, <3>2, <3>3, RowOn
  <2> QED BY <2>2, <2>3
<1>13. SelectionLoads'
  <2>1. CASE load
    BY <1>1, <1>6, <2>1 DEF SelectionLoads
  <2>2. CASE ~load
    BY <1>1, <1>3, <1>6, <1>9, <2>2 DEF EditorsInv, SelectionLoads
  <2> QED BY <2>1, <2>2
<1>14. ObjectAlone'
  BY <1>0, <1>1, <1>8 DEF EditorsInv, ObjectAlone
<1>15. reverted \subseteq reverted'
  BY <1>1
<1>16. SaveFits'
  BY <1>1, <1>8, <1>9, <1>15 DEF SaveFits, Back, HasAnswer
<1>17. FormFits'
  <2> SUFFICES ASSUME form.open, NEW f \in Fields, ~FormUnderWay'
               PROVE  Back(f, form.has[f])'
    BY <1>1 DEF FormFits, Back
  <2>1. Back(f, form.has[f]) \/ FormUnderWay
    BY DEF EditorsInv, FormFits
  <2>2. CASE Back(f, form.has[f])
    BY <1>1, <1>15, <2>2 DEF Back
  <2>3. CASE FormUnderWay
    <3>1. q.step = "change" /\ q.way.form /\ HasAnswer(q)
      BY <1>0, <1>1, <1>8, <2>3 DEF FormUnderWay, HasAnswer
    <3>2. q.scope = scope /\ DOMAIN q.sends = Fields
      BY <1>0, <1>3, <3>1 DEF RequestFits, ChangeFits, WayFits
    <3>3. f \in reverted'
      BY <1>1, <1>4, <3>1, <3>2
    <3> QED BY <3>3 DEF Back
  <2> QED BY <2>1, <2>2, <2>3
<1> QED BY <1>8, <1>10, <1>11, <1>12, <1>13, <1>14, <1>16, <1>17 DEF EditorsInv

LEMMA NowIs ==
    ASSUME EditorsAssumption, NEW q, NEW r \in Entries
    PROVE  LET written == r \in DOMAIN q.sends IN
           /\ q.way.via = "patch" =>
                  Now(q)[r] = IF written THEN q.got[r] ELSE display.rows[r]
           /\ q.way.via = "captured" =>
                  Now(q)[r] = IF written THEN q.got[r] ELSE q.seen[r]
           /\ q.way.via = "object" => Now(q) = q.got
           /\ q.way.via = "metadata" =>
                  Now(q)[r] = IF r \in Fields THEN q.got[r] ELSE Missing
BY DEF Now

\* The answer after which the handler asks again.
LEMMA AsksAgainKeeps ==
    ASSUME EditorsAssumption, EditorsInv, NEW k \in DOMAIN sent, AnswerChange(k),
           AsksAgain(sent[k].way)
    PROVE  EditorsInv'
<1>a. PICK q : q = sent[k]
  OBVIOUS
<1>0. /\ EditorTypes /\ Sequenced /\ RequestFits(q) /\ q \in EditorRequests /\ q \in Pending
      /\ Pending = Others(k) \cup {q}
  BY <1>a, Among DEF EditorsInv, AllFits
<1>b. PICK way : way = IF q.way.via = "awaited" THEN q.way ELSE None
  OBVIOUS
<1>1. /\ q.step = "change" /\ HasAnswer(q)
      /\ sent' = [sent EXCEPT ![k] = Ask(way, q.scope)]
      /\ loading' = (loading \/ (editor.hides /\ q.way.via = "reload"))
      /\ UNCHANGED <<display, undone, unheard>> /\ Hear(q.scope, q.at)
      /\ form' = (IF q.way.form THEN Closed ELSE form)
      /\ UNCHANGED <<editor, scope, stored, clock, astray, reverted>>
  BY <1>a, <1>b DEF AnswerChange, HasAnswer
<1>2. /\ ChangeFits(q) /\ WayFits(editor, q.way) /\ q.way \in editor.ways
      /\ q.way.via \in {"reload", "awaited"} /\ q.scope \in Scopes /\ q.at \in Numbers
      /\ editor.hides \in BOOLEAN
  <2>1. ChangeFits(q)
    BY <1>0, <1>1 DEF RequestFits
  <2>2. WayFits(editor, q.way) /\ q.way \in editor.ways /\ editor.hides \in BOOLEAN
    BY <1>0, <2>1, ThisEditor DEF ChangeFits
  <2> QED BY <1>0, <1>a, <2>1, <2>2 DEF AsksAgain, RequestFits, EditorRequests, Numbers, EditorTypes
<1>3. /\ way \in {None, Relate} /\ (way.once => way = q.way) /\ ~way.form /\ ~q.way.form
      /\ form' = form
  BY <1>1, <1>2, <1>b, WaysAre DEF WayFits
<1>4. PICK new \in EditorRequests :
          /\ new.step = "load" /\ new.way = way /\ new.scope = q.scope /\ new.at = 0
          /\ ~HasAnswer(new) /\ sent' = [sent EXCEPT ![k] = new]
  BY <1>1, <1>2, <1>3, AskIs, ZenonT(40)
<1>5. Sequenced' /\ Pending' = Others(k) \cup {new} /\ Len(sent') = Len(sent)
  BY <1>0, <1>3, <1>4, <1>a, Following
<1>6. /\ heard' \in [Scopes -> Numbers] /\ q.at <= heard'[q.scope]
      /\ \A t \in Scopes : heard[t] <= heard'[t]
  BY <1>0, <1>1, <1>2, Hears
<1>7. /\ \A p \in Others(k) : RequestFits(p)'
      /\ \A p \in Others(k) : HasAnswer(p) => \A r \in Entries : Current(p, r)'
      /\ LoadUnderWay => LoadUnderWay'
      /\ FormUnderWay => FormUnderWay'
      /\ \A p \in Others(k) : p.step = "change" /\ p.way.form /\ ~HasAnswer(p) =>
             \A f \in Fields : Back(f, p.sends[f])
  BY <1>a, <1>1, <1>3, <1>5, <1>6, OneLess
<1>8. EditorTypes'
  <2>1. Numbers' = Numbers /\ HasForm' = HasForm
    BY <1>1 DEF Numbers, HasForm
  <2> QED BY <1>0, <1>1, <1>2, <1>3, <1>6, <2>1 DEF EditorTypes
<1>9. AllFits'
  <2>1. RequestFits(new)'
    BY <1>0, <1>1, <1>3, <1>4 DEF RequestFits, HasAnswer, EditorTypes
  <2> QED BY <1>5, <1>7, <2>1 DEF AllFits
<1>10. AllCurrent' /\ SaveFits'
  BY <1>1, <1>4, <1>5, <1>7 DEF AllCurrent, SaveFits, HasAnswer, Back
<1>11. AllShown'
  <2> SUFFICES ASSUME display.of = scope, NEW r \in Changeable PROVE RowFits(r)'
    BY <1>1 DEF AllShown, Changeable
  <2>1. RowFits(r)
    BY DEF EditorsInv, AllShown
  <2>2. \A c \in Pending : WillTell(c, scope, r) => c \in Pending' \/ RowFits(r)'
    <3> SUFFICES ASSUME WillTell(q, scope, r) PROVE RowFits(r)'
      BY <1>0, <1>5
    <3>1. WillShow(new, r)'
      BY <1>1, <1>4 DEF WillShow, HasAnswer, WillTell
    <3>2. ~(HasForm /\ r \in Fields)
      <4>1. r \in q.way.rows
        BY <1>2 DEF WillTell, ChangeFits
      <4>2. HasForm => q.way.rows \cap Fields = {}
        BY <1>2, <1>3, FormFacts
      <4> QED BY <4>1, <4>2
    <3>3. HasForm' = HasForm
      BY <1>1 DEF HasForm
    <3> QED BY <1>5, <3>1, <3>2, <3>3 DEF RowFits
  <2>3. \A c \in Pending : WillShow(c, r) => c \in Pending' \/ RowFits(r)'
    BY <1>0, <1>1, <1>5 DEF WillShow
  <2> QED BY <1>1, <2>1, <2>2, <2>3, RowOn
<1>12. SelectionLoads'
  BY <1>1, <1>7 DEF EditorsInv, SelectionLoads
<1>13. ObjectAlone'
  <2>1. Save \notin editor.ways
    BY <1>0, <1>2, WaysAre, ThisEditor DEF WayFits
  <2> QED BY <1>1, <2>1 DEF ObjectAlone
<1>14. FormFits'
  BY <1>1, <1>3, <1>7 DEF EditorsInv, FormFits, Back
<1> QED BY <1>5, <1>8, <1>9, <1>10, <1>11, <1>12, <1>13, <1>14 DEF EditorsInv

\* What a handler shows is as it is kept, or known not to be, or an answer is to come.
LEMMA NowFits ==
    ASSUME EditorsAssumption, EditorsInv, NEW k \in DOMAIN sent, NEW q, q = sent[k],
           q.step = "change", HasAnswer(q), ~AsksAgain(q.way), display.of = scope,
           NEW r \in Changeable, Now(q)[r] # stored[scope][r], ~Late(q)
    PROVE  \/ r \in undone \cup unheard
           \/ Now(q)[r] = Missing /\ r \notin Fields /\ EditMetadata \in editor.ways
           \/ \E c \in Others(k) : WillTell(c, scope, r)
           \/ /\ \E p \in Others(k) : WillShow(p, r)
              /\ HasForm /\ r \in Fields => Now(q)[r] = Missing
<1>0. /\ EditorTypes /\ Sequenced /\ RequestFits(q) /\ q \in EditorRequests /\ q \in Pending
      /\ Pending = Others(k) \cup {q} /\ r \in Entries
  BY Among, ChangeableRows DEF EditorsInv, AllFits
<1>1. /\ ChangeFits(q) /\ WayFits(editor, q.way) /\ q.way \in editor.ways
      /\ q.way.via \in {"patch", "captured", "object", "metadata"} /\ ~editor.scoped
      /\ q.scope = scope /\ q.got \in [Entries -> Numbers]
  <2>1. ChangeFits(q)
    BY <1>0 DEF RequestFits
  <2>2. WayFits(editor, q.way) /\ q.way \in editor.ways /\ editor.scoped \in BOOLEAN
    BY <1>0, <2>1, ThisEditor DEF ChangeFits
  <2>3. q.way.via \in {"patch", "captured", "object", "metadata"} /\ ~editor.scoped
    BY <2>2 DEF WayFits, AsksAgain
  <2> QED BY <1>0, <2>1, <2>2, <2>3 DEF RequestFits
<1>2. RowFits(r) /\ Current(q, r)
  BY <1>0 DEF EditorsInv, AllShown, AllCurrent
<1>3. \A c \in Pending : WillShow(c, r) => c \in Others(k)
  BY <1>0 DEF WillShow
\* A row this handler does not set.
<1>4. ASSUME Now(q)[r] = display.rows[r], ~WillTell(q, scope, r)
      PROVE  \/ r \in undone \cup unheard
             \/ Now(q)[r] = Missing /\ r \notin Fields /\ EditMetadata \in editor.ways
             \/ \E c \in Others(k) : WillTell(c, scope, r)
             \/ /\ \E p \in Others(k) : WillShow(p, r)
                /\ HasForm /\ r \in Fields => Now(q)[r] = Missing
  BY <1>0, <1>2, <1>3, <1>4 DEF RowFits
\* A row that it sets to the answer's.
<1>5. ASSUME Now(q)[r] = q.got[r], q.at >= heard[scope]
      PROVE  \E c \in Others(k) : WillTell(c, scope, r)
  <2>1. q.got[r] # stored[q.scope][r] /\ ~(q.at < heard[q.scope])
    <3>1. heard[scope] \in Int /\ q.at \in Int
      BY <1>0 DEF EditorTypes, Numbers, EditorRequests
    <3> QED BY <1>1, <1>5, <3>1
  <2>2. PICK c \in Pending : WillTell(c, q.scope, r) /\ c.at > q.at
    BY <1>2, <2>1 DEF Current
  <2>3. c # q
    BY <1>0, <2>2 DEF EditorRequests
  <2> QED BY <1>0, <1>1, <2>2, <2>3
<1>6. q.way.via # "captured" => q.at >= heard[scope]
  <2>1. heard[scope] \in Int /\ q.at \in Int
    BY <1>0 DEF EditorTypes, Numbers, EditorRequests
  <2> QED BY <1>1, <2>1 DEF Late
<1>7. CASE q.way.via = "patch"
  <2>1. CASE r \in DOMAIN q.sends
    BY <1>0, <1>5, <1>6, <1>7, <2>1, NowIs
  <2>2. CASE r \notin DOMAIN q.sends
    <3>1. Now(q)[r] = display.rows[r] /\ ~WillTell(q, scope, r)
      BY <1>0, <1>7, <2>2, NowIs DEF WillTell
    <3> QED BY <1>4, <3>1
  <2> QED BY <2>1, <2>2
<1>8. CASE q.way.via = "captured"
  <2>1. q.seen = display.rows /\ CapturedFits(q)
    BY <1>1, <1>8 DEF Late, ChangeFits
  <2>2. CASE r \notin DOMAIN q.sends
    <3>1. Now(q)[r] = display.rows[r] /\ ~WillTell(q, scope, r)
      BY <1>0, <1>8, <2>1, <2>2, NowIs DEF WillTell
    <3> QED BY <1>4, <3>1
  <2>3. CASE r \in DOMAIN q.sends
    <3>1. Now(q)[r] = q.got[r]
      BY <1>0, <1>8, <2>3, NowIs
    <3>2. /\ display.rows[r] < q.at /\ q.at <= stored[scope][r]
          /\ EditMetadata \in editor.ways => q.got[r] = stored[scope][r]
      BY <1>1, <2>1, <2>3 DEF CapturedFits
    <3>3. display.rows[r] # stored[scope][r] /\ EditMetadata \notin editor.ways
      <4>1. q.at \in Int /\ stored[scope][r] \in Int
        BY <1>0 DEF EditorTypes, Numbers, EditorRequests
      <4>2. display.rows[r] \in Int
        BY <1>0 DEF EditorTypes, Numbers, Missing
      <4> QED BY <3>1, <3>2, <4>1, <4>2
    <3>4. ~WillTell(q, scope, r)
      BY <3>1 DEF WillTell
    <3>5. ~(HasForm /\ r \in Fields)
      <4>1. r \in q.way.rows /\ (HasForm => q.way.rows \cap Fields = {})
        BY <1>0, <1>1, <1>8, <2>3, ThisEditor DEF ChangeFits, WayFits
      <4> QED BY <4>1
    <3> QED BY <1>0, <1>2, <1>3, <3>3, <3>4, <3>5 DEF RowFits
  <2> QED BY <2>2, <2>3
<1>9. CASE q.way.via = "object"
  BY <1>0, <1>5, <1>6, <1>9, NowIs
<1>10. CASE q.way.via = "metadata"
  <2>1. CASE r \in Fields
    BY <1>0, <1>5, <1>6, <1>10, <2>1, NowIs
  <2>2. CASE r \notin Fields
    BY <1>0, <1>1, <1>10, <2>2, NowIs DEF WayFits
  <2> QED BY <2>1, <2>2
<1> QED BY <1>1, <1>7, <1>8, <1>9, <1>10

\* The answer that the handler shows by itself.
LEMMA HandlerKeeps ==
    ASSUME EditorsAssumption, EditorsInv, NEW k \in DOMAIN sent, AnswerChange(k),
           ~AsksAgain(sent[k].way)
    PROVE  EditorsInv'
<1>a. PICK q : q = sent[k]
  OBVIOUS
<1>0. /\ EditorTypes /\ Sequenced /\ RequestFits(q) /\ q \in EditorRequests /\ q \in Pending
      /\ Pending = Others(k) \cup {q} /\ Len(sent) >= 1 /\ Len(sent) \in Nat
      /\ Len(sent) <= 1 => Others(k) = {}
  BY <1>a, Among DEF EditorsInv, AllFits
<1>1. /\ q.step = "change" /\ HasAnswer(q) /\ ~AsksAgain(q.way)
      /\ sent' = RemoveAt(sent, k)
      /\ Shows(display.of, Now(q), Late(q)) /\ Hear(q.scope, q.at)
      /\ form' = (IF q.way.form THEN Closed ELSE form)
      /\ UNCHANGED <<editor, scope, stored, clock, astray, reverted, loading>>
  BY <1>a DEF AnswerChange, HasAnswer
<1>2. /\ ChangeFits(q) /\ WayFits(editor, q.way) /\ q.way \in editor.ways
      /\ q.way.via \in {"patch", "captured", "object", "metadata"} /\ q.way.form \in BOOLEAN
      /\ q.scope = scope /\ display.of = scope /\ q.at \in Numbers
      /\ q.got \in [Entries -> Numbers] /\ scope \in Scopes
  <2>1. ChangeFits(q)
    BY <1>0, <1>1 DEF RequestFits
  <2>2. WayFits(editor, q.way) /\ q.way \in editor.ways /\ editor.scoped \in BOOLEAN
    BY <1>0, <2>1, ThisEditor DEF ChangeFits
  <2>3. /\ q.way.via \in {"patch", "captured", "object", "metadata"} /\ ~editor.scoped
        /\ q.way.form \in BOOLEAN
    BY <1>1, <2>2 DEF WayFits, AsksAgain
  <2> QED BY <1>0, <1>1, <2>1, <2>2, <2>3 DEF RequestFits, EditorRequests, Numbers, EditorTypes
<1>b. PICK now : now = Now(q)
  OBVIOUS
<1>3. /\ display' = [of |-> scope, rows |-> now]
      /\ undone' = Wrong(scope, now) \cap (undone \cup IF Late(q) THEN Entries ELSE {})
      /\ unheard' = unheard \cap Wrong(scope, now)
  BY <1>1, <1>2, <1>b DEF Shows
<1>4. now \in [Entries -> Numbers \cup {Missing}]
  <2>1. /\ q.got \in [Entries -> Numbers \cup {Missing}]
        /\ display.rows \in [Entries -> Numbers \cup {Missing}]
        /\ q.way.via = "captured" => q.seen \in [Entries -> Numbers \cup {Missing}]
    BY <1>0, <1>2 DEF EditorTypes, ChangeFits, CapturedFits
  <2>2. \A r \in Entries : q.got[r] \in Numbers \cup {Missing} /\ display.rows[r] \in Numbers \cup {Missing}
    BY <2>1
  <2>3. CASE q.way.via = "object"
    BY <1>b, <2>1, <2>3 DEF Now
  <2>4. CASE q.way.via = "metadata"
    <3>1. now = [r \in Entries |-> IF r \in Fields THEN q.got[r] ELSE Missing]
      BY <1>b, <2>4 DEF Now
    <3> QED BY <2>2, <3>1
  <2>5. CASE q.way.via = "patch"
    <3>1. now = [r \in Entries |-> IF r \in DOMAIN q.sends THEN q.got[r] ELSE display.rows[r]]
      BY <1>b, <2>5 DEF Now
    <3> QED BY <2>2, <3>1
  <2>6. CASE q.way.via = "captured"
    <3>1. now = [r \in Entries |-> IF r \in DOMAIN q.sends THEN q.got[r] ELSE q.seen[r]]
      BY <1>b, <2>6 DEF Now
    <3>2. \A r \in Entries : q.seen[r] \in Numbers \cup {Missing}
      BY <2>1, <2>6
    <3> QED BY <2>2, <3>1, <3>2
  <2> QED BY <1>2, <2>3, <2>4, <2>5, <2>6
<1>5. Sequenced' /\ Pending' = Others(k) /\ Len(sent') = Len(sent) - 1
  BY <1>0, <1>1, <1>a, Answering
<1>6. /\ heard' \in [Scopes -> Numbers] /\ q.at <= heard'[q.scope]
      /\ \A t \in Scopes : heard[t] <= heard'[t]
  BY <1>0, <1>1, <1>2, Hears
<1>7. /\ \A p \in Others(k) : RequestFits(p)'
      /\ \A p \in Others(k) : HasAnswer(p) => \A r \in Entries : Current(p, r)'
      /\ LoadUnderWay => LoadUnderWay'
      /\ ~q.way.form => (FormUnderWay => FormUnderWay')
      /\ \A p \in Others(k) : p.step = "change" /\ p.way.form /\ ~HasAnswer(p) =>
             \A f \in Fields : Back(f, p.sends[f])
  BY <1>a, <1>1, <1>5, <1>6, OneLess
<1>8. form' \in [open : BOOLEAN, has : [Fields -> Int]] /\ (form'.open => form' = form /\ ~q.way.form)
  BY <1>0, <1>1 DEF Closed, Missing, EditorTypes
<1>9. EditorTypes'
  <2>1. display' \in [of : Scopes, rows : [Entries -> Numbers \cup {Missing}]]
    BY <1>2, <1>3, <1>4
  <2>2. undone' \in SUBSET Entries /\ unheard' \in SUBSET Entries
    BY <1>0, <1>3 DEF Wrong, EditorTypes
  <2>3. Numbers' = Numbers /\ HasForm' = HasForm
    BY <1>1 DEF Numbers, HasForm
  <2> QED BY <1>0, <1>1, <1>3, <1>6, <1>8, <2>1, <2>2, <2>3 DEF EditorTypes
<1>10. AllFits' /\ AllCurrent' /\ SaveFits'
  BY <1>1, <1>5, <1>7 DEF AllFits, AllCurrent, SaveFits, HasAnswer, Back
<1>11. AllShown'
  <2> SUFFICES ASSUME NEW r \in Changeable, now[r] # stored[scope][r] PROVE RowFits(r)'
    BY <1>1, <1>3 DEF AllShown, Changeable, RowFits
  <2>0. r \in Entries /\ display'.rows[r] = now[r] /\ r \in Wrong(scope, now)
    BY <1>0, <1>3, ChangeableRows DEF Wrong
  <2>1. CASE Late(q)
    BY <1>3, <2>0, <2>1 DEF RowFits
  <2>2. CASE ~Late(q)
    <3>1. \/ r \in undone \cup unheard
          \/ now[r] = Missing /\ r \notin Fields /\ EditMetadata \in editor.ways
          \/ \E c \in Others(k) : WillTell(c, scope, r)
          \/ /\ \E p \in Others(k) : WillShow(p, r)
             /\ HasForm /\ r \in Fields => now[r] = Missing
      BY <1>1, <1>2, <1>a, <1>b, <2>2, NowFits
    <3>2. CASE r \in undone \cup unheard
      BY <1>3, <2>0, <3>2 DEF RowFits
    <3>3. CASE now[r] = Missing /\ r \notin Fields /\ EditMetadata \in editor.ways
      BY <1>1, <2>0, <3>3 DEF RowFits
    <3>4. CASE \E c \in Others(k) : WillTell(c, scope, r)
      BY <1>1, <1>5, <3>4 DEF RowFits, WillTell, HasAnswer
    <3>5. CASE /\ \E p \in Others(k) : WillShow(p, r)
               /\ HasForm /\ r \in Fields => now[r] = Missing
      <4>1. HasForm' = HasForm
        BY <1>1 DEF HasForm
      <4>2. \E p \in Pending' : WillShow(p, r)'
        BY <1>1, <1>5, <3>5 DEF WillShow, HasAnswer
      <4> QED BY <2>0, <3>5, <4>1, <4>2 DEF RowFits
    <3> QED BY <3>1, <3>2, <3>3, <3>4, <3>5
  <2> QED BY <2>1, <2>2
<1>12. SelectionLoads'
  BY <1>1, <1>3 DEF SelectionLoads
<1>13. ObjectAlone'
  <2> SUFFICES ASSUME Save \in editor.ways
               PROVE  undone' = {} /\ Len(sent') <= 1 /\ Pending' = {}
    BY <1>1 DEF ObjectAlone
  <2>1. undone = {} /\ Len(sent) <= 1 /\ q.at = clock
    BY <1>0, <1>1 DEF EditorsInv, ObjectAlone
  <2>2. q.way.via = "object"
    BY <1>0, <1>2, WaysAre, ThisEditor DEF WayFits
  <2>3. heard[q.scope] \in Numbers
    BY <1>0, <1>2 DEF EditorTypes
  <2>4. ~Late(q)
    BY <1>0, <2>1, <2>2, <2>3 DEF Late, Numbers, EditorTypes
  <2> QED BY <1>0, <1>3, <1>5, <2>1, <2>4
<1>14. FormFits'
  <2>1. form'.open => form' = form /\ ~q.way.form /\ form.open
    BY <1>8
  <2>2. form.open => \A f \in Fields : Back(f, form.has[f]) \/ FormUnderWay
    BY DEF EditorsInv, FormFits
  <2>3. ~q.way.form => (FormUnderWay => FormUnderWay')
    BY <1>7
  <2> QED BY <1>1, <2>1, <2>2, <2>3 DEF FormFits, Back
<1> QED BY <1>5, <1>9, <1>10, <1>11, <1>12, <1>13, <1>14 DEF EditorsInv

------------------------------------------------------------------------------
(* The panels.                                                                 *)

LEMMA EditorsStep ==
    ASSUME EditorsAssumption, EditorsInv, [EditorsNext]_editorVars
    PROVE  EditorsInv'
<1>1. CASE Edit
  BY <1>1, EditKeeps
<1>2. CASE Cancel
  BY <1>2, CancelKeeps
<1>3. ASSUME NEW s \in Scopes, Select(s) PROVE EditorsInv'
  BY <1>3, SelectKeeps
<1>4. ASSUME NEW way \in editor.ways, NEW r \in Entries, Act(way, r) PROVE EditorsInv'
  BY <1>4, ActKeeps
<1>5. ASSUME NEW way \in editor.ways, NEW f \in Fields, Submit(way, f) PROVE EditorsInv'
  BY <1>5, SubmitKeeps
<1>6. ASSUME NEW k \in DOMAIN sent, Serve(k) PROVE EditorsInv'
  <2>1. sent[k].step \in {"load", "change"}
    BY Among DEF EditorsInv, EditorRequests
  <2> QED BY <1>6, <2>1, ReadScopeKeeps, WriteKeeps
<1>7. ASSUME NEW k \in DOMAIN sent, AnswerLoad(k) PROVE EditorsInv'
  BY <1>7, AnswerLoadKeeps
<1>8. ASSUME NEW k \in DOMAIN sent, AnswerChange(k) PROVE EditorsInv'
  BY <1>8, AsksAgainKeeps, HandlerKeeps
<1>9. ASSUME NEW k \in DOMAIN sent, Lose(k) PROVE EditorsInv'
  BY <1>9, LoseKeeps
<1>10. CASE UNCHANGED editorVars
  <2>1. UNCHANGED <<editor, scope, stored, display, loading, form, sent, clock, heard, undone,
                    unheard, astray, reverted>>
    BY <1>10 DEF editorVars
  <2>2. EditorTypes' /\ FormFits' /\ SaveFits'
    <3>1. Pending' = Pending /\ Numbers' = Numbers /\ HasForm' = HasForm
      BY <2>1 DEF Pending, Numbers, HasForm
    <3>2. EditorTypes'
      BY <2>1, <3>1 DEF EditorsInv, EditorTypes
    <3>3. FormFits' /\ SaveFits'
      BY <2>1, <3>1 DEF EditorsInv, FormFits, SaveFits, Back, HasAnswer, FormUnderWay
    <3> QED BY <3>2, <3>3
  <2> QED BY <2>1, <2>2, FormKeeps
<1> QED BY <1>1, <1>2, <1>3, <1>4, <1>5, <1>6, <1>7, <1>8, <1>9, <1>10 DEF EditorsNext

\* Every row that can be changed is as the server keeps it, or known not to be, or an answer
\* is to come that makes it so; and a form holds nothing older than what is kept without
\* being known to, whatever overlaps (the handlers of UserManagementPanel.jsx,
\* OrgManagementPanel.jsx, SystemAdminPanel.jsx, WorkspaceSettingsSheet.jsx,
\* ChannelDetailsPanel.jsx, EntityDetailsPanel.jsx and AiSettingsPanel.jsx).
THEOREM EditorsInvariance == EditorsSpec => []EditorsInv
<1>1. EditorsInit => EditorsInv
  BY EditorsStart, EditorsAssumption
<1>2. EditorsInv /\ [EditorsNext]_editorVars => EditorsInv'
  BY EditorsStep, EditorsAssumption
<1> QED BY <1>1, <1>2, PTL DEF EditorsSpec

LEMMA SettledShows ==
    ASSUME EditorsAssumption, EditorsInv
    PROVE  ShownIsStored
<1>1. Settled => Pending = {}
  <2>1. Settled => DOMAIN sent = {}
    BY DEF Settled
  <2> QED BY <2>1 DEF Pending
<1>2. Settled => display.of = scope \/ astray
  BY <1>1 DEF EditorsInv, SelectionLoads, LoadUnderWay
<1>3. ASSUME Settled, display.of = scope, NEW r \in Changeable
      PROVE  \/ display.rows[r] = stored[scope][r] \/ r \in undone \cup unheard
             \/ display.rows[r] = Missing /\ r \notin Fields /\ EditMetadata \in editor.ways
  BY <1>1, <1>3 DEF EditorsInv, AllShown, RowFits
<1>4. undone # {} => Save \notin editor.ways
  BY DEF EditorsInv, ObjectAlone
<1> QED BY <1>2, <1>3, <1>4 DEF ShownIsStored

\* A panel with nothing under way shows what the server keeps of the selected scope, however
\* changes, reloads and selections overlapped, but for answers that came late, for another
\* scope, or never (the same handlers).
THEOREM PanelsShowWhatIsStored == EditorsSpec => []ShownIsStored
<1>1. EditorsInv => ShownIsStored
  BY SettledShows, EditorsAssumption
<1> QED BY <1>1, EditorsInvariance, PTL

\* Only a change of the server's writes, and it writes back no value older than what is
\* kept that was not known to be old when the form was opened.
LEMMA StepKeepsSaves ==
    ASSUME EditorsAssumption, EditorsInv, [EditorsNext]_editorVars
    PROVE  \A s \in Scopes : \A r \in Entries : stored'[s][r] < stored[s][r] => r \in reverted
<1>0. EditorTypes /\ Sequenced
  BY DEF EditorsInv
<1>1. CASE stored' = stored
  <2>1. \A s \in Scopes : \A r \in Entries : stored[s][r] \in Int
    BY <1>0 DEF EditorTypes, Numbers
  <2> QED BY <1>1, <2>1
<1>2. ASSUME NEW k \in DOMAIN sent, Serve(k), sent[k].step = "load"
      PROVE  stored' = stored
  <2>1. sent[k].scope \in Scopes
    BY <1>0, Among DEF EditorRequests
  <2>2. [stored EXCEPT ![sent[k].scope] = stored[sent[k].scope]] = stored
    BY <1>0, <2>1 DEF EditorTypes
  <2> QED BY <1>2, <2>2 DEF Serve
<1>3. ASSUME NEW k \in DOMAIN sent, Serve(k), sent[k].step = "change",
             NEW s \in Scopes, NEW r \in Entries, stored'[s][r] < stored[s][r]
      PROVE  r \in reverted
  <2>a. PICK q : q = sent[k]
    OBVIOUS
  <2>b. PICK now : now = clock + 1
    OBVIOUS
  <2>1. /\ q \in Pending /\ RequestFits(q) /\ q \in EditorRequests /\ q.scope \in Scopes
        /\ clock \in Nat /\ q.step = "change"
    BY <1>0, <1>3, <2>a, Among DEF EditorsInv, AllFits, EditorRequests, EditorTypes
  <2>2. PICK then \in [Entries -> 0 .. now] :
          /\ stored' = [stored EXCEPT ![q.scope] = then] /\ ~HasAnswer(q)
          /\ \A i \in Entries \ DOMAIN q.sends : then[i] = stored[q.scope][i]
          /\ \A i \in DOMAIN q.sends : q.sends[i] = Typed => then[i] = now
          /\ \A i \in DOMAIN q.sends : q.sends[i] # Typed => then[i] = q.sends[i]
    BY <1>3, <2>a, <2>b, WriteIs
  <2>3. stored[s][r] \in 0 .. clock
    BY <1>0 DEF EditorTypes, Numbers
  <2>4. s = q.scope /\ stored'[s] = then
    <3>1. s # q.scope => stored'[s] = stored[s]
      BY <1>0, <2>2 DEF EditorTypes
    <3>2. s = q.scope => stored'[s] = then
      BY <1>0, <2>2 DEF EditorTypes
    <3> QED BY <1>3, <2>1, <2>3, <3>1, <3>2
  <2>5. r \in DOMAIN q.sends /\ q.sends[r] # Typed /\ q.sends[r] = then[r]
    <3>1. r \in DOMAIN q.sends
      BY <1>3, <2>1, <2>2, <2>3, <2>4
    <3>2. q.sends[r] # Typed
      BY <1>3, <2>1, <2>2, <2>3, <2>4, <2>b, <3>1
    <3> QED BY <2>2, <3>1, <3>2
  <2>6. q.way.form /\ q.way \in editor.ways /\ r \in Fields /\ q.scope = scope
    <3>1. ChangeFits(q)
      BY <2>1 DEF RequestFits
    <3>2. q.way.form /\ q.way \in editor.ways
      BY <2>5, <3>1 DEF ChangeFits
    <3>3. HasForm
      BY <3>2 DEF HasForm
    <3> QED BY <2>1, <2>5, <3>1, <3>2, <3>3, FormFacts DEF ChangeFits, RequestFits
  <2>7. Back(r, q.sends[r])
    BY <2>1, <2>2, <2>6 DEF EditorsInv, SaveFits
  <2>8. ~(q.sends[r] >= stored[scope][r])
    BY <1>3, <2>2, <2>3, <2>4, <2>5, <2>6, <2>b, <2>1
  <2> QED BY <2>5, <2>7, <2>8 DEF Back
<1>4. stored' = stored \/ \E k \in DOMAIN sent : Serve(k)
  BY DEF EditorsNext, editorVars, Edit, Cancel, Select, Act, Submit, AnswerLoad, AnswerChange, Lose
<1>5. \A k \in DOMAIN sent : sent[k].step \in {"load", "change"}
  BY <1>0, Among DEF EditorRequests
<1> QED BY <1>1, <1>2, <1>3, <1>4, <1>5

\* Saving one field writes no older value of another field back, but for one that the panel
\* showed because of an answer that came late, or never (handleSave of AiSettingsPanel.jsx
\* and EntityDetailsPanel.jsx).
THEOREM SavesAreKept == EditorsSpec => SaveKeepsSaves
<1>1. EditorsInv /\ [EditorsNext]_editorVars =>
          [\A s \in Scopes : \A r \in Entries :
               stored'[s][r] < stored[s][r] => r \in reverted]_editorVars
  BY StepKeepsSaves, EditorsAssumption
<1> QED BY <1>1, EditorsInvariance, PTL DEF EditorsSpec, SaveKeepsSaves

==============================================================================
