-------------------------- MODULE TranscriptProofs --------------------------
(***************************************************************************)
(* Theorems about the messages of a sub-session (Transcript), for any       *)
(* paths and bounds.                                                       *)
(***************************************************************************)
EXTENDS Transcript, WellFoundedInduction, TLAPS

-----------------------------------------------------------------------------
(* Induction.  The relation < on the numbers is well founded, so that a set  *)
(* of them has a least element; a set that has m and the successor of each   *)
(* of its members below n has them all.                                      *)

Less == {ss \in Nat \X Nat : ss[1] < ss[2]}

LEMMA LessIsWellFounded == IsWellFoundedOn(Less, Nat)
BY NatLessThanWellFounded DEF OpToRel, Less

LEMMA Least ==
    ASSUME NEW S, S \subseteq Nat, S # {}
    PROVE  \E n \in S : \A m \in S : n <= m
<1>1. \A m, n \in Nat : m < n => <<m, n>> \in Less
  BY DEF Less
<1>2. PICK n \in S : \A m \in S : ~ (<<m, n>> \in Less)
  BY LessIsWellFounded, WFMin
<1>3. ASSUME NEW m \in S
      PROVE  n <= m
  <2>1. m \in Nat /\ n \in Nat /\ ~ (<<m, n>> \in Less)
    BY <1>2
  <2>2. ~ (m < n)
    BY <1>1, <2>1
  <2> QED
    BY <2>1, <2>2
<1> QED
  BY <1>3

LEMMA Climbs ==
    ASSUME NEW m \in Nat, NEW n \in Nat, NEW H, m \in H,
           \A k \in m .. n : k \in H /\ k < n => k + 1 \in H
    PROVE  m .. n \subseteq H
<1> SUFFICES ASSUME ~ (m .. n \subseteq H) PROVE FALSE
  OBVIOUS
<1> DEFINE missing == {k \in m .. n : k \notin H}
<1>1. missing \subseteq Nat /\ missing # {}
  OBVIOUS
<1>2. PICK k \in missing : \A j \in missing : k <= j
  BY <1>1, Least
<1>3. k \in m .. n /\ k \notin H /\ k # m
  BY <1>2
<1>4. k - 1 \in m .. n /\ k - 1 < n /\ (k - 1) + 1 = k /\ k - 1 \notin missing
  BY <1>2, <1>3
<1>5. k - 1 \in H
  BY <1>4
<1> QED
  BY <1>3, <1>4, <1>5

\* F is a step from a member of S and a number to a member of S, and there is a
\* function on m .. n that begins with a and takes that step.
Step(S, F) == F \in [S \X Nat -> S]
Iterates(S, F, a, m, n) ==
    \E f \in [m .. n -> S] :
        f[m] = a /\ \A i \in m .. n : i # m => f[i] = F[<<f[i - 1], i>>]

\* A function can be defined by recursion on an interval.
LEMMA Recursion ==
    ASSUME NEW S, NEW F, Step(S, F), NEW a \in S, NEW m \in Nat, NEW n \in Nat, m <= n
    PROVE  Iterates(S, F, a, m, n)
<1> USE DEF Step, Iterates
<1> DEFINE good(f, k) == f[m] = a /\ \A i \in m .. k : i # m => f[i] = F[<<f[i - 1], i>>]
           H == {k \in m .. n : \E f \in [m .. k -> S] : good(f, k)}
<1>1. m \in H
  <2>1. [i \in m .. m |-> a] \in [m .. m -> S] /\ good([i \in m .. m |-> a], m)
    OBVIOUS
  <2>2. m \in m .. n
    OBVIOUS
  <2> HIDE DEF good
  <2> QED
    BY <2>1, <2>2
<1>2. ASSUME NEW k \in m .. n, k \in H, k < n
      PROVE  k + 1 \in H
  <2>1. PICK f \in [m .. k -> S] : good(f, k)
    BY <1>2
  <2> DEFINE g == [i \in m .. k + 1 |-> IF i <= k THEN f[i] ELSE F[<<f[k], k + 1>>]]
  <2>2. F[<<f[k], k + 1>>] \in S
    BY <1>2
  <2>3. g \in [m .. k + 1 -> S]
    BY <1>2, <2>2
  <2>4. good(g, k + 1)
    <3>1. g[m] = a
      BY <1>2, <2>1
    <3>2. ASSUME NEW i \in m .. k + 1, i # m
          PROVE  g[i] = F[<<g[i - 1], i>>]
      <4>1. i - 1 \in m .. k /\ g[i - 1] = f[i - 1]
        BY <1>2, <3>2
      <4>2. CASE i <= k
        BY <2>1, <4>1, <4>2
      <4>3. CASE i = k + 1
        <5>1. g[i] = F[<<f[k], k + 1>>] /\ g[i - 1] = f[k]
          BY <1>2, <4>1, <4>3
        <5> HIDE DEF g
        <5> QED
          BY <4>3, <5>1
      <4> QED
        BY <4>2, <4>3
    <3> QED
      BY <3>1, <3>2
  <2>5. k + 1 \in m .. n
    BY <1>2
  <2> QED
    BY <2>3, <2>4, <2>5
<1>3. n \in H
  <2> HIDE DEF H
  <2>1. \A k \in m .. n : k \in H /\ k < n => k + 1 \in H
    BY <1>2
  <2>2. m .. n \subseteq H
    BY <1>1, <2>1, Climbs
  <2> QED
    BY <2>2
<1> QED
  BY <1>3

-----------------------------------------------------------------------------
(* What the calls of a turn do to the files.                               *)

Worlds == [disk : [Paths -> Nat], version : Nat, ops : Nat, unseen : SUBSET Paths, results : Seq(Body)]

\* No file has a version that was not given out yet.
Dated(w) == \A p \in Paths : w.disk[p] <= w.version

\* The calls that are run.
Runnable == {c \in Attempts : c.tool # "ask"}

\* b is the body of a result of call c, and shows what is in v.
Fits(c, v, b) ==
    /\ b.kind \in {"shown", "result"}
    /\ b.kind = "shown" => c.tool = "read" /\ b.version = v.disk[c.path]

\* From w to v a result was added to those there were, and nothing but call c,
\* or something unseen, changed a file.  What the result shows is there.
Follows(w, c, v) ==
    /\ v \in Worlds /\ Dated(v)
    /\ v.ops = w.ops /\ w.version <= v.version /\ w.unseen \subseteq v.unseen
    /\ \A p \in Paths : v.disk[p] # w.disk[p] => p \in v.unseen \/ (c.tool \in Mutates /\ c.path = p)
    /\ \E b \in Body : v.results = Append(w.results, b) /\ Fits(c, v, b)

LEMMA WorldIs ==
    ASSUME NEW w \in Worlds
    PROVE  /\ w.disk \in [Paths -> Nat] /\ w.version \in Nat /\ w.unseen \in SUBSET Paths
           /\ w.results \in Seq(Body)
BY DEF Worlds

\* A record with one field changed.
LEMMA WithUnseen ==
    ASSUME NEW d, NEW v, NEW o, NEW u, NEW r, NEW x
    PROVE  [[disk |-> d, version |-> v, ops |-> o, unseen |-> u, results |-> r] EXCEPT !.unseen = x]
               = [disk |-> d, version |-> v, ops |-> o, unseen |-> x, results |-> r]
OBVIOUS

LEMMA WithOps ==
    ASSUME NEW d, NEW v, NEW o, NEW u, NEW r, NEW x
    PROVE  [[disk |-> d, version |-> v, ops |-> o, unseen |-> u, results |-> r] EXCEPT !.ops = x]
               = [disk |-> d, version |-> v, ops |-> x, unseen |-> u, results |-> r]
OBVIOUS

LEMMA WithDisk ==
    ASSUME NEW w \in Worlds, NEW x
    PROVE  [w EXCEPT !.disk = x] = [disk |-> x, version |-> w.version, ops |-> w.ops, unseen |-> w.unseen,
                                    results |-> w.results]
BY DEF Worlds

LEMMA WithResults ==
    ASSUME NEW w \in Worlds, NEW x
    PROVE  [w EXCEPT !.results = x] = [disk |-> w.disk, version |-> w.version, ops |-> w.ops, unseen |-> w.unseen,
                                       results |-> x]
BY DEF Worlds

LEMMA ResultIs ==
    ASSUME NEW w \in Worlds, NEW b
    PROVE  Result(w, b) = [disk |-> w.disk, version |-> w.version, ops |-> w.ops, unseen |-> w.unseen,
                           results |-> Append(w.results, b)]
<1>1. Result(w, b) = [w EXCEPT !.results = Append(w.results, b)]
  BY Zenon DEF Result
<1> QED
  BY <1>1, WithResults, Zenon

LEMMA NewVersionIs ==
    ASSUME NEW w \in Worlds, NEW q
    PROVE  NewVersion(w, q) = [disk |-> [w.disk EXCEPT ![q] = w.version + 1], version |-> w.version + 1,
                               ops |-> w.ops, unseen |-> w.unseen, results |-> w.results]
<1> DEFINE d == [w.disk EXCEPT ![q] = w.version + 1]
           u == [w EXCEPT !.disk = d]
<1>1. NewVersion(w, q) = [u EXCEPT !.version = w.version + 1]
  BY Zenon DEF NewVersion
<1> DEFINE old == [disk |-> d, version |-> w.version, ops |-> w.ops, unseen |-> w.unseen,
                   results |-> w.results]
           new(x) == [disk |-> d, version |-> x, ops |-> w.ops, unseen |-> w.unseen, results |-> w.results]
<1>2. u = old
  BY WithDisk, Zenon
<1> HIDE DEF d
<1>3. ASSUME NEW x PROVE [old EXCEPT !.version = x] = new(x)
  OBVIOUS
<1> HIDE DEF u, old, new
<1>4. NewVersion(w, q) = new(w.version + 1)
  BY <1>1, <1>2, <1>3, Zenon
<1> QED
  BY <1>4 DEF new, d

LEMMA GoneIs ==
    ASSUME NEW w \in Worlds, NEW q
    PROVE  [w EXCEPT !.disk[q] = Absent] =
               [disk |-> [w.disk EXCEPT ![q] = 0], version |-> w.version,
                ops |-> w.ops, unseen |-> w.unseen, results |-> w.results]
<1>1. [w EXCEPT !.disk[q] = Absent] = [w EXCEPT !.disk = [w.disk EXCEPT ![q] = 0]]
  BY Zenon DEF Absent
<1> QED
  BY <1>1, WithDisk, Zenon

LEMMA PlainIsBody == \A kind \in Kinds : Plain(kind) \in Body /\ Plain(kind).kind = kind
BY DEF Plain, Body

\* A result added to w, when the files of w follow those of u.
LEMMA ResultFollows ==
    ASSUME NEW u \in Worlds, NEW c, NEW w \in Worlds, Dated(w),
           w.results = u.results, w.ops = u.ops, u.version <= w.version, u.unseen \subseteq w.unseen,
           \A p \in Paths : w.disk[p] # u.disk[p] => p \in w.unseen \/ (c.tool \in Mutates /\ c.path = p),
           NEW b \in Body, Fits(c, w, b)
    PROVE  Follows(u, c, Result(w, b))
<1> DEFINE v == Result(w, b)
<1>1. v = [disk |-> w.disk, version |-> w.version, ops |-> w.ops, unseen |-> w.unseen,
           results |-> Append(w.results, b)]
  BY ResultIs
<1>2. Append(w.results, b) \in Seq(Body)
  BY DEF Worlds
<1>3. v \in Worlds /\ Dated(v)
  BY <1>1, <1>2 DEF Worlds, Dated
<1>4. v.results = Append(u.results, b) /\ Fits(c, v, b)
  BY <1>1 DEF Fits
<1>5. v.disk = w.disk /\ v.version = w.version /\ v.ops = w.ops /\ v.unseen = w.unseen
  BY <1>1
<1> HIDE DEF v
<1>6. Follows(u, c, v)
  BY <1>3, <1>4, <1>5 DEF Follows
<1> QED
  BY <1>6 DEF v

\* A new version of a file.
LEMMA NewVersionFacts ==
    ASSUME NEW w \in Worlds, Dated(w), NEW q \in Paths
    PROVE  LET v == NewVersion(w, q) IN
           /\ v = [disk |-> [w.disk EXCEPT ![q] = w.version + 1], version |-> w.version + 1,
                   ops |-> w.ops, unseen |-> w.unseen, results |-> w.results]
           /\ v \in Worlds /\ Dated(v)
           /\ \A p \in Paths : p # q => v.disk[p] = w.disk[p]
<1> DEFINE v == NewVersion(w, q)
<1>1. v = [disk |-> [w.disk EXCEPT ![q] = w.version + 1], version |-> w.version + 1,
           ops |-> w.ops, unseen |-> w.unseen, results |-> w.results]
  BY NewVersionIs
<1>2. v \in Worlds /\ Dated(v)
  BY <1>1 DEF Worlds, Dated
<1>3. \A p \in Paths : p # q => v.disk[p] = w.disk[p]
  BY <1>1 DEF Worlds
<1> QED
  BY <1>1, <1>2, <1>3

LEMMA DeletedFollows ==
    ASSUME NEW w \in Worlds, Dated(w), NEW c \in Runnable, c.tool \in Mutates
    PROVE  Follows(w, c, Deleted(w, c))
<1> DEFINE v == [w EXCEPT !.disk[c.path] = Absent]
<1>1. c.path \in Paths
  BY DEF Runnable, Attempts
<1>2. v = [disk |-> [w.disk EXCEPT ![c.path] = 0], version |-> w.version,
           ops |-> w.ops, unseen |-> w.unseen, results |-> w.results]
  BY GoneIs, Zenon
<1> HIDE DEF v
<1>3. v \in Worlds /\ Dated(v)
  <2>1. [w.disk EXCEPT ![c.path] = 0] \in [Paths -> Nat] /\ w.ops \in Nat
    BY WorldIs DEF Worlds
  <2>2. \A p \in Paths : v.disk[p] <= v.version
    BY <1>1, <1>2, WorldIs DEF Dated
  <2> QED
    BY <1>2, <2>1, <2>2, WorldIs DEF Worlds, Dated
<1>4. \A p \in Paths : v.disk[p] # w.disk[p] => c.path = p
  BY <1>2 DEF Worlds
<1>5. Plain("result") \in Body /\ \A u : Fits(c, u, Plain("result"))
  BY PlainIsBody DEF Kinds, Fits
<1>6. v.results = w.results /\ v.ops = w.ops /\ w.version <= v.version /\ w.unseen \subseteq v.unseen
  BY <1>2 DEF Worlds
<1>7. Follows(w, c, Result(v, Plain("result")))
  BY <1>3, <1>4, <1>5, <1>6, ResultFollows
<1> QED
  BY <1>7 DEF Deleted, v

\* Every call that is run, whatever comes of it.
LEMMA DoesFollows ==
    ASSUME NEW w \in Worlds, Dated(w), NEW c \in Runnable
    PROVE  Follows(w, c, Does(w, c))
<1>1. Plain("result") \in Body /\ \A u : Fits(c, u, Plain("result"))
  BY PlainIsBody DEF Kinds, Fits
<1>2. Follows(w, c, Result(w, Plain("result")))
  <2>1. w.version <= w.version
    BY DEF Worlds
  <2> QED
    BY <1>1, <2>1, ResultFollows
<1>3. CASE c.tool = "read"
  <2> DEFINE b == [kind |-> "shown", version |-> w.disk[c.path]]
  <2>1. c.path \in Paths
    BY <1>3 DEF Runnable, Attempts
  <2>2. b \in Body /\ Fits(c, w, b)
    BY <1>3, <2>1 DEF Body, Kinds, Worlds, Fits
  <2>3. w.version <= w.version
    BY DEF Worlds
  <2>4. Follows(w, c, Result(w, b))
    <3> HIDE DEF b
    <3> QED
      BY <1>3, <2>2, <2>3, ResultFollows
  <2>5. Does(w, c) \in {Result(w, b), Result(w, Plain("result"))}
    BY <1>3 DEF Does, Reads
  <2> QED
    BY <1>2, <2>4, <2>5
<1>4. CASE c.tool = "write"
  <2>0. c.tool \in Mutates
    BY <1>4 DEF Mutates
  <2>1. Does(w, c) = Writes(w, c)
    BY <1>4 DEF Does
  <2>2. CASE c.out = "ok"
    <3> DEFINE n == NewVersion(w, c.to)
               v == [n EXCEPT !.unseen = @ \union ({c.to} \ {c.path})]
    <3>1. c.path \in Paths /\ c.to \in Paths
      BY <1>4, <2>2 DEF Runnable, Attempts
    <3>2. /\ n = [disk |-> [w.disk EXCEPT ![c.to] = w.version + 1], version |-> w.version + 1,
                  ops |-> w.ops, unseen |-> w.unseen, results |-> w.results]
          /\ n \in Worlds /\ Dated(n)
          /\ \A p \in Paths : p # c.to => n.disk[p] = w.disk[p]
      BY <3>1, NewVersionFacts
    <3>3. v = [disk |-> n.disk, version |-> w.version + 1, ops |-> w.ops,
               unseen |-> w.unseen \union ({c.to} \ {c.path}), results |-> w.results]
      <4>1. n.unseen = w.unseen /\ n.disk = [w.disk EXCEPT ![c.to] = w.version + 1]
        BY <3>2
      <4>2. v = [n EXCEPT !.unseen = n.unseen \union ({c.to} \ {c.path})]
        BY Zenon
      <4>3. v = [n EXCEPT !.unseen = w.unseen \union ({c.to} \ {c.path})]
        BY <4>1, <4>2, Zenon
      <4> HIDE DEF n, v
      <4> QED
        BY <3>2, <4>1, <4>3, WithUnseen, Zenon
    <3> HIDE DEF n
    <3>4. v \in Worlds /\ Dated(v)
      BY <3>1, <3>2, <3>3 DEF Worlds, Dated
    <3>5. \A p \in Paths : v.disk[p] # w.disk[p] => p \in v.unseen \/ c.path = p
      BY <3>2, <3>3
    <3>6. v.results = w.results /\ v.ops = w.ops /\ w.version <= v.version /\ w.unseen \subseteq v.unseen
      BY <3>3 DEF Worlds
    <3> HIDE DEF v
    <3>7. Follows(w, c, Result(v, Plain("result")))
      BY <1>1, <2>0, <3>4, <3>5, <3>6, ResultFollows
    <3> QED
      BY <2>1, <2>2, <3>7 DEF Writes, v, n
  <2>3. CASE c.out = "undone"
    BY <2>0, <2>1, <2>3, DeletedFollows DEF Writes
  <2>4. CASE c.out # "ok" /\ c.out # "undone"
    BY <1>2, <2>1, <2>4 DEF Writes
  <2> QED
    BY <2>2, <2>3, <2>4
<1>5. CASE c.tool = "delete"
  <2>1. c.tool \in Mutates /\ Does(w, c) = Deletes(w, c)
    BY <1>5 DEF Does, Mutates
  <2> QED
    BY <1>2, <2>1, DeletedFollows DEF Deletes
<1>6. c.tool \in {"read", "write", "delete"}
  BY DEF Runnable, Attempts
<1> QED
  BY <1>3, <1>4, <1>5, <1>6

\* The worlds that occur.
Dateds == {w \in Worlds : Dated(w)}

\* Ran is what one call after another makes of the start.
LEMMA RanUnfolds ==
    ASSUME NEW start \in Dateds, NEW cs \in Seq(Runnable)
    PROVE  \E after \in [0 .. Len(cs) -> Dateds] :
              /\ after[0] = start
              /\ \A k \in 1 .. Len(cs) : after[k] = Does(after[k - 1], cs[k])
              /\ Ran(start, cs) = after[Len(cs)]
<1> DEFINE n == Len(cs)
           body(f) == [k \in 0 .. n |-> IF k = 0 THEN start ELSE Does(f[k - 1], cs[k])]
           F == [x \in Dateds \X Nat |-> IF x[2] \in 1 .. n THEN Does(x[1], cs[x[2]]) ELSE x[1]]
<1>1. Step(Dateds, F)
  <2>1. ASSUME NEW x \in Dateds \X Nat PROVE F[x] \in Dateds
    <3>1. ASSUME NEW w \in Dateds, NEW k \in 1 .. n PROVE Does(w, cs[k]) \in Dateds
      <4>1. w \in Worlds /\ Dated(w) /\ cs[k] \in Runnable
        BY DEF Dateds
      <4>2. Follows(w, cs[k], Does(w, cs[k]))
        BY <4>1, DoesFollows
      <4> QED
        BY <4>2 DEF Follows, Dateds
    <3> QED
      BY <3>1
  <2> QED
    BY <2>1 DEF Step
<1>2. PICK f \in [0 .. n -> Dateds] : f[0] = start /\ \A i \in 0 .. n : i # 0 => f[i] = F[<<f[i - 1], i>>]
  <2>1. n \in Nat /\ 0 \in Nat /\ 0 <= n
    OBVIOUS
  <2> HIDE DEF n, F
  <2>2. Iterates(Dateds, F, start, 0, n)
    BY <1>1, <2>1, Recursion
  <2> QED
    BY <2>2 DEF Iterates
<1>3. ASSUME NEW i \in 1 .. n
      PROVE  f[i] = Does(f[i - 1], cs[i])
  <2>1. f[i - 1] \in Dateds /\ i \in Nat /\ i \in 0 .. n /\ i # 0
    BY <1>2
  <2>2. f[i] = F[<<f[i - 1], i>>]
    BY <1>2, <2>1
  <2> QED
    BY <2>1, <2>2
<1>4. f = body(f)
  <2>1. \A k \in 0 .. n : f[k] = body(f)[k]
    BY <1>2, <1>3
  <2> QED
    BY <1>2, <2>1
<1> DEFINE g == CHOOSE h : h = body(h)
<1>5. g = body(g)
  <2> HIDE DEF body
  <2> QED
    BY <1>4
<1>6. g = f
  <2> DEFINE H == {k \in 0 .. n : g[k] = f[k]}
  <2> HIDE DEF g
  <2>1. \A k \in 0 .. n : g[k] = IF k = 0 THEN start ELSE Does(g[k - 1], cs[k])
    BY <1>5
  <2>2. 0 \in H
    BY <1>2, <2>1
  <2>3. ASSUME NEW k \in 0 .. n, k \in H, k < n PROVE k + 1 \in H
    BY <1>3, <2>1, <2>3
  <2>4. 0 .. n \subseteq H
    <3>1. 0 \in Nat /\ n \in Nat /\ 0 <= n
      OBVIOUS
    <3> HIDE DEF H, n
    <3> QED
      BY <2>2, <2>3, <3>1, Climbs
  <2>5. \A k \in 0 .. n : g[k] = f[k]
    BY <2>4
  <2>6. g = [k \in 0 .. n |-> g[k]]
    BY <1>5
  <2> QED
    BY <1>2, <2>5, <2>6
<1>7. Ran(start, cs) = g[n]
  BY DEF Ran
<1> QED
  BY <1>2, <1>3, <1>6, <1>7

\* One of the first k calls may have changed p.
Changed(cs, k, p) == \E l \in 1 .. k : cs[l].tool \in Mutates /\ cs[l].path = p

\* What k calls have made of the start: a result for each, and no file is other
\* than it was, or than it was shown, unless something unseen or one of the
\* calls changed it.
Done(start, cs, k, v) ==
    /\ v \in Dateds
    /\ v.ops = start.ops /\ start.version <= v.version /\ start.unseen \subseteq v.unseen
    /\ Len(v.results) = k
    /\ \A p \in Paths : v.disk[p] # start.disk[p] => p \in v.unseen \/ Changed(cs, k, p)
    /\ \A l \in 1 .. k :
          /\ v.results[l].kind \in {"shown", "result"}
          /\ v.results[l].kind = "shown" =>
                /\ cs[l].tool = "read" /\ cs[l].path \in Paths
                /\ v.results[l].version # v.disk[cs[l].path] =>
                      cs[l].path \in v.unseen \/ Changed(cs, k, cs[l].path)

LEMMA DoneStep ==
    ASSUME NEW start \in Dateds, NEW cs \in Seq(Runnable), NEW k \in Nat, k + 1 \in 1 .. Len(cs),
           NEW v, Done(start, cs, k, v), NEW w, Follows(v, cs[k + 1], w)
    PROVE  Done(start, cs, k + 1, w)
<1> DEFINE c == cs[k + 1]
<1>1. c \in Runnable
  OBVIOUS
<1>2. PICK b \in Body : w.results = Append(v.results, b) /\ Fits(c, w, b)
  BY DEF Follows
<1>3. /\ v \in Worlds /\ w \in Worlds /\ w \in Dateds
      /\ w.ops = v.ops /\ v.version <= w.version /\ v.unseen \subseteq w.unseen
      /\ \A p \in Paths : w.disk[p] # v.disk[p] => p \in w.unseen \/ (c.tool \in Mutates /\ c.path = p)
  BY DEF Follows, Done, Dateds
<1>4. /\ v.results \in Seq(Body) /\ Len(v.results) = k
      /\ v.version \in Nat /\ w.version \in Nat /\ start.version \in Nat
  BY <1>3 DEF Done, Worlds, Dateds
<1>5. /\ Len(w.results) = k + 1
      /\ w.results[k + 1] = b
      /\ \A l \in 1 .. k : w.results[l] = v.results[l]
  <2> DEFINE r == v.results
  <2>1. r \in Seq(Body) /\ Len(r) = k /\ w.results = Append(r, b)
    BY <1>2, <1>4, Zenon
  <2> HIDE DEF r
  <2>2. /\ Len(Append(r, b)) = k + 1
        /\ Append(r, b)[k + 1] = b
        /\ \A l \in 1 .. k : Append(r, b)[l] = r[l]
    BY <2>1
  <2> QED
    BY <2>1, <2>2 DEF r
<1>6. \A p : Changed(cs, k, p) => Changed(cs, k + 1, p)
  BY DEF Changed
<1>7. c.tool \in Mutates => Changed(cs, k + 1, c.path)
  BY DEF Changed
<1>8. \A p \in Paths : w.disk[p] # v.disk[p] => p \in w.unseen \/ Changed(cs, k + 1, p)
  BY <1>3, <1>7
<1>9. \A p \in Paths : w.disk[p] # start.disk[p] => p \in w.unseen \/ Changed(cs, k + 1, p)
  BY <1>3, <1>6, <1>8 DEF Done
<1>10. ASSUME NEW l \in 1 .. k + 1
       PROVE  /\ w.results[l].kind \in {"shown", "result"}
              /\ w.results[l].kind = "shown" =>
                    /\ cs[l].tool = "read" /\ cs[l].path \in Paths
                    /\ w.results[l].version # w.disk[cs[l].path] =>
                          cs[l].path \in w.unseen \/ Changed(cs, k + 1, cs[l].path)
  <2>1. CASE l = k + 1
    <3>1. c.path \in Paths
      BY <1>1 DEF Runnable, Attempts
    <3>2. w.results[l] = b /\ cs[l] = c
      BY <1>5, <2>1
    <3>3. /\ b.kind \in {"shown", "result"}
          /\ b.kind = "shown" => c.tool = "read" /\ b.version = w.disk[c.path]
      BY <1>2 DEF Fits
    <3> HIDE DEF c
    <3> QED
      BY <3>1, <3>2, <3>3
  <2>2. CASE l \in 1 .. k
    BY <1>3, <1>5, <1>6, <1>8, <2>2 DEF Done
  <2> QED
    BY <2>1, <2>2
<1>11. w.ops = start.ops /\ start.version <= w.version /\ start.unseen \subseteq w.unseen
  BY <1>3, <1>4 DEF Done
<1> QED
  BY <1>3, <1>5, <1>9, <1>10, <1>11 DEF Done

LEMMA RanFacts ==
    ASSUME NEW start \in Dateds, start.results = <<>>, NEW cs \in Seq(Runnable)
    PROVE  Done(start, cs, Len(cs), Ran(start, cs))
<1>1. PICK after \in [0 .. Len(cs) -> Dateds] :
          /\ after[0] = start
          /\ \A k \in 1 .. Len(cs) : after[k] = Does(after[k - 1], cs[k])
          /\ Ran(start, cs) = after[Len(cs)]
  BY RanUnfolds
<1> DEFINE H == {k \in 0 .. Len(cs) : Done(start, cs, k, after[k])}
<1>2. 0 \in H
  <2>1. Done(start, cs, 0, start)
    <3>1. start.version <= start.version
      BY DEF Dateds, Worlds
    <3> QED
      <4>1. Len(start.results) = 0
        OBVIOUS
      <4> QED
        BY <3>1, <4>1 DEF Done
  <2> QED
    BY <1>1, <2>1
<1>3. ASSUME NEW k \in 0 .. Len(cs), k \in H, k < Len(cs)
      PROVE  k + 1 \in H
  <2>1. k + 1 \in 1 .. Len(cs) /\ (k + 1) - 1 = k /\ k \in Nat
    BY <1>3
  <2>2. after[k] \in Worlds /\ Dated(after[k]) /\ cs[k + 1] \in Runnable
    BY <2>1 DEF Dateds
  <2>3. after[k + 1] = Does(after[k], cs[k + 1])
    BY <1>1, <2>1
  <2>4. Follows(after[k], cs[k + 1], after[k + 1])
    BY <2>2, <2>3, DoesFollows
  <2>5. Done(start, cs, k + 1, after[k + 1])
    BY <1>3, <2>1, <2>4, DoneStep
  <2> QED
    BY <2>1, <2>5
<1>4. Len(cs) \in H
  <2>1. 0 \in Nat /\ Len(cs) \in Nat /\ Len(cs) \in 0 .. Len(cs)
    OBVIOUS
  <2> HIDE DEF H
  <2>2. 0 .. Len(cs) \subseteq H
    BY <1>2, <1>3, <2>1, Climbs
  <2> QED
    BY <2>1, <2>2
<1> QED
  BY <1>1, <1>4

-----------------------------------------------------------------------------
(* The shape of the stack.                                                 *)

LEMMA MessageIs ==
    ASSUME NEW m \in Message
    PROVE  /\ m.role \in {"user", "assistant", "tool"}
           /\ m.role = "user" => m.body \in Body
           /\ m.role = "assistant" => m.calls \in Seq(Call)
           /\ m.role = "tool" => m.id \in Nat \X Nat /\ m.body \in Body
BY DEF Message

\* The agent's view of what the result at i is of.
Asked(ms, i) == ms[ms[i].id[1]].calls[ms[i].id[2]]

Evicted == {"superseded", "invalidated"}

\* Every result answers a call of the last message of the agent before it, and
\* there are only results in between.
Answering(ms) ==
    \A i \in Positions(ms, "tool") :
        LET a == ms[i].id[1] IN
        /\ a \in 1 .. i - 1 /\ ms[a].role = "assistant"
        /\ ms[i].id[2] \in Answerable(ms[a].calls)
        /\ \A j \in a + 1 .. i : ms[j].role = "tool"

\* No call has two results.
Once(ms) == \A i, j \in Positions(ms, "tool") : ms[i].id = ms[j].id => i = j

\* The calls of a message have results, all that are answerable, or none and a
\* word of the user.
Batches(ms) ==
    \A a \in Positions(ms, "assistant") : ms[a].calls # <<>> =>
        /\ a + 1 \in DOMAIN ms /\ ms[a + 1].role \in {"tool", "user"}
        /\ ms[a + 1].role = "tool" =>
              \A k \in Answerable(ms[a].calls) :
                  \E i \in Positions(ms, "tool") : ms[i].id[1] = a /\ ms[i].id[2] = k

\* Only a read shows a file, or is evicted.
ReadsOnly(ms) ==
    \A i \in Positions(ms, "tool") : ms[i].body.kind \in Evicted \union {"shown"} =>
        Asked(ms, i).tool = "read" /\ Asked(ms, i).path \in Paths

Shape(ms) == Answering(ms) /\ Once(ms) /\ Batches(ms) /\ ReadsOnly(ms)

Extends(ms, ns) ==
    /\ ms \in Seq(Message) /\ ns \in Seq(Message)
    /\ Len(ms) <= Len(ns)
    /\ \A i \in 1 .. Len(ms) : ns[i] = ms[i]

\* The result at i is of a call of the message at a.
IsResult(ns, a, i) ==
    /\ ns[i].id[1] = a /\ ns[i].id[2] \in Answerable(ns[a].calls)
    /\ ns[i].body.kind \in {"shown", "result"}
    /\ ns[i].body.kind = "shown" => Asked(ns, i).tool = "read" /\ Asked(ns, i).path \in Paths

\* ns is ms and a turn: a message of the agent at most, the first, n results
\* behind it, and words of the user.
TurnAdded(ms, ns, n) ==
    LET a == Len(ms) + 1 IN
    /\ Extends(ms, ns)
    /\ \A i \in a .. Len(ns) : /\ ns[i].role = "tool" <=> i \in a + 1 .. a + n
                               /\ ns[i].role = "assistant" => i = a
                               /\ ns[i].role = "user" => ns[i].body.kind = "text"
    /\ n \in Nat
    /\ n > 0 => a + n <= Len(ns) /\ ns[a].role = "assistant"
    /\ \A i \in a + 1 .. a + n : IsResult(ns, a, i)
    /\ \A i, j \in a + 1 .. a + n : ns[i].id[2] = ns[j].id[2] => i = j
    /\ n > 0 => \A k \in Answerable(ns[a].calls) : \E i \in a + 1 .. a + n : ns[i].id[2] = k
    /\ a \in 1 .. Len(ns) /\ ns[a].role = "assistant" /\ ns[a].calls # <<>> => a < Len(ns)

LEMMA TurnShape ==
    ASSUME NEW ms, NEW ns, NEW n, TurnAdded(ms, ns, n), Shape(ms)
    PROVE  Shape(ns)
<1> DEFINE l == Len(ms)
           a == l + 1
<1>1. /\ ms \in Seq(Message) /\ ns \in Seq(Message) /\ l \in Nat /\ n \in Nat /\ Len(ns) \in Nat
      /\ DOMAIN ms = 1 .. l /\ DOMAIN ns = 1 .. Len(ns) /\ l <= Len(ns)
      /\ \A i \in 1 .. l : ns[i] = ms[i]
  BY DEF TurnAdded, Extends
<1>2. \A i \in a .. Len(ns) : (ns[i].role = "tool" <=> i \in a + 1 .. a + n) /\ (ns[i].role = "assistant" => i = a)
  BY DEF TurnAdded
<1>3. /\ n > 0 => a + n <= Len(ns) /\ ns[a].role = "assistant"
      /\ \A i \in a + 1 .. a + n : IsResult(ns, a, i)
      /\ \A i, j \in a + 1 .. a + n : ns[i].id[2] = ns[j].id[2] => i = j
      /\ n > 0 => \A k \in Answerable(ns[a].calls) : \E i \in a + 1 .. a + n : ns[i].id[2] = k
      /\ a \in 1 .. Len(ns) /\ ns[a].role = "assistant" /\ ns[a].calls # <<>> => a < Len(ns)
  BY DEF TurnAdded
<1> HIDE DEF l, a
<1>4. a = l + 1
  BY DEF a
<1>5. ASSUME NEW i \in Positions(ns, "tool")
      PROVE  i \in Positions(ms, "tool") \/ i \in a + 1 .. a + n
  BY <1>1, <1>2, <1>4 DEF Positions
<1>6. ASSUME NEW i \in Positions(ms, "tool")
      PROVE  /\ i \in 1 .. l /\ ns[i] = ms[i] /\ ns[i].id[1] \in 1 .. i - 1
             /\ ns[ns[i].id[1]] = ms[ms[i].id[1]]
             /\ i \in Positions(ns, "tool")
  BY <1>1 DEF Positions, Shape, Answering
<1>7. ASSUME NEW i \in a + 1 .. a + n
      PROVE  /\ ns[a].role = "assistant" /\ a + n <= Len(ns)
             /\ IsResult(ns, a, i) /\ i \in Positions(ns, "tool")
             /\ \A j \in a + 1 .. i : ns[j].role = "tool"
  <2>1. n > 0 /\ a + n <= Len(ns) /\ i \in a .. Len(ns) /\ i \in 1 .. Len(ns) /\ a \in Nat
    BY <1>1, <1>3, <1>4
  <2>2. \A j \in a + 1 .. i : j \in a .. Len(ns) /\ j \in a + 1 .. a + n
    BY <1>1, <2>1
  <2> QED
    BY <1>1, <1>2, <1>3, <2>1, <2>2 DEF Positions
<1>8. Answering(ns)
  <2> SUFFICES ASSUME NEW i \in Positions(ns, "tool")
               PROVE  /\ ns[i].id[1] \in 1 .. i - 1 /\ ns[ns[i].id[1]].role = "assistant"
                      /\ ns[i].id[2] \in Answerable(ns[ns[i].id[1]].calls)
                      /\ \A j \in ns[i].id[1] + 1 .. i : ns[j].role = "tool"
    BY DEF Answering
  <2>1. CASE i \in Positions(ms, "tool")
    <3>1. /\ ms[i].id[1] \in 1 .. i - 1 /\ ms[ms[i].id[1]].role = "assistant"
          /\ ms[i].id[2] \in Answerable(ms[ms[i].id[1]].calls)
          /\ \A j \in ms[i].id[1] + 1 .. i : ms[j].role = "tool"
      BY <2>1 DEF Shape, Answering
    <3>2. \A j \in ms[i].id[1] + 1 .. i : ns[j] = ms[j]
      BY <1>1, <1>6, <2>1, <3>1
    <3> QED
      BY <1>6, <2>1, <3>1, <3>2
  <2>2. CASE i \in a + 1 .. a + n
    <3>1. a \in 1 .. i - 1
      BY <1>1, <1>4, <2>2
    <3> QED
      BY <1>7, <2>2, <3>1 DEF IsResult
  <2> QED
    BY <1>5, <2>1, <2>2
<1>9. Once(ns)
  <2> SUFFICES ASSUME NEW i \in Positions(ns, "tool"), NEW j \in Positions(ns, "tool"), ns[i].id = ns[j].id
               PROVE  i = j
    BY DEF Once
  <2>1. CASE i \in Positions(ms, "tool") /\ j \in Positions(ms, "tool")
    BY <1>6, <2>1 DEF Shape, Once
  <2>2. CASE i \in a + 1 .. a + n /\ j \in a + 1 .. a + n
    BY <1>3, <2>2
  <2>3. ASSUME NEW x \in Positions(ms, "tool"), NEW y \in a + 1 .. a + n
        PROVE  ns[x].id # ns[y].id
    <3>1. ns[x].id[1] < a
      BY <1>1, <1>4, <1>6
    <3>2. ns[y].id[1] = a
      BY <1>7 DEF IsResult
    <3> QED
      BY <1>1, <1>4, <3>1, <3>2
  <2> QED
    BY <1>5, <2>1, <2>2, <2>3
<1>10. Batches(ns)
  <2> SUFFICES ASSUME NEW b \in Positions(ns, "assistant"), ns[b].calls # <<>>
               PROVE  /\ b + 1 \in DOMAIN ns /\ ns[b + 1].role \in {"tool", "user"}
                      /\ ns[b + 1].role = "tool" =>
                           \A k \in Answerable(ns[b].calls) :
                               \E i \in Positions(ns, "tool") : ns[i].id[1] = b /\ ns[i].id[2] = k
    BY DEF Batches
  <2>1. CASE b \in 1 .. l
    <3>1. b \in Positions(ms, "assistant") /\ ms[b].calls # <<>> /\ ns[b] = ms[b]
      BY <1>1, <2>1 DEF Positions
    <3>2. /\ b + 1 \in DOMAIN ms /\ ms[b + 1].role \in {"tool", "user"}
          /\ ms[b + 1].role = "tool" =>
                \A k \in Answerable(ms[b].calls) :
                    \E i \in Positions(ms, "tool") : ms[i].id[1] = b /\ ms[i].id[2] = k
      BY <3>1 DEF Shape, Batches
    <3>3. b + 1 \in 1 .. l /\ ns[b + 1] = ms[b + 1] /\ b + 1 \in DOMAIN ns
      BY <1>1, <3>2
    <3> QED
      BY <1>6, <3>1, <3>2, <3>3
  <2>2. CASE b \notin 1 .. l
    <3>1. b = a /\ a \in 1 .. Len(ns) /\ ns[a].role = "assistant"
      BY <1>1, <1>2, <1>4, <2>2 DEF Positions
    <3>2. b < Len(ns)
      BY <1>3, <3>1
    <3>3. b + 1 \in DOMAIN ns /\ b + 1 \in a .. Len(ns) /\ b + 1 # a
      BY <1>1, <1>4, <3>1, <3>2
    <3>4. ns[b + 1].role # "assistant" /\ ns[b + 1] \in Message
      BY <1>1, <1>2, <3>3
    <3>5. ns[b + 1].role = "tool" => n > 0
      BY <1>1, <1>2, <1>4, <3>1, <3>3
    <3>6. ASSUME n > 0, NEW k \in Answerable(ns[b].calls)
          PROVE  \E i \in Positions(ns, "tool") : ns[i].id[1] = b /\ ns[i].id[2] = k
      <4>1. PICK i \in a + 1 .. a + n : ns[i].id[2] = k
        BY <1>3, <3>1, <3>6
      <4> QED
        BY <1>7, <3>1, <4>1 DEF IsResult
    <3> QED
      BY <3>3, <3>4, <3>5, <3>6, MessageIs
  <2> QED
    BY <2>1, <2>2
<1>11. ReadsOnly(ns)
  <2> SUFFICES ASSUME NEW i \in Positions(ns, "tool"), ns[i].body.kind \in Evicted \union {"shown"}
               PROVE  Asked(ns, i).tool = "read" /\ Asked(ns, i).path \in Paths
    BY DEF ReadsOnly
  <2>1. CASE i \in Positions(ms, "tool")
    <3>1. Asked(ns, i) = Asked(ms, i) /\ ms[i].body.kind \in Evicted \union {"shown"}
      BY <1>6, <2>1 DEF Asked
    <3> QED
      BY <2>1, <3>1 DEF Shape, ReadsOnly
  <2>2. CASE i \in a + 1 .. a + n
    BY <1>7, <2>2 DEF IsResult, Evicted
  <2> QED
    BY <1>5, <2>1, <2>2
<1> QED
  BY <1>8, <1>9, <1>10, <1>11 DEF Shape

-----------------------------------------------------------------------------
(* Answers.                                                                *)

LEMMA MinIs ==
    ASSUME NEW S, S \subseteq Nat, S # {}
    PROVE  Min(S) \in S /\ \A m \in S : Min(S) <= m
<1>1. \E n \in S : \A m \in S : n <= m
  BY Least
<1> QED
  BY <1>1, Zenon DEF Min

\* The calls that are run, and those that get a result.
LEMMA BeforeAskIs ==
    ASSUME NEW cs \in Seq(Attempts)
    PROVE  /\ BeforeAsk(cs) \in Seq(Runnable) /\ Len(BeforeAsk(cs)) <= Len(cs)
           /\ \A k \in 1 .. Len(BeforeAsk(cs)) : BeforeAsk(cs)[k] = cs[k]
           /\ Suspends(cs) => /\ Len(BeforeAsk(cs)) + 1 <= Len(cs)
                              /\ Answerable(cs) = 1 .. Len(BeforeAsk(cs)) + 1
           /\ ~Suspends(cs) => /\ Len(BeforeAsk(cs)) = Len(cs)
                               /\ Answerable(cs) = 1 .. Len(BeforeAsk(cs))
<1> DEFINE asks == {k \in DOMAIN cs : cs[k].tool = "ask"}
<1>1. DOMAIN cs = 1 .. Len(cs) /\ Len(cs) \in Nat /\ (Suspends(cs) <=> asks # {})
  BY DEF Suspends
<1>2. CASE asks = {}
  <2>1. BeforeAsk(cs) = cs /\ Answerable(cs) = 1 .. Len(cs)
    BY <1>2 DEF BeforeAsk, Answerable
  <2>2. \A k \in 1 .. Len(cs) : cs[k] \in Runnable
    BY <1>1, <1>2 DEF Runnable
  <2>3. cs \in Seq(Runnable)
    BY <1>1, <2>2
  <2>4. ~Suspends(cs)
    BY <1>1, <1>2
  <2>5. /\ cs \in Seq(Runnable) /\ Len(cs) <= Len(cs)
        /\ \A k \in 1 .. Len(cs) : cs[k] = cs[k]
        /\ Len(cs) = Len(cs) /\ Answerable(cs) = 1 .. Len(cs)
    BY <1>1, <2>1, <2>3
  <2> QED
    BY <2>1, <2>4, <2>5, Zenon
<1>3. CASE asks # {}
  <2> DEFINE m == Min(asks)
             b == SubSeq(cs, 1, m - 1)
  <2>1. m \in asks /\ \A k \in asks : m <= k
    <3>1. asks \subseteq Nat
      BY <1>1
    <3> HIDE DEF asks
    <3> QED
      BY <1>3, <3>1, MinIs
  <2> HIDE DEF m
  <2>2. m \in 1 .. Len(cs) /\ \A k \in 1 .. m - 1 : k \in DOMAIN cs /\ k \notin asks
    BY <1>1, <2>1
  <2>3. BeforeAsk(cs) = b /\ Answerable(cs) = 1 .. m
    BY <1>3 DEF BeforeAsk, Answerable, m
  <2>4. Len(b) = m - 1 /\ (\A k \in 1 .. m - 1 : b[k] = cs[k]) /\ b \in Seq(Attempts)
    BY <1>1, <2>2
  <2>5. \A k \in 1 .. Len(b) : b[k] \in Runnable
    BY <2>2, <2>4 DEF Runnable
  <2> HIDE DEF b
  <2>6. b \in Seq(Runnable)
    BY <2>4, <2>5
  <2> QED
    BY <1>1, <1>3, <2>2, <2>3, <2>4, <2>6
<1> QED
  BY <1>2, <1>3

\* The message that makes the calls cs.
LEMMA AssistantIs ==
    ASSUME NEW cs \in Seq(Attempts)
    PROVE  /\ Assistant(cs) \in Message /\ Assistant(cs).role = "assistant"
           /\ DOMAIN Assistant(cs).calls = 1 .. Len(cs)
           /\ \A k \in 1 .. Len(cs) : /\ Assistant(cs).calls[k].tool = cs[k].tool
                                      /\ Assistant(cs).calls[k].path = cs[k].path
           /\ Assistant(cs).calls = <<>> <=> cs = <<>>
           /\ Answerable(Assistant(cs).calls) = Answerable(cs)
<1> DEFINE calls == [k \in DOMAIN cs |-> [tool |-> cs[k].tool, path |-> cs[k].path]]
<1>1. Assistant(cs).calls = calls /\ Assistant(cs).role = "assistant"
      /\ Assistant(cs) = [role |-> "assistant", calls |-> calls]
  BY DEF Assistant
<1>2. \A k \in DOMAIN cs : cs[k] \in Attempts
  OBVIOUS
<1>3. \A c \in Attempts : [tool |-> c.tool, path |-> c.path] \in Call
  BY DEF Attempts, Call, Tools
<1>4. calls \in Seq(Call) /\ Len(calls) = Len(cs) /\ DOMAIN calls = 1 .. Len(cs)
  BY <1>2, <1>3
<1>5. \A k \in 1 .. Len(cs) : calls[k].tool = cs[k].tool /\ calls[k].path = cs[k].path
  OBVIOUS
<1>6. Assistant(cs) \in Message
  BY <1>1, <1>4 DEF Message
<1>7. calls = <<>> <=> cs = <<>>
  BY <1>4
<1>8. Answerable(calls) = Answerable(cs)
  <2>1. {k \in DOMAIN calls : calls[k].tool = "ask"} = {k \in DOMAIN cs : cs[k].tool = "ask"}
    BY <1>4, <1>5
  <2> HIDE DEF calls
  <2> QED
    BY <1>4, <2>1, Zenon DEF Answerable
<1> HIDE DEF calls
<1> QED
  BY <1>1, <1>4, <1>5, <1>6, <1>7, <1>8

LEMMA ToolIs ==
    ASSUME NEW id \in Nat \X Nat, NEW body \in Body
    PROVE  /\ Tool(id, body) \in Message /\ Tool(id, body).role = "tool"
           /\ Tool(id, body).id = id /\ Tool(id, body).body = body
BY DEF Tool, Message

LEMMA UserIs == User \in Message /\ User.role = "user" /\ User.body.kind = "text"
BY DEF User, Message, Plain, Body, Kinds

\* The call that the j-th of n results is of.
Nth(cs, n, j) == IF ~Suspends(cs) THEN j ELSE IF j = 1 THEN n ELSE j - 1

LEMMA ResultsIs ==
    ASSUME NEW a \in Nat, NEW cs \in Seq(Attempts), NEW bodies \in Seq(Body),
           NEW n, Suspends(cs) => n = Len(bodies) + 1, ~Suspends(cs) => n = Len(bodies)
    PROVE  /\ Results(a, cs, bodies) \in Seq(Message) /\ Len(Results(a, cs, bodies)) = n
           /\ \A j \in 1 .. n :
                  /\ Results(a, cs, bodies)[j].role = "tool"
                  /\ Results(a, cs, bodies)[j].id = <<a, Nth(cs, n, j)>>
                  /\ Results(a, cs, bodies)[j].body = IF Suspends(cs) /\ j = 1 THEN Plain("result")
                                                      ELSE bodies[Nth(cs, n, j)]
<1> DEFINE l == Len(bodies)
           done == [k \in DOMAIN bodies |-> Tool(<<a, k>>, bodies[k])]
           answer == Tool(<<a, l + 1>>, Plain("result"))
<1>1. DOMAIN bodies = 1 .. l /\ l \in Nat /\ Plain("result") \in Body
  BY PlainIsBody DEF Kinds
<1>2. \A k \in 1 .. l : /\ done[k] \in Message /\ done[k].role = "tool"
                        /\ done[k].id = <<a, k>> /\ done[k].body = bodies[k]
  <2> SUFFICES ASSUME NEW k \in 1 .. l
               PROVE  /\ done[k] \in Message /\ done[k].role = "tool"
                      /\ done[k].id = <<a, k>> /\ done[k].body = bodies[k]
    OBVIOUS
  <2>1. <<a, k>> \in Nat \X Nat /\ bodies[k] \in Body /\ k \in DOMAIN bodies
    BY <1>1
  <2>2. done[k] = Tool(<<a, k>>, bodies[k])
    BY <2>1
  <2> HIDE DEF done, l
  <2> QED
    <3>1. ASSUME NEW id \in Nat \X Nat, NEW body \in Body, done[k] = Tool(id, body)
          PROVE  /\ done[k] \in Message /\ done[k].role = "tool"
                 /\ done[k].id = id /\ done[k].body = body
      BY <3>1, ToolIs
    <3> QED
      BY <2>1, <2>2, <3>1
<1>3. done \in Seq(Message) /\ Len(done) = l
  BY <1>1, <1>2
<1>4. /\ answer \in Message /\ answer.role = "tool"
      /\ answer.id = <<a, l + 1>> /\ answer.body = Plain("result")
  <2>1. <<a, l + 1>> \in Nat \X Nat
    BY <1>1
  <2> HIDE DEF l
  <2> QED
    BY <1>1, <2>1, ToolIs
<1>5. Results(a, cs, bodies) = IF Suspends(cs) THEN <<answer>> \o done ELSE done
  BY DEF Results
<1> HIDE DEF done, answer, l
<1>6. CASE ~Suspends(cs)
  BY <1>1, <1>2, <1>3, <1>5, <1>6 DEF Nth, l
<1>7. CASE Suspends(cs)
  <2> DEFINE r == <<answer>> \o done
  <2>1. /\ r \in Seq(Message) /\ Len(r) = l + 1 /\ r[1] = answer
        /\ \A j \in 2 .. l + 1 : r[j] = done[j - 1]
    BY <1>1, <1>3, <1>4
  <2>2. n = l + 1 /\ Results(a, cs, bodies) = r
    BY <1>5, <1>7 DEF l
  <2> HIDE DEF r
  <2>3. ASSUME NEW j \in 1 .. n
        PROVE  /\ r[j].role = "tool" /\ r[j].id = <<a, Nth(cs, n, j)>>
               /\ r[j].body = IF Suspends(cs) /\ j = 1 THEN Plain("result") ELSE bodies[Nth(cs, n, j)]
    <3>1. CASE j = 1
      BY <1>4, <1>7, <2>1, <2>2, <3>1 DEF Nth
    <3>2. CASE j # 1
      <4>1. j - 1 \in 1 .. l /\ j \in 2 .. l + 1
        BY <1>1, <2>2, <3>2
      <4>2. r[j] = done[j - 1] /\ Nth(cs, n, j) = j - 1
        BY <1>7, <2>1, <3>2, <4>1 DEF Nth
      <4> QED
        BY <1>2, <3>2, <4>1, <4>2
    <3> QED
      BY <3>1, <3>2
  <2> QED
    BY <2>1, <2>2, <2>3
<1> QED
  BY <1>6, <1>7

LEMMA CallListIs ==
    ASSUME NEW cs \in CallLists
    PROVE  cs \in Seq(Attempts) /\ cs # <<>>
<1>1. PICK m \in 0 .. MaxCalls : cs \in [1 .. m -> Attempts]
  BY Zenon DEF CallLists, SeqOf
<1> QED
  BY <1>1, TranscriptAssumption DEF CallLists

LEMMA ConcatIs ==
    ASSUME NEW S, NEW s \in Seq(S), NEW t \in Seq(S)
    PROVE  /\ s \o t \in Seq(S) /\ Len(s \o t) = Len(s) + Len(t)
           /\ \A i \in 1 .. Len(s) : (s \o t)[i] = s[i]
           /\ \A i \in 1 .. Len(t) : (s \o t)[Len(s) + i] = t[i]
OBVIOUS

\* t is a turn that is pushed on a stack of l messages.
IsTurn(t, l, n) ==
    /\ t \in Seq(Message) /\ n \in Nat
    /\ \A j \in 1 .. Len(t) : /\ t[j].role = "tool" <=> j \in 2 .. n + 1
                              /\ t[j].role = "assistant" => j = 1
                              /\ t[j].role = "user" => t[j].body.kind = "text"
    /\ n > 0 => n + 1 <= Len(t) /\ t[1].role = "assistant"
    /\ \A j \in 2 .. n + 1 :
          /\ t[j].id[1] = l + 1 /\ t[j].id[2] \in Answerable(t[1].calls)
          /\ t[j].body.kind \in {"shown", "result"}
          /\ t[j].body.kind = "shown" =>
                t[1].calls[t[j].id[2]].tool = "read" /\ t[1].calls[t[j].id[2]].path \in Paths
    /\ \A i, j \in 2 .. n + 1 : t[i].id[2] = t[j].id[2] => i = j
    /\ n > 0 => \A k \in Answerable(t[1].calls) : \E j \in 2 .. n + 1 : t[j].id[2] = k
    /\ 1 \in 1 .. Len(t) /\ t[1].role = "assistant" /\ t[1].calls # <<>> => 1 < Len(t)

LEMMA TurnPushed ==
    ASSUME NEW ms \in Seq(Message), NEW t, NEW n, IsTurn(t, Len(ms), n)
    PROVE  TurnAdded(ms, ms \o t, n)
<1> DEFINE l == Len(ms)
           ns == ms \o t
<1>1. /\ l \in Nat /\ n \in Nat /\ t \in Seq(Message) /\ Len(t) \in Nat
      /\ ns \in Seq(Message) /\ Len(ns) = l + Len(t)
      /\ \A i \in 1 .. l : ns[i] = ms[i]
      /\ \A j \in 1 .. Len(t) : ns[l + j] = t[j]
  BY ConcatIs DEF IsTurn
<1> HIDE DEF l, ns
<1>2. Extends(ms, ns)
  BY <1>1 DEF Extends, l
<1>3. \A i \in l + 1 .. Len(ns) : i - l \in 1 .. Len(t) /\ ns[i] = t[i - l]
  <2>1. ASSUME NEW i \in l + 1 .. Len(ns)
        PROVE  i - l \in 1 .. Len(t) /\ l + (i - l) = i
    BY <1>1
  <2> QED
    BY <1>1, <2>1
<1>4. ASSUME NEW i \in l + 1 .. Len(ns)
      PROVE  /\ ns[i].role = "tool" <=> i \in l + 1 + 1 .. l + 1 + n
             /\ ns[i].role = "assistant" => i = l + 1
             /\ ns[i].role = "user" => ns[i].body.kind = "text"
  <2>1. i - l \in 1 .. Len(t) /\ ns[i] = t[i - l]
    BY <1>3
  <2>2. /\ t[i - l].role = "tool" <=> i - l \in 2 .. n + 1
        /\ t[i - l].role = "assistant" => i - l = 1
        /\ t[i - l].role = "user" => t[i - l].body.kind = "text"
    BY <2>1 DEF IsTurn
  <2> QED
    BY <1>1, <2>1, <2>2
<1>5. n > 0 => /\ l + 1 + n <= Len(ns) /\ ns[l + 1] = t[1] /\ ns[l + 1].role = "assistant"
               /\ \A i \in l + 1 + 1 .. l + 1 + n : i - l \in 2 .. n + 1 /\ ns[i] = t[i - l]
               /\ \A j \in 2 .. n + 1 : l + j \in l + 1 + 1 .. l + 1 + n /\ ns[l + j] = t[j]
  <2> SUFFICES ASSUME n > 0
               PROVE  /\ l + 1 + n <= Len(ns) /\ ns[l + 1] = t[1] /\ ns[l + 1].role = "assistant"
                      /\ \A i \in l + 1 + 1 .. l + 1 + n : i - l \in 2 .. n + 1 /\ ns[i] = t[i - l]
                      /\ \A j \in 2 .. n + 1 : l + j \in l + 1 + 1 .. l + 1 + n /\ ns[l + j] = t[j]
    OBVIOUS
  <2>1. n + 1 <= Len(t) /\ t[1].role = "assistant"
    BY DEF IsTurn
  <2>2. l + 1 + n <= Len(ns) /\ 1 \in 1 .. Len(t)
    BY <1>1, <2>1
  <2>3. \A i \in l + 1 + 1 .. l + 1 + n : i - l \in 2 .. n + 1 /\ i \in l + 1 .. Len(ns)
    BY <1>1, <2>2
  <2>4. \A j \in 2 .. n + 1 : l + j \in l + 1 + 1 .. l + 1 + n /\ j \in 1 .. Len(t)
    BY <1>1, <2>1
  <2> QED
    BY <1>1, <1>3, <2>1, <2>2, <2>3, <2>4
<1>6. ASSUME NEW i \in l + 1 + 1 .. l + 1 + n
      PROVE  n > 0
  BY <1>1
<1>7. ASSUME NEW i \in l + 1 + 1 .. l + 1 + n
      PROVE  IsResult(ns, l + 1, i)
  <2>1. ns[l + 1] = t[1] /\ i - l \in 2 .. n + 1 /\ ns[i] = t[i - l]
    BY <1>5, <1>6
  <2>2. /\ t[i - l].id[1] = l + 1 /\ t[i - l].id[2] \in Answerable(t[1].calls)
        /\ t[i - l].body.kind \in {"shown", "result"}
        /\ t[i - l].body.kind = "shown" =>
              t[1].calls[t[i - l].id[2]].tool = "read" /\ t[1].calls[t[i - l].id[2]].path \in Paths
    BY <2>1 DEF IsTurn, l
  <2> QED
    BY <2>1, <2>2 DEF IsResult, Asked
<1>8. ASSUME NEW i \in l + 1 + 1 .. l + 1 + n, NEW j \in l + 1 + 1 .. l + 1 + n, ns[i].id[2] = ns[j].id[2]
      PROVE  i = j
  <2>1. i - l \in 2 .. n + 1 /\ ns[i] = t[i - l] /\ j - l \in 2 .. n + 1 /\ ns[j] = t[j - l]
    BY <1>5, <1>6
  <2>2. \A x, y \in 2 .. n + 1 : t[x].id[2] = t[y].id[2] => x = y
    BY DEF IsTurn
  <2>3. t[i - l].id[2] = t[j - l].id[2]
    BY <1>8, <2>1
  <2>4. i - l = j - l
    BY <2>1, <2>2, <2>3
  <2> QED
    BY <1>1, <2>4
<1>9. n > 0 => \A k \in Answerable(ns[l + 1].calls) : \E i \in l + 1 + 1 .. l + 1 + n : ns[i].id[2] = k
  <2> SUFFICES ASSUME n > 0, NEW k \in Answerable(ns[l + 1].calls)
               PROVE  \E i \in l + 1 + 1 .. l + 1 + n : ns[i].id[2] = k
    OBVIOUS
  <2>1. PICK j \in 2 .. n + 1 : t[j].id[2] = k
    BY <1>5 DEF IsTurn
  <2> QED
    BY <1>5, <2>1
<1>10. l + 1 \in 1 .. Len(ns) /\ ns[l + 1].role = "assistant" /\ ns[l + 1].calls # <<>> => l + 1 < Len(ns)
  <2> SUFFICES ASSUME l + 1 \in 1 .. Len(ns), ns[l + 1].role = "assistant", ns[l + 1].calls # <<>>
               PROVE  l + 1 < Len(ns)
    OBVIOUS
  <2>1. 1 \in 1 .. Len(t) /\ ns[l + 1] = t[1]
    BY <1>1
  <2> QED
    BY <1>1, <2>1 DEF IsTurn
<1> QED
  BY <1>1, <1>2, <1>4, <1>5, <1>7, <1>8, <1>9, <1>10 DEF TurnAdded, l, ns

\* The agent's message of turn t calls to change p.
Changes(t, p) ==
    /\ 1 \in 1 .. Len(t) /\ t[1].role = "assistant"
    /\ \E k \in DOMAIN t[1].calls : t[1].calls[k].tool \in Mutates /\ t[1].calls[k].path = p

\* What is known of p may be out of date.
Excused(us, ms, p) == p \in us \/ Calling(ms, Mutates, p) # {}

\* Every answer: a turn with n results is pushed, and what it changed on disk,
\* or shows as it no longer is, has an excuse.
TurnTaken(n) ==
    /\ at = "asked" /\ at' = "ready"
    /\ UNCHANGED <<session, emitted, rows, evicted>>
    /\ TurnAdded(messages, messages', n)
    /\ version' \in Nat /\ disk' \in [Paths -> 0 .. version']
    /\ ops' \in 0 .. MaxOps /\ answers' \in 0 .. MaxAnswers
    /\ unseen \subseteq unseen' /\ unseen' \subseteq Paths
    /\ \A p \in Paths : disk'[p] # disk[p] => Excused(unseen', messages', p)
    /\ \A i \in Len(messages) + 2 .. Len(messages) + 1 + n :
          messages'[i].body.kind = "shown" /\ messages'[i].body.version # disk'[Asked(messages', i).path]
              => Excused(unseen', messages', Asked(messages', i).path)

\* Turn t with n results tells what made w of the files.
Tells(t, n, w) ==
    /\ \A p \in Paths : w.disk[p] # disk[p] => p \in w.unseen \/ Changes(t, p)
    /\ \A j \in 2 .. n + 1 :
          t[j].body.kind = "shown" /\ t[j].body.version # w.disk[t[1].calls[t[j].id[2]].path]
              => \/ t[1].calls[t[j].id[2]].path \in w.unseen
                 \/ Changes(t, t[1].calls[t[j].id[2]].path)

LEMMA PushesIs ==
    ASSUME TypeOK, Answered, NEW w \in Dateds, unseen \subseteq w.unseen, NEW m \in Nat, NEW t, NEW n,
           Pushes(w, m, t), IsTurn(t, Len(messages), n), Tells(t, n, w)
    PROVE  TurnTaken(n)
<1> DEFINE l == Len(messages)
<1>1. /\ messages \in Seq(Message) /\ l \in Nat /\ t \in Seq(Message) /\ n \in Nat /\ Len(t) \in Nat
      /\ w.ops \in Nat /\ w.version \in Nat /\ w.disk \in [Paths -> Nat] /\ w.unseen \subseteq Paths
      /\ \A p \in Paths : w.disk[p] <= w.version
  <2>1. w \in Worlds /\ Dated(w)
    BY DEF Dateds
  <2>2. messages \in Seq(Message) /\ t \in Seq(Message) /\ n \in Nat
    BY DEF TypeOK, IsTurn
  <2> QED
    BY <2>1, <2>2 DEF Worlds, Dated
<1>2. /\ at = "asked" /\ at' = "ready"
      /\ UNCHANGED <<session, emitted, rows, evicted>>
      /\ messages' = messages \o t
      /\ disk' = w.disk /\ version' = w.version /\ unseen' = w.unseen
      /\ ops' = w.ops + m /\ w.ops + m <= MaxOps
      /\ answers' = answers + 1 /\ answers < MaxAnswers
  BY DEF Answered, Pushes
<1>3. TurnAdded(messages, messages', n)
  BY <1>1, <1>2, TurnPushed
<1>4. version' \in Nat /\ disk' \in [Paths -> 0 .. version'] /\ ops' \in 0 .. MaxOps
  <2>1. \A p \in Paths : w.disk[p] \in 0 .. w.version
    BY <1>1
  <2>2. w.disk \in [Paths -> 0 .. w.version]
    BY <1>1, <2>1
  <2>3. ops' \in 0 .. MaxOps
    BY <1>1, <1>2, TranscriptAssumption
  <2> QED
    BY <1>1, <1>2, <2>2, <2>3
<1>5. answers' \in 0 .. MaxAnswers
  BY <1>2, TranscriptAssumption DEF TypeOK
<1>6. \A j \in 1 .. Len(t) : l + j \in DOMAIN messages' /\ messages'[l + j] = t[j]
  <2>1. \A j \in 1 .. Len(t) : l + j \in 1 .. l + Len(t)
    BY <1>1
  <2>2. Len(messages') = l + Len(t) /\ messages' \in Seq(Message)
    BY <1>1, <1>2, ConcatIs
  <2>3. \A j \in 1 .. Len(t) : messages'[l + j] = t[j]
    BY <1>1, <1>2, ConcatIs
  <2> QED
    BY <2>1, <2>2, <2>3
<1>7. ASSUME NEW p, p \in w.unseen \/ Changes(t, p)
      PROVE  Excused(unseen', messages', p)
  <2>1. CASE Changes(t, p)
    <3>1. l + 1 \in DOMAIN messages' /\ messages'[l + 1] = t[1]
      BY <1>6, <2>1 DEF Changes
    <3>2. l + 1 \in Calling(messages', Mutates, p)
      BY <2>1, <3>1 DEF Changes, Calling, Positions
    <3> QED
      BY <3>2 DEF Excused
  <2> QED
    BY <1>2, <1>7, <2>1 DEF Excused
<1>8. \A p \in Paths : disk'[p] # disk[p] => Excused(unseen', messages', p)
  BY <1>2, <1>7 DEF Tells
<1>9. ASSUME NEW i \in l + 2 .. l + 1 + n,
             messages'[i].body.kind = "shown", messages'[i].body.version # disk'[Asked(messages', i).path]
      PROVE  Excused(unseen', messages', Asked(messages', i).path)
  <2>1. i - l \in 2 .. n + 1 /\ n > 0 /\ l + (i - l) = i
    BY <1>1
  <2>2. n + 1 <= Len(t)
    BY <2>1 DEF IsTurn
  <2>3. i - l \in 1 .. Len(t) /\ 1 \in 1 .. Len(t)
    BY <1>1, <2>1, <2>2
  <2>4. messages'[i] = t[i - l] /\ messages'[l + 1] = t[1]
    BY <1>6, <2>1, <2>3
  <2>5. t[i - l].id[1] = l + 1
    BY <2>1 DEF IsTurn
  <2>6. Asked(messages', i) = t[1].calls[t[i - l].id[2]]
    BY <2>4, <2>5 DEF Asked
  <2> HIDE DEF l
  <2>7. \/ t[1].calls[t[i - l].id[2]].path \in w.unseen
        \/ Changes(t, t[1].calls[t[i - l].id[2]].path)
    BY <1>2, <1>9, <2>1, <2>4, <2>6 DEF Tells
  <2> QED
    BY <1>7, <2>6, <2>7
<1> QED
  BY <1>1, <1>2, <1>3, <1>4, <1>5, <1>8, <1>9 DEF TurnTaken

LEMMA WorldIsDated ==
    ASSUME TypeOK
    PROVE  /\ World \in Dateds /\ World.results = <<>> /\ World.unseen = unseen /\ World.disk = disk
           /\ World.ops = ops /\ World.version = version
BY DEF TypeOK, World, Dateds, Worlds, Dated

LEMMA ArtifactIs ==
    ASSUME TypeOK, NEW w \in Artifacts
    PROVE  /\ w \in Dateds /\ w.results = <<>> /\ unseen \subseteq w.unseen
           /\ \A p \in Paths : w.disk[p] # disk[p] => p \in w.unseen
<1>1. CASE w = World
  BY <1>1, WorldIsDated
<1>2. CASE w # World
  <2>1. PICK q \in Paths : w = [NewVersion(World, q) EXCEPT !.ops = @ + 1, !.unseen = @ \union {q}]
    BY <1>2 DEF Artifacts
  <2> DEFINE n == NewVersion(World, q)
  <2>2. World \in Worlds /\ Dated(World)
    BY WorldIsDated DEF Dateds
  <2>3. /\ n = [disk |-> [disk EXCEPT ![q] = version + 1], version |-> version + 1,
                ops |-> ops, unseen |-> unseen, results |-> <<>>]
        /\ n \in Worlds /\ Dated(n)
        /\ \A p \in Paths : p # q => n.disk[p] = disk[p]
    BY <2>2, WorldIsDated, NewVersionFacts
  <2>4. w = [disk |-> n.disk, version |-> n.version, ops |-> ops + 1, unseen |-> unseen \union {q},
             results |-> <<>>]
    <3>1. n.ops = ops /\ n.unseen = unseen
      BY <2>3
    <3>2. w = [[n EXCEPT !.ops = n.ops + 1] EXCEPT !.unseen = n.unseen \union {q}]
      BY <2>1, Zenon
    <3>3. w = [[n EXCEPT !.ops = ops + 1] EXCEPT !.unseen = unseen \union {q}]
      BY <3>1, <3>2, Zenon
    <3> DEFINE d == [disk EXCEPT ![q] = version + 1]
    <3>4. n = [disk |-> d, version |-> version + 1, ops |-> ops, unseen |-> unseen, results |-> <<>>]
      BY <2>3
    <3>5. n.disk = d /\ n.version = version + 1
      BY <3>4
    <3> HIDE DEF n, d
    <3>6. w = [disk |-> d, version |-> version + 1, ops |-> ops + 1, unseen |-> unseen \union {q},
               results |-> <<>>]
      BY <3>3, <3>4, WithOps, WithUnseen, Zenon
    <3> QED
      BY <3>5, <3>6
  <2> HIDE DEF n
  <2>5. w \in Worlds /\ Dated(w)
    <3>1. /\ n.disk \in [Paths -> Nat] /\ n.version \in Nat /\ ops + 1 \in Nat /\ unseen \union {q} \in SUBSET Paths
          /\ \A p \in Paths : n.disk[p] <= n.version
      BY <2>3 DEF Worlds, Dated, TypeOK
    <3> QED
      BY <2>4, <3>1 DEF Worlds, Dated
  <2> QED
    BY <2>3, <2>4, <2>5 DEF Dateds
<1> QED
  BY <1>1, <1>2

\* A turn without results and, unless a word of the user follows, without calls.
LEMMA ShortTurn ==
    ASSUME NEW t \in Seq(Message), NEW l \in Nat,
           \A j \in 1 .. Len(t) : t[j] = User \/ (j = 1 /\ t[j].role = "assistant"),
           1 \in 1 .. Len(t) /\ t[1].role = "assistant" /\ t[1].calls # <<>> => 1 < Len(t)
    PROVE  IsTurn(t, l, 0)
<1>1. \A j \in 1 .. Len(t) : /\ t[j].role # "tool"
                             /\ t[j].role = "assistant" => j = 1
                             /\ t[j].role = "user" => t[j].body.kind = "text"
  BY UserIs
<1>2. 2 .. 0 + 1 = {} /\ ~ (0 > 0) /\ 0 \in Nat
  OBVIOUS
<1> QED
  BY <1>1, <1>2 DEF IsTurn

LEMMA MoreIs ==
    ASSUME NEW more \in NextWord
    PROVE  /\ more \in Seq(Message) /\ Len(more) \in Nat
           /\ \A j \in 1 .. Len(more) : more[j] = User
<1>1. ASSUME NEW u \in Message, NEW x \in {<<>>, <<u>>}
      PROVE  x \in Seq(Message) /\ Len(x) \in Nat /\ \A j \in 1 .. Len(x) : x[j] = u
  <2>1. CASE x = <<>>
    BY <2>1
  <2>2. CASE x = <<u>>
    BY <2>2
  <2> QED
    BY <2>1, <2>2
<1>2. User \in Message /\ more \in {<<>>, <<User>>}
  BY UserIs, Zenon DEF NextWord
<1> QED
  BY <1>1, <1>2, Zenon

LEMMA NoAnswerTaken ==
    ASSUME TypeOK, NoAnswer
    PROVE  TurnTaken(0)
<1>1. PICK more \in NextWord : Pushes(World, 0, more)
  BY DEF NoAnswer
<1>2. Len(messages) \in Nat
  BY DEF TypeOK
<1>3. IsTurn(more, Len(messages), 0)
  <2>1. more \in Seq(Message) /\ \A j \in 1 .. Len(more) : more[j] = User
    BY MoreIs
  <2>2. 1 \in 1 .. Len(more) => more[1].role # "assistant"
    BY <2>1, UserIs
  <2> QED
    BY <1>2, <2>1, <2>2, ShortTurn
<1>4. Tells(more, 0, World)
  BY WorldIsDated DEF Tells
<1>5. Answered /\ World \in Dateds /\ unseen \subseteq World.unseen
  BY WorldIsDated DEF NoAnswer
<1> QED
  BY <1>1, <1>3, <1>4, <1>5, PushesIs

LEMMA ProseTaken ==
    ASSUME TypeOK, Prose
    PROVE  TurnTaken(0)
<1>1. PICK w \in Artifacts, more \in NextWord : Pushes(w, 0, <<Assistant(<<>>)>> \o more)
  BY DEF Prose
<1> DEFINE t == <<Assistant(<<>>)>> \o more
<1>2. Len(messages) \in Nat
  BY DEF TypeOK
<1>3. /\ Assistant(<<>>) \in Message /\ Assistant(<<>>).role = "assistant"
      /\ Assistant(<<>>).calls = <<>>
  <2>1. <<>> \in Seq(Attempts)
    OBVIOUS
  <2> QED
    BY <2>1, AssistantIs
<1>4. t \in Seq(Message) /\ t[1] = Assistant(<<>>) /\ \A j \in 1 .. Len(t) : j # 1 => t[j] = User
  <2> DEFINE m == Assistant(<<>>)
             s == <<m>>
  <2>1. m \in Message
    BY <1>3
  <2> HIDE DEF m
  <2>2. s \in Seq(Message) /\ Len(s) = 1 /\ s[1] = m
    BY <2>1
  <2>3. t = s \o more
    BY DEF m
  <2> HIDE DEF s, t
  <2>4. /\ t \in Seq(Message) /\ Len(t) = 1 + Len(more)
        /\ \A j \in 1 .. 1 : t[j] = s[j]
        /\ \A j \in 1 .. Len(more) : t[1 + j] = more[j]
    <3>1. /\ s \o more \in Seq(Message) /\ Len(s \o more) = Len(s) + Len(more)
          /\ \A j \in 1 .. Len(s) : (s \o more)[j] = s[j]
          /\ \A j \in 1 .. Len(more) : (s \o more)[Len(s) + j] = more[j]
      <4>1. s \in Seq(Message) /\ more \in Seq(Message)
        BY <2>2, MoreIs
      <4> QED
        BY <4>1
    <3>2. 1 = Len(s)
      BY <2>2
    <3> QED
      BY <2>2, <2>3, <3>1, <3>2, Zenon
  <2>5. ASSUME NEW j \in 1 .. Len(t), j # 1
        PROVE  t[j] = User
    <3>1. j - 1 \in 1 .. Len(more) /\ 1 + (j - 1) = j
      BY <2>4, <2>5, MoreIs
    <3> QED
      BY <2>4, <3>1, MoreIs
  <2> QED
    BY <2>2, <2>4, <2>5 DEF m
<1> HIDE DEF t
<1>5. IsTurn(t, Len(messages), 0)
  <2>1. \A j \in 1 .. Len(t) : t[j] = User \/ (j = 1 /\ t[j].role = "assistant")
    BY <1>3, <1>4
  <2>2. ~ (t[1].calls # <<>>)
    BY <1>3, <1>4
  <2> QED
    BY <1>2, <1>4, <2>1, <2>2, ShortTurn
<1>6. w \in Dateds /\ unseen \subseteq w.unseen /\ \A p \in Paths : w.disk[p] # disk[p] => p \in w.unseen
  BY ArtifactIs
<1>7. Tells(t, 0, w)
  BY <1>6 DEF Tells
<1>8. Answered /\ Pushes(w, 0, t)
  BY <1>1 DEF Prose, t
<1> QED
  BY <1>5, <1>6, <1>7, <1>8, PushesIs

LEMMA RejectedTaken ==
    ASSUME TypeOK, Rejected
    PROVE  TurnTaken(0)
<1>1. PICK w \in Artifacts, cs \in CallLists : Pushes(w, Len(cs), <<Assistant(cs), User>>)
  BY DEF Rejected
<1> DEFINE m == Assistant(cs)
           t == <<m, User>>
<1>2. Len(messages) \in Nat /\ cs \in Seq(Attempts) /\ Len(cs) \in Nat
  BY CallListIs DEF TypeOK
<1>3. m \in Message /\ m.role = "assistant"
  BY <1>2, AssistantIs
<1> HIDE DEF m
<1>4. t \in Seq(Message) /\ t[1] = m /\ Len(t) = 2 /\ \A j \in 1 .. Len(t) : j # 1 => t[j] = User
  BY <1>3, UserIs
<1> HIDE DEF t
<1>5. IsTurn(t, Len(messages), 0)
  <2>1. \A j \in 1 .. Len(t) : t[j] = User \/ (j = 1 /\ t[j].role = "assistant")
    BY <1>3, <1>4
  <2>2. 1 < Len(t)
    BY <1>4
  <2> QED
    BY <1>2, <1>4, <2>1, <2>2, ShortTurn
<1>6. w \in Dateds /\ unseen \subseteq w.unseen /\ \A p \in Paths : w.disk[p] # disk[p] => p \in w.unseen
  BY ArtifactIs
<1>7. Tells(t, 0, w)
  BY <1>6 DEF Tells
<1>8. Answered /\ Pushes(w, Len(cs), t)
  BY <1>1 DEF Rejected, t, m
<1> QED
  BY <1>2, <1>5, <1>6, <1>7, <1>8, PushesIs

\* What changed before the calls is noted.
Noted(w) == \A p \in Paths : w.disk[p] # disk[p] => p \in w.unseen

\* The turn t of a stack of length l has led from start to w.
Taking(t, l, w, start) ==
    \E n \in Nat : IsTurn(t, l, n) /\ Tells(t, n, w) /\ w \in Dateds /\ start.unseen \subseteq w.unseen

\* The turn of calls cs that left the files at w.
LEMMA CallsTurn ==
    ASSUME NEW start \in Dateds, start.results = <<>>, NEW cs \in Seq(Attempts), cs # <<>>, NEW l \in Nat,
           Noted(start), disk \in [Paths -> Nat],
           NEW more \in NextWord, NEW w, w = Ran(start, BeforeAsk(cs)),
           NEW t, t = <<Assistant(cs)>> \o Results(l + 1, cs, w.results) \o more
    PROVE  Taking(t, l, w, start)
<1> DEFINE b == BeforeAsk(cs)
           len == Len(b)
           n == IF Suspends(cs) THEN len + 1 ELSE len
           rs == Results(l + 1, cs, w.results)
           m == Assistant(cs)
<1>1. /\ b \in Seq(Runnable) /\ len \in Nat
      /\ len <= Len(cs)
      /\ \A k \in 1 .. len : b[k] = cs[k]
      /\ Suspends(cs) => len + 1 <= Len(cs) /\ Answerable(cs) = 1 .. len + 1
      /\ ~Suspends(cs) => len = Len(cs) /\ Answerable(cs) = 1 .. len
      /\ Len(cs) \in Nat
  BY BeforeAskIs
<1>2. Done(start, b, len, w)
  BY <1>1, RanFacts
<1>3. /\ w \in Dateds /\ w.results \in Seq(Body) /\ Len(w.results) = len
      /\ start.unseen \subseteq w.unseen
  BY <1>2 DEF Done, Dateds, Worlds
<1>4. /\ Suspends(cs) => n = len + 1
      /\ ~Suspends(cs) => n = len
  OBVIOUS
<1>5. /\ rs \in Seq(Message) /\ Len(rs) = n
      /\ \A j \in 1 .. n : /\ rs[j].role = "tool" /\ rs[j].id = <<l + 1, Nth(cs, n, j)>>
                           /\ rs[j].body = IF Suspends(cs) /\ j = 1 THEN Plain("result")
                                           ELSE w.results[Nth(cs, n, j)]
  <2>1. l + 1 \in Nat
    OBVIOUS
  <2> HIDE DEF n
  <2> QED
    BY <1>3, <1>4, <2>1, ResultsIs
<1>6. /\ m \in Message /\ m.role = "assistant"
      /\ DOMAIN m.calls = 1 .. Len(cs)
      /\ \A k \in 1 .. Len(cs) : m.calls[k].tool = cs[k].tool /\ m.calls[k].path = cs[k].path
      /\ Answerable(m.calls) = Answerable(cs)
  <2> HIDE DEF n, b, len, rs
  <2>1. cs \in Seq(Attempts)
    OBVIOUS
  <2> QED
    BY ONLY <2>1, AssistantIs DEF m
<1>7. more \in Seq(Message) /\ Len(more) \in Nat /\ \A j \in 1 .. Len(more) : more[j] = User
  BY MoreIs
<1> HIDE DEF n, b, len, rs, m
<1>8. n \in Nat /\ n > 0 /\ Answerable(cs) = 1 .. n /\ n <= Len(cs)
  <2>1. Len(cs) > 0
    BY <1>1
  <2> QED
    BY <1>1, <1>4, <2>1
<1>9. t = <<m>> \o rs \o more
  BY DEF m, rs
<1>10. /\ t \in Seq(Message) /\ Len(t) = 1 + n + Len(more)
       /\ t[1] = m
       /\ \A j \in 2 .. n + 1 : t[j] = rs[j - 1]
       /\ \A j \in n + 2 .. Len(t) : t[j] = User
  <2> DEFINE u == <<m>> \o rs
  <2>1. /\ u \in Seq(Message) /\ Len(u) = 1 + n /\ u[1] = m
        /\ \A j \in 2 .. n + 1 : u[j] = rs[j - 1]
    BY <1>5, <1>6, <1>8
  <2>2. t = u \o more
    BY <1>9
  <2> HIDE DEF u
  <2>3. /\ t \in Seq(Message) /\ Len(t) = Len(u) + Len(more)
        /\ \A j \in 1 .. Len(u) : t[j] = u[j]
        /\ \A j \in 1 .. Len(more) : t[Len(u) + j] = more[j]
    <3>1. /\ u \o more \in Seq(Message) /\ Len(u \o more) = Len(u) + Len(more)
          /\ \A j \in 1 .. Len(u) : (u \o more)[j] = u[j]
          /\ \A j \in 1 .. Len(more) : (u \o more)[Len(u) + j] = more[j]
      <4>1. u \in Seq(Message) /\ more \in Seq(Message)
        BY <1>7, <2>1
      <4> QED
        BY <4>1
    <3> QED
      BY <2>2, <3>1, Zenon
  <2>4. ASSUME NEW j \in n + 2 .. Len(t)
        PROVE  t[j] = User
    <3>1. j - (n + 1) \in 1 .. Len(more) /\ Len(u) + (j - (n + 1)) = j
      BY <1>7, <1>8, <2>1, <2>3
    <3> QED
      BY <1>7, <2>3, <3>1
  <2>5. \A j \in 2 .. n + 1 : j \in 1 .. Len(u)
    BY <1>8, <2>1
  <2>6. 1 \in 1 .. Len(u)
    BY <1>8, <2>1
  <2> QED
    BY <1>7, <1>8, <2>1, <2>3, <2>4, <2>5, <2>6
<1>11. ASSUME NEW j \in 2 .. n + 1
       PROVE  /\ t[j].role = "tool" /\ t[j].id[1] = l + 1 /\ t[j].id[2] = Nth(cs, n, j - 1)
              /\ t[j].id[2] \in 1 .. n
              /\ Suspends(cs) /\ j = 2 => t[j].body = Plain("result")
              /\ ~ (Suspends(cs) /\ j = 2) => t[j].id[2] \in 1 .. len /\ t[j].body = w.results[t[j].id[2]]
  <2>1. j - 1 \in 1 .. n /\ (j - 1 = 1 <=> j = 2)
    BY <1>8
  <2>0. t[j] = rs[j - 1]
    BY <1>10
  <2>2. Nth(cs, n, j - 1) \in 1 .. n
    BY <1>8, <2>1 DEF Nth
  <2>3. ~ (Suspends(cs) /\ j = 2) => Nth(cs, n, j - 1) \in 1 .. len
    BY <1>1, <1>4, <1>8, <2>1 DEF Nth
  <2>4. /\ rs[j - 1].role = "tool" /\ rs[j - 1].id = <<l + 1, Nth(cs, n, j - 1)>>
        /\ rs[j - 1].body = IF Suspends(cs) /\ j - 1 = 1 THEN Plain("result")
                            ELSE w.results[Nth(cs, n, j - 1)]
    BY <1>5, <2>1
  <2>5. rs[j - 1].id[1] = l + 1 /\ rs[j - 1].id[2] = Nth(cs, n, j - 1)
    BY <2>4
  <2> QED
    BY <2>0, <2>1, <2>2, <2>3, <2>4, <2>5
<1>12. ASSUME NEW j \in 2 .. n + 1
       PROVE  /\ t[j].body.kind \in {"shown", "result"}
              /\ t[j].body.kind = "shown" =>
                    /\ m.calls[t[j].id[2]].tool = "read"
                    /\ m.calls[t[j].id[2]].path \in Paths
                    /\ t[j].body.version # w.disk[m.calls[t[j].id[2]].path] =>
                          \/ m.calls[t[j].id[2]].path \in w.unseen
                          \/ Changed(b, len, m.calls[t[j].id[2]].path)
  <2>1. CASE Suspends(cs) /\ j = 2
    BY <1>11, <2>1, PlainIsBody DEF Kinds
  <2>2. CASE ~ (Suspends(cs) /\ j = 2)
    <3> DEFINE k == t[j].id[2]
    <3>1. k \in 1 .. len /\ t[j].body = w.results[k]
      BY <1>11, <2>2
    <3> HIDE DEF k
    <3>2. /\ w.results[k].kind \in {"shown", "result"}
          /\ w.results[k].kind = "shown" =>
                /\ b[k].tool = "read" /\ b[k].path \in Paths
                /\ w.results[k].version # w.disk[b[k].path] =>
                      b[k].path \in w.unseen \/ Changed(b, len, b[k].path)
      BY <1>2, <3>1 DEF Done
    <3>3. m.calls[k].tool = b[k].tool /\ m.calls[k].path = b[k].path
      <4>1. k \in 1 .. Len(cs)
        BY <1>1, <3>1
      <4> QED
        BY <1>1, <1>6, <3>1, <4>1
    <3> QED
      BY <3>1, <3>2, <3>3 DEF k
  <2> QED
    BY <2>1, <2>2
<1>13. ASSUME NEW p, Changed(b, len, p)
       PROVE  Changes(t, p)
  <2>1. PICK k \in 1 .. len : b[k].tool \in Mutates /\ b[k].path = p
    BY <1>13 DEF Changed
  <2>2. k \in DOMAIN m.calls /\ m.calls[k].tool \in Mutates /\ m.calls[k].path = p
    BY <1>1, <1>6, <2>1
  <2> QED
    BY <1>6, <1>7, <1>8, <1>10, <2>2 DEF Changes
<1>14. Tells(t, n, w)
  <2>1. ASSUME NEW p \in Paths, w.disk[p] # disk[p]
        PROVE  p \in w.unseen \/ Changes(t, p)
    BY <1>2, <1>3, <1>13, <2>1 DEF Done, Noted
  <2>2. ASSUME NEW j \in 2 .. n + 1,
               t[j].body.kind = "shown", t[j].body.version # w.disk[t[1].calls[t[j].id[2]].path]
        PROVE  \/ t[1].calls[t[j].id[2]].path \in w.unseen
               \/ Changes(t, t[1].calls[t[j].id[2]].path)
    BY <1>10, <1>12, <1>13, <2>2
  <2> QED
    BY <2>1, <2>2 DEF Tells
<1>15. IsTurn(t, l, n)
  <2>1. ASSUME NEW j \in 1 .. Len(t)
        PROVE  /\ t[j].role = "tool" <=> j \in 2 .. n + 1
               /\ t[j].role = "assistant" => j = 1
               /\ t[j].role = "user" => t[j].body.kind = "text"
    <3>1. CASE j = 1
      BY <1>6, <1>8, <1>10, <3>1
    <3>2. CASE j \in 2 .. n + 1
      BY <1>11, <3>2
    <3>3. CASE j \in n + 2 .. Len(t)
      <4>1. t[j] = User
        BY <1>10, <3>3
      <4>2. j \notin 2 .. n + 1
        BY <1>8, <3>3
      <4> QED
        BY <4>1, <4>2, UserIs
    <3>4. j = 1 \/ j \in 2 .. n + 1 \/ j \in n + 2 .. Len(t)
      BY <1>7, <1>8, <1>10
    <3> QED
      BY <3>1, <3>2, <3>3, <3>4
  <2>2. n + 1 <= Len(t) /\ t[1].role = "assistant"
    BY <1>6, <1>7, <1>8, <1>10
  <2>3. \A j \in 2 .. n + 1 :
           /\ t[j].id[1] = l + 1 /\ t[j].id[2] \in Answerable(t[1].calls)
           /\ t[j].body.kind \in {"shown", "result"}
           /\ t[j].body.kind = "shown" =>
                t[1].calls[t[j].id[2]].tool = "read" /\ t[1].calls[t[j].id[2]].path \in Paths
    BY <1>6, <1>8, <1>10, <1>11, <1>12
  <2>4. ASSUME NEW i \in 2 .. n + 1, NEW j \in 2 .. n + 1, t[i].id[2] = t[j].id[2]
        PROVE  i = j
    <3>1. Nth(cs, n, i - 1) = Nth(cs, n, j - 1)
      BY <1>11, <2>4
    <3> QED
      BY <1>8, <3>1 DEF Nth
  <2>5. ASSUME NEW k \in Answerable(t[1].calls)
        PROVE  \E j \in 2 .. n + 1 : t[j].id[2] = k
    <3>1. k \in 1 .. n
      BY <1>6, <1>8, <1>10
    <3>2. CASE ~Suspends(cs)
      <4>1. k + 1 \in 2 .. n + 1 /\ Nth(cs, n, (k + 1) - 1) = k
        BY <1>8, <3>1, <3>2 DEF Nth
      <4> QED
        BY <1>11, <4>1
    <3>3. CASE Suspends(cs) /\ k = n
      <4>1. 2 \in 2 .. n + 1 /\ Nth(cs, n, 2 - 1) = k
        BY <1>8, <3>3 DEF Nth
      <4> QED
        BY <1>11, <4>1
    <3>4. CASE Suspends(cs) /\ k # n
      <4>1. k + 2 \in 2 .. n + 1 /\ Nth(cs, n, (k + 2) - 1) = k
        BY <1>8, <3>1, <3>4 DEF Nth
      <4> QED
        BY <1>11, <4>1
    <3> QED
      BY <3>2, <3>3, <3>4
  <2>6. 1 < Len(t)
    BY <1>7, <1>8, <1>10
  <2> QED
    BY <1>8, <1>10, <2>1, <2>2, <2>3, <2>4, <2>5, <2>6 DEF IsTurn
<1> QED
  BY <1>3, <1>8, <1>14, <1>15 DEF Taking

LEMMA CallToolsTaken ==
    ASSUME TypeOK, CallTools
    PROVE  \E n : TurnTaken(n)
<1> DEFINE l == Len(messages)
<1>1. PICK start \in Artifacts, cs \in CallLists, more \in NextWord :
          Pushes(Ran(start, BeforeAsk(cs)), Len(cs),
                 <<Assistant(cs)>> \o Results(l + 1, cs, Ran(start, BeforeAsk(cs)).results) \o more)
  BY DEF CallTools
<1>2. l \in Nat /\ cs \in Seq(Attempts) /\ cs # <<>> /\ Len(cs) \in Nat /\ disk \in [Paths -> Nat]
  BY CallListIs DEF TypeOK
<1>3. start \in Dateds /\ start.results = <<>> /\ unseen \subseteq start.unseen /\ Noted(start)
  BY ArtifactIs DEF Noted
<1> DEFINE w == Ran(start, BeforeAsk(cs))
           t == <<Assistant(cs)>> \o Results(l + 1, cs, w.results) \o more
<1>4. Pushes(w, Len(cs), t)
  BY <1>1
<1> HIDE DEF l
<1>5. PICK n \in Nat : IsTurn(t, l, n) /\ Tells(t, n, w) /\ w \in Dateds /\ start.unseen \subseteq w.unseen
  <2>1. w = Ran(start, BeforeAsk(cs))
    OBVIOUS
  <2>2. t = <<Assistant(cs)>> \o Results(l + 1, cs, w.results) \o more
    OBVIOUS
  <2> HIDE DEF w, t
  <2>3. start \in Dateds /\ start.results = <<>> /\ cs \in Seq(Attempts) /\ cs # <<>> /\ l \in Nat
        /\ Noted(start) /\ disk \in [Paths -> Nat] /\ more \in NextWord
    BY <1>2, <1>3
  <2>4. Taking(t, l, w, start)
    BY <2>1, <2>2, <2>3, CallsTurn
  <2> QED
    BY <2>4 DEF Taking
<1>6. Answered /\ unseen \subseteq w.unseen
  BY <1>3, <1>5 DEF CallTools
<1> HIDE DEF w, t
<1>7. TurnTaken(n)
  BY <1>2, <1>4, <1>5, <1>6, PushesIs DEF l
<1> QED
  BY <1>7

Answer == NoAnswer \/ Prose \/ Rejected \/ CallTools

LEMMA AnswerTaken ==
    ASSUME TypeOK, Answer
    PROVE  \E n : TurnTaken(n)
BY NoAnswerTaken, ProseTaken, RejectedTaken, CallToolsTaken DEF Answer

-----------------------------------------------------------------------------
(* Compaction.                                                             *)

LEMMA StubIs ==
    /\ \A b \in Stubs : b \in Body /\ b.kind \in Evicted
    /\ \A kind \in Evicted : Plain(kind) \in Stubs /\ kind \in Kinds
    /\ \A b \in Body : b.kind \notin Evicted => b \notin Stubs
BY DEF Stubs, Plain, Body, Kinds, Evicted

\* ns is ms with the bodies at ids taken out.
Taken(ms, ns, ids) ==
    /\ ms \in Seq(Message) /\ ns \in Seq(Message) /\ Len(ns) = Len(ms)
    /\ ids \subseteq Positions(ms, "tool")
    /\ \A i \in 1 .. Len(ms) :
          /\ i \notin ids => ns[i] = ms[i]
          /\ i \in ids => ns[i].role = "tool" /\ ns[i].id = ms[i].id /\ ns[i].body \in Stubs

LEMMA StubbedIs ==
    ASSUME NEW ms \in Seq(Message), NEW ids, ids \subseteq Positions(ms, "tool"), NEW kind \in Evicted
    PROVE  Taken(ms, Stubbed(ms, ids, kind), ids)
<1> DEFINE ns == Stubbed(ms, ids, kind)
           stub == Plain(kind)
<1>1. stub \in Stubs /\ stub \in Body
  BY StubIs
<1> HIDE DEF stub
<1>2. ASSUME NEW m \in Message, m.role = "tool"
      PROVE  [m EXCEPT !.body = stub] = [role |-> "tool", id |-> m.id, body |-> stub]
  BY <1>2 DEF Message
<1>3. ns = [i \in 1 .. Len(ms) |-> IF i \in ids THEN [ms[i] EXCEPT !.body = stub] ELSE ms[i]]
  BY DEF Stubbed, stub
<1>4. ASSUME NEW i \in 1 .. Len(ms), i \in ids
      PROVE  ns[i] = [role |-> "tool", id |-> ms[i].id, body |-> stub] /\ ms[i].id \in Nat \X Nat
  <2>1. ms[i] \in Message /\ ms[i].role = "tool"
    BY <1>4 DEF Positions
  <2>2. ns[i] = [ms[i] EXCEPT !.body = stub]
    BY <1>3, <1>4
  <2> QED
    BY <1>2, <2>1, <2>2, MessageIs
<1>5. \A i \in 1 .. Len(ms) : i \notin ids => ns[i] = ms[i]
  BY <1>3
<1> HIDE DEF ns
<1>6. \A i \in 1 .. Len(ms) : ns[i] \in Message
  <2> SUFFICES ASSUME NEW i \in 1 .. Len(ms) PROVE ns[i] \in Message
    OBVIOUS
  <2>1. CASE i \in ids
    <3>1. \A id \in Nat \X Nat : [role |-> "tool", id |-> id, body |-> stub] \in Message
      BY <1>1 DEF Message
    <3> QED
      BY <1>4, <2>1, <3>1, Zenon
  <2> QED
    BY <1>5, <2>1
<1>7. ns \in Seq(Message) /\ Len(ns) = Len(ms)
  <2>1. ns = [i \in 1 .. Len(ms) |-> ns[i]]
    BY <1>3
  <2> QED
    BY <1>6, <2>1
<1>8. \A i \in 1 .. Len(ms) : i \in ids =>
         ns[i].role = "tool" /\ ns[i].id = ms[i].id /\ ns[i].body \in Stubs
  <2>1. ASSUME NEW i \in 1 .. Len(ms), i \in ids
        PROVE  ns[i].role = "tool" /\ ns[i].id = ms[i].id /\ ns[i].body = stub
    <3>1. ASSUME NEW x, NEW id, NEW b, x = [role |-> "tool", id |-> id, body |-> b]
          PROVE  x.role = "tool" /\ x.id = id /\ x.body = b
      BY <3>1
    <3>2. ns[i] = [role |-> "tool", id |-> ms[i].id, body |-> stub]
      BY <1>4, <2>1
    <3> QED
      BY <3>1, <3>2
  <2> QED
    BY <1>1, <2>1
<1> QED
  BY <1>5, <1>7, <1>8 DEF Taken, ns

\* A result that is told of is that of a read, and a later message names its path.
LEMMA ToldIs ==
    ASSUME NEW ms \in Seq(Message), NEW i \in Told(ms)
    PROVE  /\ i \in Positions(ms, "tool")
           /\ Asked(ms, i).tool = "read" /\ Asked(ms, i).path \in Paths
           /\ \E j \in Calling(ms, {"read", "write", "delete"}, Asked(ms, i).path) : j > ms[i].id[1]
<1>1. PICK p \in Paths : /\ i \in ReadsOf(ms, p)
                         /\ \/ \E j \in Calling(ms, {"read"}, p) : j > Asker(ms, i)
                            \/ \E j \in Calling(ms, Mutates, p) : j > Asker(ms, i)
  BY DEF Told, Superseded, Invalidated
<1>2. i \in Positions(ms, "tool") /\ Asked(ms, i) = [tool |-> "read", path |-> p]
  BY <1>1 DEF ReadsOf, Asked
<1>3. Asked(ms, i).tool = "read" /\ Asked(ms, i).path = p
  BY <1>2
<1>4. \A j : j \in Calling(ms, {"read"}, p) \/ j \in Calling(ms, Mutates, p)
                => j \in Calling(ms, {"read", "write", "delete"}, p)
  BY DEF Calling, Mutates
<1> QED
  BY <1>1, <1>2, <1>3, <1>4 DEF Asker

LEMMA CompactedTakes ==
    ASSUME NEW ms \in Seq(Message)
    PROVE  Taken(ms, Compacted(ms), Told(ms))
<1> DEFINE s == Superseded(ms)
           v == Invalidated(ms)
           us == Stubbed(ms, s, "superseded")
           ns == Stubbed(us, v, "invalidated")
<1>1. Told(ms) = s \union v /\ Told(ms) \subseteq Positions(ms, "tool")
  BY ToldIs DEF Told
<1>2. "superseded" \in Evicted /\ "invalidated" \in Evicted /\ s \subseteq Positions(ms, "tool")
  BY <1>1 DEF Evicted
<1> HIDE DEF s, v
<1>3. Taken(ms, us, s)
  BY <1>2, StubbedIs
<1> HIDE DEF us
<1>4. v \subseteq Positions(us, "tool")
  <2> SUFFICES ASSUME NEW i \in v
               PROVE  i \in Positions(us, "tool")
    OBVIOUS
  <2>1. i \in 1 .. Len(ms) /\ ms[i].role = "tool"
    BY <1>1 DEF Positions
  <2>2. us[i].role = "tool" /\ i \in DOMAIN us
    BY <1>3, <2>1 DEF Taken
  <2> QED
    BY <2>2 DEF Positions
<1>5. Taken(us, ns, v)
  <2>1. us \in Seq(Message)
    BY <1>3 DEF Taken
  <2> QED
    BY <1>2, <1>4, <2>1, StubbedIs
<1>6. Compacted(ms) = ns
  BY DEF Compacted, us, s, v
<1> HIDE DEF ns
<1>7. Taken(ms, ns, s \union v)
  BY <1>1, <1>3, <1>5 DEF Taken
<1> QED
  BY <1>1, <1>6, <1>7

\* Nothing but bodies of results changes, so that the calls and what the
\* results are of stay as they were.
LEMMA TakenKeeps ==
    ASSUME NEW ms, NEW ns, NEW ids, Taken(ms, ns, ids)
    PROVE  /\ \A role : Positions(ns, role) = Positions(ms, role)
           /\ \A i \in Positions(ms, "assistant") : ns[i] = ms[i]
           /\ \A i \in Positions(ms, "tool") : ns[i].id = ms[i].id
           /\ \A tools, p : Calling(ns, tools, p) = Calling(ms, tools, p)
           /\ Answering(ms) => \A i \in Positions(ms, "tool") : Asked(ns, i) = Asked(ms, i)
<1>1. /\ DOMAIN ns = 1 .. Len(ms) /\ DOMAIN ms = 1 .. Len(ms)
      /\ \A i \in 1 .. Len(ms) : ns[i].role = ms[i].role
      /\ \A i \in 1 .. Len(ms) : ms[i].role = "tool" => ns[i].id = ms[i].id
      /\ \A i \in 1 .. Len(ms) : ms[i].role = "assistant" => ns[i] = ms[i]
  BY DEF Taken, Positions
<1>2. \A role : Positions(ns, role) = Positions(ms, role)
  BY <1>1 DEF Positions
<1>3. /\ \A i \in Positions(ms, "assistant") : ns[i] = ms[i]
      /\ \A i \in Positions(ms, "tool") : ns[i].id = ms[i].id
  BY <1>1 DEF Positions
<1>4. \A tools, p : Calling(ns, tools, p) = Calling(ms, tools, p)
  BY <1>2, <1>3 DEF Calling
<1>5. ASSUME Answering(ms), NEW i \in Positions(ms, "tool")
      PROVE  Asked(ns, i) = Asked(ms, i)
  <2>1. ms[i].id[1] \in 1 .. i - 1 /\ ms[ms[i].id[1]].role = "assistant" /\ i \in 1 .. Len(ms)
    BY <1>1, <1>5 DEF Answering, Positions
  <2>2. ms[i].id[1] \in 1 .. Len(ms)
    BY <2>1 DEF Taken
  <2>3. ns[ms[i].id[1]] = ms[ms[i].id[1]]
    BY <1>1, <2>1, <2>2
  <2> QED
    BY <1>3, <2>3 DEF Asked
<1> QED
  BY <1>2, <1>3, <1>4, <1>5

LEMMA CompactedShape ==
    ASSUME NEW ms \in Seq(Message), Shape(ms)
    PROVE  Shape(Compacted(ms))
<1> DEFINE ns == Compacted(ms)
           ids == Told(ms)
<1>1. Taken(ms, ns, ids)
  BY CompactedTakes
<1>2. /\ Positions(ns, "tool") = Positions(ms, "tool")
      /\ Positions(ns, "assistant") = Positions(ms, "assistant")
      /\ \A i \in Positions(ms, "assistant") : ns[i] = ms[i]
      /\ \A i \in Positions(ms, "tool") : ns[i].id = ms[i].id
      /\ \A i \in Positions(ms, "tool") : Asked(ns, i) = Asked(ms, i)
  BY <1>1, TakenKeeps DEF Shape
<1>3. DOMAIN ns = DOMAIN ms /\ DOMAIN ms = 1 .. Len(ms) /\ Len(ms) \in Nat
      /\ \A i \in DOMAIN ms : ns[i].role = ms[i].role
  BY <1>1 DEF Taken, Positions
<1> HIDE DEF ns
<1>4. Answering(ns)
  <2> SUFFICES ASSUME NEW i \in Positions(ns, "tool")
               PROVE  /\ ns[i].id[1] \in 1 .. i - 1 /\ ns[ns[i].id[1]].role = "assistant"
                      /\ ns[i].id[2] \in Answerable(ns[ns[i].id[1]].calls)
                      /\ \A j \in ns[i].id[1] + 1 .. i : ns[j].role = "tool"
    BY DEF Answering
  <2>1. i \in Positions(ms, "tool") /\ i \in 1 .. Len(ms) /\ ns[i].id = ms[i].id
    BY <1>2, <1>3 DEF Positions
  <2> DEFINE a == ms[i].id[1]
  <2>2. /\ a \in 1 .. i - 1 /\ ms[a].role = "assistant" /\ ms[i].id[2] \in Answerable(ms[a].calls)
        /\ \A j \in a + 1 .. i : ms[j].role = "tool"
    BY <2>1 DEF Shape, Answering
  <2>3. a \in 1 .. Len(ms) /\ \A j \in a + 1 .. i : j \in 1 .. Len(ms)
    BY <1>3, <2>1, <2>2
  <2>4. ns[a] = ms[a]
    BY <1>2, <1>3, <2>2, <2>3 DEF Positions
  <2> QED
    BY <1>3, <2>1, <2>2, <2>3, <2>4
<1>5. Once(ns)
  BY <1>2 DEF Once, Shape
<1>6. Batches(ns)
  <2> SUFFICES ASSUME NEW a \in Positions(ms, "assistant"), ns[a].calls # <<>>
               PROVE  /\ a + 1 \in DOMAIN ns /\ ns[a + 1].role \in {"tool", "user"}
                      /\ ns[a + 1].role = "tool" =>
                            \A k \in Answerable(ns[a].calls) :
                                \E i \in Positions(ns, "tool") : ns[i].id[1] = a /\ ns[i].id[2] = k
    BY <1>2 DEF Batches
  <2>1. ns[a] = ms[a] /\ ms[a].calls # <<>>
    BY <1>2
  <2>2. /\ a + 1 \in DOMAIN ms /\ ms[a + 1].role \in {"tool", "user"}
        /\ ms[a + 1].role = "tool" =>
              \A k \in Answerable(ms[a].calls) :
                  \E i \in Positions(ms, "tool") : ms[i].id[1] = a /\ ms[i].id[2] = k
    BY <2>1 DEF Shape, Batches
  <2>3. a + 1 \in DOMAIN ns /\ ns[a + 1].role = ms[a + 1].role
    BY <1>3, <2>2
  <2>4. ASSUME ns[a + 1].role = "tool", NEW k \in Answerable(ns[a].calls)
        PROVE  \E i \in Positions(ns, "tool") : ns[i].id[1] = a /\ ns[i].id[2] = k
    <3>1. PICK i \in Positions(ms, "tool") : ms[i].id[1] = a /\ ms[i].id[2] = k
      BY <2>1, <2>2, <2>3, <2>4
    <3> QED
      BY <1>2, <3>1
  <2> QED
    BY <2>2, <2>3, <2>4
<1>7. ReadsOnly(ns)
  <2> SUFFICES ASSUME NEW i \in Positions(ns, "tool"), ns[i].body.kind \in Evicted \union {"shown"}
               PROVE  Asked(ns, i).tool = "read" /\ Asked(ns, i).path \in Paths
    BY DEF ReadsOnly
  <2>1. i \in Positions(ms, "tool") /\ i \in 1 .. Len(ms) /\ Asked(ns, i) = Asked(ms, i)
    BY <1>2, <1>3 DEF Positions
  <2>2. CASE i \in ids
    BY <2>1, <2>2, ToldIs
  <2>3. CASE i \notin ids
    <3>1. ns[i] = ms[i]
      BY <1>1, <2>1, <2>3 DEF Taken
    <3> QED
      BY <2>1, <3>1 DEF Shape, ReadsOnly
  <2> QED
    BY <2>2, <2>3
<1> QED
  BY <1>4, <1>5, <1>6, <1>7 DEF Shape, ns

-----------------------------------------------------------------------------
(* The rows of a request.                                                  *)

Row == [session : Nat, id : Nat, body : Body]

\* r has one row for every prompt message behind e, up to n.
Sent(ms, e, n, r) ==
    /\ r \in Seq(Row)
    /\ \A k \in 1 .. Len(r) :
          /\ r[k].session = session
          /\ r[k].id \in e + 1 .. n /\ ms[r[k].id].role # "assistant"
          /\ r[k].body = ms[r[k].id].body
    /\ \A i \in e + 1 .. n : ms[i].role # "assistant" => \E k \in 1 .. Len(r) : r[k].id = i
    /\ \A k, m \in 1 .. Len(r) : r[k].id = r[m].id => k = m

\* The row of the message at i.
RowAt(ms, i) == [session |-> session, id |-> i, body |-> ms[i].body]

LEMMA RowIs ==
    ASSUME session \in Nat, NEW ms \in Seq(Message), NEW i \in 1 .. Len(ms), ms[i].role # "assistant"
    PROVE  /\ RowAt(ms, i) \in Row /\ RowAt(ms, i).session = session
           /\ RowAt(ms, i).id = i /\ RowAt(ms, i).body = ms[i].body
<1>1. ms[i].body \in Body /\ i \in Nat
  BY MessageIs
<1> QED
  BY <1>1 DEF RowAt, Row

LEMMA AppendIs ==
    ASSUME NEW S, NEW s \in Seq(S), NEW x \in S
    PROVE  /\ Append(s, x) \in Seq(S) /\ Len(Append(s, x)) = Len(s) + 1
           /\ Append(s, x)[Len(s) + 1] = x
           /\ \A i \in 1 .. Len(s) : Append(s, x)[i] = s[i]
OBVIOUS

LEMMA SentStep ==
    ASSUME session \in Nat, NEW ms \in Seq(Message), NEW e \in Nat, NEW n \in Nat, e <= n, n + 1 <= Len(ms),
           NEW r, Sent(ms, e, n, r),
           NEW q, ms[n + 1].role = "assistant" => q = r,
           ms[n + 1].role # "assistant" => q = Append(r, RowAt(ms, n + 1))
    PROVE  Sent(ms, e, n + 1, q)
<1>1. r \in Seq(Row) /\ Len(r) \in Nat /\ n + 1 \in 1 .. Len(ms)
  BY DEF Sent
<1>2. \A i \in e + 1 .. n + 1 : i \in e + 1 .. n \/ i = n + 1
  OBVIOUS
<1>3. CASE ms[n + 1].role = "assistant"
  BY <1>1, <1>2, <1>3 DEF Sent
<1>4. CASE ms[n + 1].role # "assistant"
  <2> DEFINE x == RowAt(ms, n + 1)
             l == Len(r)
  <2>1. x \in Row /\ x.session = session /\ x.id = n + 1 /\ x.body = ms[n + 1].body
    BY <1>1, <1>4, RowIs
  <2> HIDE DEF x
  <2>2. q = Append(r, x)
    BY <1>4 DEF x
  <2>3. /\ Append(r, x) \in Seq(Row) /\ Len(Append(r, x)) = l + 1
        /\ Append(r, x)[l + 1] = x
        /\ \A i \in 1 .. l : Append(r, x)[i] = r[i]
    BY <1>1, <2>1
  <2> HIDE DEF l
  <2>4. q \in Seq(Row) /\ Len(q) = l + 1 /\ q[l + 1] = x /\ \A i \in 1 .. l : q[i] = r[i]
    BY <2>2, <2>3, Zenon
  <2>5. l \in Nat /\ \A k \in 1 .. l + 1 : k \in 1 .. l \/ k = l + 1
    BY <1>1 DEF l
  <2>6. \A k \in 1 .. l : /\ q[k].session = session
                          /\ q[k].id \in e + 1 .. n /\ ms[q[k].id].role # "assistant"
                          /\ q[k].body = ms[q[k].id].body
    BY <2>4 DEF Sent, l
  <2>7. \A k \in 1 .. l + 1 : /\ q[k].session = session
                              /\ q[k].id \in e + 1 .. n + 1 /\ ms[q[k].id].role # "assistant"
                              /\ q[k].body = ms[q[k].id].body
    <3> SUFFICES ASSUME NEW k \in 1 .. l + 1
                 PROVE  /\ q[k].session = session
                        /\ q[k].id \in e + 1 .. n + 1 /\ ms[q[k].id].role # "assistant"
                        /\ q[k].body = ms[q[k].id].body
      OBVIOUS
    <3>1. CASE k \in 1 .. l
      BY <2>6, <3>1
    <3>2. CASE k = l + 1
      BY <1>4, <2>1, <2>4, <3>2
    <3> QED
      BY <2>5, <3>1, <3>2
  <2>8. ASSUME NEW i \in e + 1 .. n + 1, ms[i].role # "assistant"
        PROVE  \E k \in 1 .. l + 1 : q[k].id = i
    <3>1. CASE i \in e + 1 .. n
      <4>1. PICK k \in 1 .. l : r[k].id = i
        BY <2>8, <3>1 DEF Sent, l
      <4> QED
        BY <2>4, <2>5, <4>1
    <3>2. CASE i = n + 1
      BY <2>1, <2>4, <2>5, <3>2
    <3> QED
      BY <1>2, <3>1, <3>2
  <2>9. ASSUME NEW k \in 1 .. l + 1, NEW m \in 1 .. l + 1, q[k].id = q[m].id
        PROVE  k = m
    <3>1. CASE k \in 1 .. l /\ m \in 1 .. l
      BY <2>4, <2>9, <3>1 DEF Sent, l
    <3>2. CASE k = l + 1 /\ m \in 1 .. l
      BY <2>1, <2>4, <2>6, <2>9, <3>2
    <3>3. CASE m = l + 1 /\ k \in 1 .. l
      BY <2>1, <2>4, <2>6, <2>9, <3>3
    <3> QED
      BY <2>5, <3>1, <3>2, <3>3
  <2> QED
    BY <2>4, <2>7, <2>8, <2>9 DEF Sent
<1> QED
  BY <1>3, <1>4

LEMMA RowsAreSent ==
    ASSUME session \in Nat, NEW ms \in Seq(Message), emitted \in 0 .. Len(ms)
    PROVE  Sent(ms, emitted, Len(ms), RowsOf(ms))
<1> DEFINE n == Len(ms)
           e == emitted
           body(f) == [i \in e .. n |->
                         IF i = e THEN <<>>
                         ELSE IF ms[i].role = "assistant" THEN f[i - 1] ELSE Append(f[i - 1], RowAt(ms, i))]
           F == [x \in Seq(Row) \X Nat |->
                    IF x[2] \in 1 .. n /\ ms[x[2]].role # "assistant" THEN Append(x[1], RowAt(ms, x[2])) ELSE x[1]]
<1>1. e \in Nat /\ n \in Nat /\ e <= n
  OBVIOUS
<1>2. Step(Seq(Row), F)
  <2>1. ASSUME NEW x \in Seq(Row) \X Nat PROVE F[x] \in Seq(Row)
    <3>1. x[1] \in Seq(Row)
      OBVIOUS
    <3>2. CASE x[2] \in 1 .. n /\ ms[x[2]].role # "assistant"
      <4>1. RowAt(ms, x[2]) \in Row
        BY <3>2, RowIs
      <4>2. Append(x[1], RowAt(ms, x[2])) \in Seq(Row)
        BY <3>1, <4>1, AppendIs
      <4> QED
        BY <3>2, <4>2
    <3> QED
      BY <3>1, <3>2
  <2> QED
    BY <2>1 DEF Step
<1>3. PICK f \in [e .. n -> Seq(Row)] : f[e] = <<>> /\ \A i \in e .. n : i # e => f[i] = F[<<f[i - 1], i>>]
  <2>1. <<>> \in Seq(Row)
    OBVIOUS
  <2> HIDE DEF n, e, F
  <2>2. Iterates(Seq(Row), F, <<>>, e, n)
    BY <1>1, <1>2, <2>1, Recursion
  <2> QED
    BY <2>2 DEF Iterates
<1>4. ASSUME NEW i \in e .. n, i # e
      PROVE  /\ i - 1 \in e .. n /\ i \in 1 .. n
             /\ ms[i].role = "assistant" => f[i] = f[i - 1]
             /\ ms[i].role # "assistant" => f[i] = Append(f[i - 1], RowAt(ms, i))
  <2>1. i - 1 \in e .. n /\ i \in 1 .. n /\ i \in Nat
    BY <1>1, <1>4
  <2>2. f[i - 1] \in Seq(Row) /\ f[i] = F[<<f[i - 1], i>>]
    BY <1>3, <1>4, <2>1
  <2> QED
    BY <2>1, <2>2
<1>5. f = body(f)
  <2>1. \A i \in e .. n : f[i] = body(f)[i]
    BY <1>3, <1>4
  <2> QED
    BY <1>3, <2>1
<1> DEFINE g == CHOOSE h : h = body(h)
<1>6. g = body(g)
  <2> HIDE DEF body
  <2> QED
    BY <1>5
<1>7. RowsOf(ms) = g[n]
  BY DEF RowsOf, RowAt
<1> HIDE DEF g, n, e
<1>8. /\ g[e] = <<>>
      /\ \A i \in e .. n : i # e => /\ ms[i].role = "assistant" => g[i] = g[i - 1]
                                    /\ ms[i].role # "assistant" => g[i] = Append(g[i - 1], RowAt(ms, i))
  <2>1. \A i \in e .. n : g[i] = IF i = e THEN <<>>
                                 ELSE IF ms[i].role = "assistant" THEN g[i - 1]
                                 ELSE Append(g[i - 1], RowAt(ms, i))
    BY <1>6
  <2>2. e \in e .. n
    BY <1>1
  <2> QED
    BY <2>1, <2>2
<1> DEFINE H == {i \in e .. n : Sent(ms, e, i, g[i])}
<1>9. e \in H
  <2>1. e \in e .. n /\ e + 1 .. e = {} /\ <<>> \in Seq(Row) /\ 1 .. Len(<<>>) = {}
    BY <1>1
  <2> QED
    BY <1>8, <2>1 DEF Sent
<1>10. ASSUME NEW i \in e .. n, i \in H, i < n
       PROVE  i + 1 \in H
  <2>1. i + 1 \in e .. n /\ i + 1 # e /\ (i + 1) - 1 = i /\ i \in Nat /\ e <= i /\ i + 1 <= n
    BY <1>1, <1>10
  <2>2. Sent(ms, e, i + 1, g[i + 1])
    <3>1. /\ ms[i + 1].role = "assistant" => g[i + 1] = g[i]
          /\ ms[i + 1].role # "assistant" => g[i + 1] = Append(g[i], RowAt(ms, i + 1))
      BY <1>8, <2>1
    <3>2. i + 1 <= Len(ms)
      BY <2>1 DEF n
    <3> QED
      BY <1>1, <1>10, <2>1, <3>1, <3>2, SentStep
  <2> QED
    BY <2>1, <2>2
<1>11. n \in H
  <2>1. n \in e .. n
    BY <1>1
  <2> HIDE DEF H
  <2> QED
    BY <1>1, <1>9, <1>10, <2>1, Climbs
<1>12. Sent(ms, e, n, g[n])
  BY <1>11
<1> QED
  BY <1>7, <1>12 DEF e, n

-----------------------------------------------------------------------------
(* The turns on the wire.                                                  *)

CallIds == Nat \X Nat
Turn == [role : {"user", "assistant", "results"}, from : Nat, ids : Seq(CallIds)]

\* Turn t is the messages up to e.
Covers(ms, t, e) ==
    /\ t.from \in 1 .. e
    /\ t.role # "results" => t.from = e /\ ms[e].role = t.role /\ ms[e].role # "tool"
    /\ t.role = "results" =>
          /\ Len(t.ids) = e - t.from + 1
          /\ \A j \in t.from .. e : ms[j].role = "tool" /\ t.ids[j - t.from + 1] = ms[j].id

\* The turns ts are the first n messages, batches as large as they can be.
Grouped(ms, n, ts) ==
    /\ ts \in Seq(Turn)
    /\ n > 0 => Len(ts) > 0
    /\ \A k \in 1 .. Len(ts) : ts[k].from \in 1 .. n
    /\ Len(ts) > 0 => ts[1].from = 1 /\ Covers(ms, ts[Len(ts)], n)
    /\ \A k \in 1 .. Len(ts) - 1 : /\ Covers(ms, ts[k], ts[k + 1].from - 1)
                                   /\ ~ (ts[k].role = "results" /\ ts[k + 1].role = "results")

LEMMA TurnAppended ==
    ASSUME NEW ms, NEW n \in Nat, NEW ts, Grouped(ms, n, ts), NEW x \in Turn, x.from = n + 1,
           Covers(ms, x, n + 1), x.role = "results" /\ Len(ts) > 0 => ts[Len(ts)].role # "results"
    PROVE  Grouped(ms, n + 1, Append(ts, x))
<1> DEFINE l == Len(ts)
           us == Append(ts, x)
<1>1. ts \in Seq(Turn) /\ l \in Nat
  BY DEF Grouped
<1>2. us \in Seq(Turn) /\ Len(us) = l + 1 /\ us[l + 1] = x /\ \A k \in 1 .. l : us[k] = ts[k]
  BY <1>1, AppendIs
<1>3. l = 0 => n = 0
  BY DEF Grouped
<1> HIDE DEF us, l
<1>4. us[1].from = 1
  <2>1. CASE l = 0
    BY <1>2, <1>3, <2>1
  <2>2. CASE l > 0
    <3>1. us[1] = ts[1]
      BY <1>1, <1>2, <2>2
    <3> QED
      BY <2>2, <3>1 DEF Grouped, l
  <2> QED
    BY <1>1, <2>1, <2>2
<1>5. ASSUME NEW k \in 1 .. Len(us) - 1
      PROVE  /\ Covers(ms, us[k], us[k + 1].from - 1)
             /\ ~ (us[k].role = "results" /\ us[k + 1].role = "results")
  <2>1. CASE k < l
    <3>1. us[k] = ts[k] /\ us[k + 1] = ts[k + 1] /\ k \in 1 .. l - 1
      BY <1>1, <1>2, <2>1
    <3> QED
      BY <3>1 DEF Grouped, l
  <2>2. CASE k = l
    <3>1. us[k] = ts[l] /\ us[k + 1] = x /\ l > 0
      BY <1>1, <1>2, <2>2
    <3>2. us[k + 1].from - 1 = n
      BY <3>1
    <3>3. Covers(ms, ts[l], n)
      BY <3>1 DEF Grouped, l
    <3> QED
      BY <3>1, <3>2, <3>3 DEF l
  <2> QED
    BY <1>1, <1>2, <2>1, <2>2
<1>6. Len(us) > 0 /\ us[Len(us)] = x
  BY <1>1, <1>2
<1>7. ASSUME NEW k \in 1 .. Len(us)
      PROVE  us[k].from \in 1 .. n + 1
  <2>1. CASE k \in 1 .. l
    <3>1. us[k] = ts[k] /\ ts[k].from \in 1 .. n
      BY <1>2, <2>1 DEF Grouped, l
    <3> QED
      BY <3>1
  <2>2. CASE k = l + 1
    BY <1>2, <2>2
  <2> QED
    BY <1>1, <1>2, <2>1, <2>2
<1> QED
  BY <1>2, <1>4, <1>5, <1>6, <1>7 DEF Grouped, us

LEMMA IdsGrown ==
    ASSUME NEW r \in Seq(CallIds), NEW x \in CallIds, NEW n \in Nat, NEW from \in 1 .. n, Len(r) = n - from + 1
    PROVE  /\ Len(Append(r, x)) = (n + 1) - from + 1
           /\ \A j \in from .. n : Append(r, x)[j - from + 1] = r[j - from + 1]
           /\ Append(r, x)[(n + 1) - from + 1] = x
<1>1. Len(r) \in Nat /\ from \in Nat
  OBVIOUS
<1>2. /\ Len(Append(r, x)) = Len(r) + 1
      /\ Append(r, x)[Len(r) + 1] = x
      /\ \A i \in 1 .. Len(r) : Append(r, x)[i] = r[i]
  OBVIOUS
<1>3. \A j \in from .. n : j - from + 1 \in 1 .. Len(r)
  OBVIOUS
<1>4. (n + 1) - from + 1 = Len(r) + 1
  OBVIOUS
<1> QED
  BY <1>2, <1>3, <1>4

LEMMA CoversGrown ==
    ASSUME NEW ms, NEW n \in Nat, NEW t \in Turn, NEW u \in Turn, NEW id \in CallIds,
           Covers(ms, t, n), t.role = "results", u.role = "results", u.from = t.from,
           ms[n + 1].role = "tool", ms[n + 1].id = id, u.ids = Append(t.ids, id)
    PROVE  Covers(ms, u, n + 1)
<1>1. /\ t.from \in 1 .. n /\ Len(t.ids) = n - t.from + 1
      /\ \A j \in t.from .. n : ms[j].role = "tool" /\ t.ids[j - t.from + 1] = ms[j].id
  BY DEF Covers
<1>2. t.ids \in Seq(CallIds)
  BY DEF Turn
<1>3. PICK from \in 1 .. n, r \in Seq(CallIds) : from = t.from /\ r = t.ids
  BY <1>1, <1>2
<1>4. Len(r) = n - from + 1
  BY <1>1, <1>3
<1>5. /\ Len(Append(r, id)) = (n + 1) - from + 1
      /\ \A j \in from .. n : Append(r, id)[j - from + 1] = r[j - from + 1]
      /\ Append(r, id)[(n + 1) - from + 1] = id
  BY <1>4, IdsGrown
<1>6. \A j \in from .. n + 1 : ms[j].role = "tool" /\ Append(r, id)[j - from + 1] = ms[j].id
  <2>1. \A j \in from .. n + 1 : j \in from .. n \/ j = n + 1
    OBVIOUS
  <2> QED
    BY <1>1, <1>3, <1>5, <2>1
<1>7. from \in 1 .. n + 1
  OBVIOUS
<1>8. /\ u.from = from /\ u.role = "results" /\ Len(u.ids) = (n + 1) - from + 1
      /\ \A j \in from .. n + 1 : ms[j].role = "tool" /\ u.ids[j - from + 1] = ms[j].id
  BY <1>3, <1>5, <1>6, Zenon
<1> QED
  BY <1>7, <1>8, Zenon DEF Covers

LEMMA TurnGrown ==
    ASSUME NEW ms, NEW n \in Nat, NEW ts, Grouped(ms, n, ts), Len(ts) > 0,
           NEW id \in CallIds, ms[n + 1].role = "tool", ms[n + 1].id = id,
           ts[Len(ts)].role = "results",
           NEW us \in Seq(Turn), Len(us) = Len(ts), \A k \in 1 .. Len(ts) - 1 : us[k] = ts[k],
           us[Len(ts)].role = "results", us[Len(ts)].from = ts[Len(ts)].from,
           us[Len(ts)].ids = Append(ts[Len(ts)].ids, id)
    PROVE  Grouped(ms, n + 1, us)
<1> DEFINE l == Len(ts)
           t == ts[l]
           u == us[l]
<1>1. ts \in Seq(Turn) /\ l \in Nat /\ l > 0
  BY DEF Grouped
<1>2. t \in Turn /\ u \in Turn /\ l \in 1 .. l
  BY <1>1
<1>3. t.ids \in Seq(CallIds) /\ t.from \in Nat
  BY <1>2 DEF Turn
<1>4. Covers(ms, t, n)
  BY <1>1 DEF Grouped
<1>5. u.role = "results" /\ u.from = t.from /\ u.ids = Append(t.ids, id) /\ t.role = "results"
  OBVIOUS
<1>6. Covers(ms, u, n + 1)
  <2> HIDE DEF t, u
  <2> QED
    BY <1>2, <1>4, <1>5, CoversGrown
<1> HIDE DEF l, t, u
<1>7. us[1].from = 1
  <2>1. ts[1].from = 1
    BY <1>1 DEF Grouped, l
  <2>2. CASE l = 1
    BY <1>5, <2>1, <2>2 DEF t, u
  <2>3. CASE l > 1
    <3>1. 1 \in 1 .. l - 1
      BY <1>1, <2>3
    <3> QED
      BY <2>1, <3>1 DEF l
  <2> QED
    BY <1>1, <2>2, <2>3
<1>8. ASSUME NEW k \in 1 .. l - 1
      PROVE  /\ Covers(ms, us[k], us[k + 1].from - 1)
             /\ ~ (us[k].role = "results" /\ us[k + 1].role = "results")
  <2>1. us[k] = ts[k] /\ k + 1 \in 1 .. l
    BY <1>1 DEF l
  <2>2. us[k + 1].from = ts[k + 1].from /\ us[k + 1].role = ts[k + 1].role
    <3>1. CASE k + 1 = l
      BY <1>5, <3>1 DEF t, u
    <3>2. CASE k + 1 \in 1 .. l - 1
      BY <3>2 DEF l
    <3> QED
      BY <1>1, <2>1, <3>1, <3>2
  <2>3. /\ Covers(ms, ts[k], ts[k + 1].from - 1)
        /\ ~ (ts[k].role = "results" /\ ts[k + 1].role = "results")
    BY DEF Grouped, l
  <2> QED
    BY <2>1, <2>2, <2>3
<1>9. Len(us) = l /\ us[Len(us)] = u
  BY DEF l, u
<1>10. ASSUME NEW k \in 1 .. l
       PROVE  us[k].from \in 1 .. n + 1
  <2>1. ts[k].from \in 1 .. n
    BY DEF Grouped, l
  <2>2. us[k].from = ts[k].from
    <3>1. CASE k = l
      BY <1>5, <3>1 DEF t, u
    <3>2. CASE k \in 1 .. l - 1
      BY <3>2 DEF l
    <3> QED
      BY <1>1, <3>1, <3>2
  <2> QED
    BY <2>1, <2>2
<1> QED
  BY <1>1, <1>6, <1>7, <1>8, <1>9, <1>10 DEF Grouped

LEMMA FrontIs ==
    ASSUME NEW S, NEW s \in Seq(S), NEW l \in Nat, l + 1 = Len(s)
    PROVE  /\ SubSeq(s, 1, l) \in Seq(S) /\ Len(SubSeq(s, 1, l)) = l
           /\ \A k \in 1 .. l : SubSeq(s, 1, l)[k] = s[k]
OBVIOUS

LEMMA WithIds ==
    ASSUME NEW t \in Turn, NEW x
    PROVE  [t EXCEPT !.ids = x] = [role |-> t.role, from |-> t.from, ids |-> x]
BY DEF Turn

LEMMA GroupedStep ==
    ASSUME NEW ms \in Seq(Message), NEW n \in Nat, n + 1 <= Len(ms), NEW ts, Grouped(ms, n, ts)
    PROVE  Grouped(ms, n + 1, AddTurn(ms, ts, n + 1))
<1> DEFINE m == ms[n + 1]
           turn(role, ids) == [role |-> role, from |-> n + 1, ids |-> ids]
<1>1. ts \in Seq(Turn) /\ Len(ts) \in Nat /\ m \in Message
  BY DEF Grouped
<1>2. ASSUME NEW x \in Turn, x.from = n + 1, Covers(ms, x, n + 1), AddTurn(ms, ts, n + 1) = Append(ts, x),
             x.role = "results" /\ Len(ts) > 0 => ts[Len(ts)].role # "results"
      PROVE  Grouped(ms, n + 1, AddTurn(ms, ts, n + 1))
  BY <1>2, TurnAppended
<1>3. CASE m.role # "tool"
  <2> DEFINE x == turn(m.role, <<>>)
  <2>1. AddTurn(ms, ts, n + 1) = Append(ts, x)
    BY <1>3 DEF AddTurn
  <2>2. m.role \in {"user", "assistant"}
    BY <1>1, <1>3, MessageIs
  <2>3. x \in Turn /\ x.from = n + 1 /\ x.role = m.role
    BY <2>2 DEF Turn
  <2>4. n + 1 \in 1 .. n + 1
    OBVIOUS
  <2> HIDE DEF x
  <2>5. Covers(ms, x, n + 1)
    BY <1>3, <2>2, <2>3, <2>4 DEF Covers
  <2> QED
    BY <1>2, <2>1, <2>2, <2>3, <2>5
<1>4. CASE m.role = "tool" /\ ~ (ts # <<>> /\ Last(ts).role = "results")
  <2> DEFINE x == turn("results", <<m.id>>)
  <2>1. AddTurn(ms, ts, n + 1) = Append(ts, x)
    BY <1>4 DEF AddTurn
  <2>2. m.id \in CallIds
    BY <1>1, <1>4, MessageIs DEF CallIds
  <2>3. <<m.id>> \in Seq(CallIds) /\ Len(<<m.id>>) = 1 /\ <<m.id>>[1] = m.id
    BY <2>2
  <2>4. x \in Turn /\ x.from = n + 1 /\ x.role = "results" /\ x.ids = <<m.id>>
    BY <2>3 DEF Turn
  <2>5. n + 1 \in 1 .. n + 1 /\ \A j \in n + 1 .. n + 1 : j = n + 1 /\ j - (n + 1) + 1 = 1
    OBVIOUS
  <2> HIDE DEF x
  <2>6. Covers(ms, x, n + 1)
    BY <1>4, <2>3, <2>4, <2>5 DEF Covers
  <2>7. Len(ts) > 0 => ts[Len(ts)].role # "results"
    BY <1>1, <1>4 DEF Last
  <2> QED
    BY <1>2, <2>1, <2>4, <2>6, <2>7
<1>5. CASE m.role = "tool" /\ ts # <<>> /\ Last(ts).role = "results"
  <2> DEFINE l == Len(ts)
             t == ts[l]
             y == [t EXCEPT !.ids = Append(@, m.id)]
             front == SubSeq(ts, 1, l - 1)
             us == front \o <<y>>
  <2>1. l \in Nat /\ l > 0 /\ t \in Turn /\ t.role = "results"
    BY <1>1, <1>5 DEF Last
  <2>2. AddTurn(ms, ts, n + 1) = us
    BY <1>5 DEF AddTurn, Last, Front
  <2>3. m.id \in CallIds
    BY <1>1, <1>5, MessageIs DEF CallIds
  <2>4. y = [role |-> t.role, from |-> t.from, ids |-> Append(t.ids, m.id)]
    <3> HIDE DEF t
    <3>1. y = [t EXCEPT !.ids = Append(t.ids, m.id)]
      BY Zenon
    <3> QED
      BY <2>1, <3>1, WithIds, Zenon
  <2>5. t.ids \in Seq(CallIds) /\ t.from \in Nat
    BY <2>1 DEF Turn
  <2>6. Append(t.ids, m.id) \in Seq(CallIds)
    <3> DEFINE r == t.ids
               id == m.id
    <3>1. r \in Seq(CallIds) /\ id \in CallIds
      BY <2>3, <2>5
    <3> HIDE DEF r, id
    <3>2. Append(r, id) \in Seq(CallIds)
      BY <3>1
    <3> QED
      BY <3>2 DEF r, id
  <2> HIDE DEF t, y, m
  <2>7. y \in Turn /\ y.role = "results" /\ y.from = t.from /\ y.ids = Append(t.ids, m.id)
    BY <2>1, <2>4, <2>5, <2>6 DEF Turn
  <2>8. front \in Seq(Turn) /\ Len(front) = l - 1 /\ \A k \in 1 .. l - 1 : front[k] = ts[k]
    <3>1. l - 1 \in Nat /\ (l - 1) + 1 = Len(ts)
      BY <2>1
    <3> QED
      BY <1>1, <3>1, FrontIs
  <2> HIDE DEF front
  <2>9. us \in Seq(Turn) /\ Len(us) = l /\ us[l] = y /\ \A k \in 1 .. l - 1 : us[k] = ts[k]
    BY <2>1, <2>7, <2>8
  <2> HIDE DEF us
  <2>10. Grouped(ms, n + 1, us)
    BY <1>5, <2>1, <2>3, <2>7, <2>9, TurnGrown DEF l, t, m
  <2> QED
    BY <2>2, <2>10
<1> QED
  BY <1>3, <1>4, <1>5

LEMMA NothingGrouped == \A ms : Grouped(ms, 0, <<>>)
<1>1. <<>> \in Seq(Turn) /\ Len(<<>>) = 0 /\ 1 .. 0 - 1 = {}
  OBVIOUS
<1> QED
  BY <1>1 DEF Grouped

LEMMA ConversationIs ==
    ASSUME NEW ms \in Seq(Message)
    PROVE  Grouped(ms, Len(ms), Conversation(ms))
<1> DEFINE n == Len(ms)
           body(f) == [i \in 0 .. n |-> IF i = 0 THEN <<>> ELSE AddTurn(ms, f[i - 1], i)]
           F == [x \in Seq(Turn) \X Nat |->
                    IF AddTurn(ms, x[1], x[2]) \in Seq(Turn) THEN AddTurn(ms, x[1], x[2]) ELSE x[1]]
<1>1. n \in Nat /\ 0 <= n /\ 0 \in 0 .. n
  OBVIOUS
<1>2. Step(Seq(Turn), F)
  BY DEF Step
<1>3. PICK f \in [0 .. n -> Seq(Turn)] : f[0] = <<>> /\ \A i \in 0 .. n : i # 0 => f[i] = F[<<f[i - 1], i>>]
  <2>1. <<>> \in Seq(Turn) /\ 0 \in Nat
    OBVIOUS
  <2> HIDE DEF n, F
  <2>2. Iterates(Seq(Turn), F, <<>>, 0, n)
    BY <1>1, <1>2, <2>1, Recursion
  <2> QED
    BY <2>2 DEF Iterates
<1>4. ASSUME NEW i \in 0 .. n, i # 0, Grouped(ms, i - 1, f[i - 1])
      PROVE  f[i] = AddTurn(ms, f[i - 1], i) /\ Grouped(ms, i, f[i])
  <2>1. i - 1 \in 0 .. n /\ i - 1 \in Nat /\ (i - 1) + 1 = i /\ i <= Len(ms) /\ i \in Nat
    BY <1>4
  <2>2. Grouped(ms, i, AddTurn(ms, f[i - 1], i))
    <3>1. Grouped(ms, (i - 1) + 1, AddTurn(ms, f[i - 1], (i - 1) + 1))
      BY <1>4, <2>1, GroupedStep
    <3> QED
      BY <2>1, <3>1
  <2>3. AddTurn(ms, f[i - 1], i) \in Seq(Turn) /\ f[i - 1] \in Seq(Turn)
    BY <2>1, <2>2 DEF Grouped
  <2>4. f[i] = F[<<f[i - 1], i>>]
    BY <1>3, <1>4
  <2>5. f[i] = AddTurn(ms, f[i - 1], i)
    BY <2>1, <2>3, <2>4
  <2> QED
    BY <2>2, <2>5
<1> HIDE DEF n, F
<1> DEFINE G == {i \in 0 .. n : Grouped(ms, i, f[i])}
<1>5. 0 .. n \subseteq G
  <2>1. 0 \in G
    BY <1>1, <1>3, NothingGrouped
  <2>2. ASSUME NEW i \in 0 .. n, i \in G, i < n
        PROVE  i + 1 \in G
    <3>1. i + 1 \in 0 .. n /\ i + 1 # 0 /\ (i + 1) - 1 = i
      BY <1>1, <2>2
    <3> QED
      BY <1>4, <2>2, <3>1
  <2> HIDE DEF G
  <2> QED
    BY <1>1, <2>1, <2>2, Climbs
<1>6. \A i \in 0 .. n : i # 0 => f[i] = AddTurn(ms, f[i - 1], i)
  <2>1. \A i \in 0 .. n : i # 0 => i - 1 \in 0 .. n
    BY <1>1
  <2> QED
    BY <1>4, <1>5, <2>1
<1>7. f = body(f)
  <2>1. \A i \in 0 .. n : f[i] = body(f)[i]
    BY <1>3, <1>6
  <2> QED
    BY <1>3, <2>1
<1> DEFINE g == CHOOSE h : h = body(h)
<1>8. g = body(g)
  <2> HIDE DEF body
  <2> QED
    BY <1>7
<1>9. Conversation(ms) = g[n]
  BY DEF Conversation, n
<1> HIDE DEF g
<1>10. \A i \in 0 .. n : g[i] = IF i = 0 THEN <<>> ELSE AddTurn(ms, g[i - 1], i)
  BY <1>8
<1> DEFINE H == {i \in 0 .. n : g[i] = f[i]}
<1>11. 0 .. n \subseteq H
  <2>1. 0 \in H
    BY <1>1, <1>3, <1>10
  <2>2. ASSUME NEW i \in 0 .. n, i \in H, i < n
        PROVE  i + 1 \in H
    <3>1. i + 1 \in 0 .. n /\ i + 1 # 0 /\ (i + 1) - 1 = i
      BY <1>1, <2>2
    <3>2. g[i + 1] = AddTurn(ms, g[i], i + 1) /\ f[i + 1] = AddTurn(ms, f[i], i + 1)
      BY <1>6, <1>10, <3>1
    <3> QED
      BY <2>2, <3>1, <3>2
  <2> HIDE DEF H
  <2> QED
    BY <1>1, <2>1, <2>2, Climbs
<1>12. n \in 0 .. n
  BY <1>1
<1> QED
  BY <1>5, <1>9, <1>11, <1>12 DEF n

\* The i-th turn ends where the next begins, and begins with its own message.
Ends(ms, n, ts, i) ==
    \E e \in 1 .. n : /\ Covers(ms, ts[i], e)
                      /\ i = Len(ts) => e = n
                      /\ i # Len(ts) => e + 1 = ts[i + 1].from /\ e + 1 <= n
Begins(ms, n, ts, i) ==
    /\ ts[i].from \in 1 .. n
    /\ ts[i].role # "results" => ms[ts[i].from].role = ts[i].role /\ ts[i].role # "tool"

LEMMA EndIs ==
    ASSUME NEW ms, NEW n \in Nat, NEW ts, Grouped(ms, n, ts), NEW i \in 1 .. Len(ts)
    PROVE  Ends(ms, n, ts, i)
<1>1. ts \in Seq(Turn) /\ Len(ts) \in Nat
  BY DEF Grouped
<1>2. CASE i = Len(ts)
  <2>1. Covers(ms, ts[i], n)
    BY <1>1, <1>2 DEF Grouped
  <2>2. n \in 1 .. n
    BY <2>1 DEF Covers
  <2> QED
    BY <1>2, <2>1, <2>2 DEF Ends
<1>3. CASE i # Len(ts)
  <2> DEFINE from == ts[i + 1].from
  <2>1. i \in 1 .. Len(ts) - 1 /\ i + 1 \in 1 .. Len(ts)
    BY <1>1, <1>3
  <2>2. Covers(ms, ts[i], from - 1) /\ from \in 1 .. n
    BY <2>1 DEF Grouped
  <2>3. ts[i].from \in 1 .. from - 1
    BY <2>2 DEF Covers
  <2> HIDE DEF from
  <2>4. from - 1 \in 1 .. n /\ (from - 1) + 1 = from /\ from <= n
    BY <2>2, <2>3
  <2> QED
    BY <1>3, <2>2, <2>4 DEF Ends, from
<1> QED
  BY <1>2, <1>3

LEMMA RoleIs ==
    ASSUME NEW ms, NEW n \in Nat, NEW ts, Grouped(ms, n, ts), NEW i \in 1 .. Len(ts)
    PROVE  Begins(ms, n, ts, i)
<1>1. PICK e \in 1 .. n : Covers(ms, ts[i], e)
  BY EndIs DEF Ends
<1> QED
  BY <1>1 DEF Covers, Grouped, Begins

\* A batch answers the turn before it.
LEMMA BatchAnswers ==
    ASSUME NEW ms \in Seq(Message), Shape(ms), NEW ts, Grouped(ms, Len(ms), ts),
           NEW i \in 1 .. Len(ts), ts[i].role = "results"
    PROVE  /\ i > 1 /\ ts[i - 1].role = "assistant"
           /\ IsInjective(ts[i].ids)
           /\ ToSet(ts[i].ids) =
                 {<<ts[i - 1].from, k>> : k \in Answerable(ms[ts[i - 1].from].calls)}
<1> DEFINE n == Len(ms)
           from == ts[i].from
<1>1. ts \in Seq(Turn) /\ Len(ts) \in Nat /\ n \in Nat /\ DOMAIN ms = 1 .. n
  BY DEF Grouped
<1>2. PICK e \in 1 .. n : /\ Covers(ms, ts[i], e)
                          /\ i = Len(ts) => e = n
                          /\ i # Len(ts) => e + 1 = ts[i + 1].from /\ e + 1 <= n
  <2>1. Ends(ms, n, ts, i)
    BY <1>1, EndIs
  <2> QED
    BY <2>1 DEF Ends
<1>3. e # n => e + 1 \in 1 .. n /\ ms[e + 1].role # "tool"
  <2> SUFFICES ASSUME e # n PROVE e + 1 \in 1 .. n /\ ms[e + 1].role # "tool"
    OBVIOUS
  <2>1. i \in 1 .. Len(ts) - 1 /\ i + 1 \in 1 .. Len(ts) /\ e + 1 = ts[i + 1].from
    <3> DEFINE l == Len(ts)
    <3>1. i \in 1 .. l /\ l \in Nat /\ i # l /\ e + 1 = ts[i + 1].from
      BY <1>1, <1>2
    <3> HIDE DEF l
    <3>2. i \in 1 .. l - 1 /\ i + 1 \in 1 .. l
      BY <3>1
    <3> QED
      BY <3>1, <3>2 DEF l
  <2>2. ts[i + 1].role # "results"
    BY <2>1 DEF Grouped
  <2>3. Begins(ms, n, ts, i + 1)
    BY <1>1, <2>1, RoleIs
  <2> QED
    BY <2>1, <2>2, <2>3 DEF Begins
<1>4. /\ from \in 1 .. e /\ Len(ts[i].ids) = e - from + 1
      /\ \A j \in from .. e : ms[j].role = "tool" /\ ts[i].ids[j - from + 1] = ms[j].id
  BY <1>2 DEF Covers
<1> HIDE DEF n, from
\* The message that the first result answers ends the turn before.
<1> DEFINE a == ms[from].id[1]
<1>5. /\ a \in 1 .. from - 1 /\ ms[a].role = "assistant" /\ \A j \in a + 1 .. from : ms[j].role = "tool"
      /\ ms[from].id[2] \in Answerable(ms[a].calls)
  <2>1. from \in Positions(ms, "tool")
    BY <1>1, <1>2, <1>4 DEF Positions
  <2> QED
    BY <2>1 DEF Shape, Answering
<1> HIDE DEF a
<1>6. i > 1 /\ i - 1 \in 1 .. Len(ts) - 1 /\ i - 1 \in 1 .. Len(ts) /\ (i - 1) + 1 = i
  <2>1. i # 1
    BY <1>1, <1>4, <1>5 DEF Grouped, from
  <2> QED
    BY <1>1, <2>1
<1>7. Covers(ms, ts[i - 1], from - 1) /\ ts[i - 1].role # "results"
  BY <1>6 DEF Grouped, from
<1>8. ts[i - 1].from = from - 1 /\ ms[from - 1].role = ts[i - 1].role /\ ms[from - 1].role # "tool"
  BY <1>7 DEF Covers
<1>9. a = from - 1
  <2>1. from - 1 \in a + 1 .. from \/ from - 1 = a
    BY <1>4, <1>5
  <2> QED
    BY <1>5, <1>8, <2>1
<1>10. ts[i - 1].role = "assistant" /\ ts[i - 1].from = a
  BY <1>5, <1>8, <1>9
\* Each result of the batch is of that message.
<1>11. ASSUME NEW j \in from .. e
       PROVE  /\ j \in Positions(ms, "tool") /\ ms[j].id = <<a, ms[j].id[2]>>
              /\ ms[j].id[2] \in Answerable(ms[a].calls)
  <2>1. j \in Positions(ms, "tool") /\ j \in 1 .. n /\ ms[j].role = "tool"
    BY <1>1, <1>2, <1>4 DEF Positions
  <2> DEFINE b == ms[j].id[1]
  <2>2. /\ b \in 1 .. j - 1 /\ ms[b].role = "assistant" /\ ms[j].id[2] \in Answerable(ms[b].calls)
        /\ \A k \in b + 1 .. j : ms[k].role = "tool"
    BY <2>1 DEF Shape, Answering
  <2> HIDE DEF b
  <2>3. b = a
    <3>1. ~ (b < a)
      <4>1. b < a => a \in b + 1 .. j
        BY <1>4, <1>9, <2>2
      <4> QED
        BY <1>5, <2>2, <4>1
    <3>2. ~ (b > a)
      <4>1. b > a => b \in from .. e
        BY <1>4, <1>9, <2>2
      <4> QED
        BY <1>4, <2>2, <4>1
    <3> QED
      BY <1>4, <1>9, <2>2, <3>1, <3>2
  <2>4. ms[j].id \in Nat \X Nat
    BY <1>1, <2>1, MessageIs DEF n
  <2> QED
    BY <2>1, <2>2, <2>3, <2>4 DEF b
<1>12. DOMAIN ts[i].ids = 1 .. e - from + 1
  <2>1. ts[i] \in Turn
    BY <1>1
  <2>2. ts[i].ids \in Seq(CallIds)
    BY <2>1 DEF Turn
  <2> QED
    BY <1>4, <2>2
<1>13. \A x \in DOMAIN ts[i].ids : x + from - 1 \in from .. e /\ ts[i].ids[x] = ms[x + from - 1].id
  <2>1. \A x \in 1 .. e - from + 1 : x + from - 1 \in from .. e /\ (x + from - 1) - from + 1 = x
    BY <1>4
  <2> QED
    BY <1>4, <1>12, <2>1
<1>14. IsInjective(ts[i].ids)
  <2> SUFFICES ASSUME NEW x \in DOMAIN ts[i].ids, NEW y \in DOMAIN ts[i].ids, ts[i].ids[x] = ts[i].ids[y]
               PROVE  x = y
    BY DEF IsInjective
  <2>1. x + from - 1 = y + from - 1
    BY <1>11, <1>13 DEF Shape, Once
  <2>2. x \in Int /\ y \in Int /\ from \in Int
    BY <1>4, <1>12
  <2> QED
    BY <2>1, <2>2
<1>15. \A x \in DOMAIN ts[i].ids : ts[i].ids[x] \in {<<a, k>> : k \in Answerable(ms[a].calls)}
  BY <1>11, <1>13
<1>16. ASSUME NEW k \in Answerable(ms[a].calls)
       PROVE  \E x \in DOMAIN ts[i].ids : ts[i].ids[x] = <<a, k>>
  <2>1. ms[a].calls # <<>>
    <3>1. Answerable(<<>>) = {}
      BY DEF Answerable
    <3> QED
      BY <1>5, <3>1
  <2>2. a \in Positions(ms, "assistant") /\ ms[a + 1].role = "tool"
    BY <1>1, <1>2, <1>4, <1>5, <1>9 DEF Positions
  <2>3. PICK j \in Positions(ms, "tool") : ms[j].id[1] = a /\ ms[j].id[2] = k
    BY <2>1, <2>2 DEF Shape, Batches
  <2>4. a \in 1 .. j - 1 /\ \A l \in a + 1 .. j : ms[l].role = "tool"
    BY <2>3 DEF Shape, Answering
  <2>5. j \in 1 .. n /\ ms[j].id \in Nat \X Nat
    BY <1>1, <2>3, MessageIs DEF Positions, n
  <2>6. j \in from .. e
    <3>1. ~ (j > e)
      <4>1. j > e => e # n /\ e + 1 \in a + 1 .. j
        BY <1>1, <1>4, <1>9, <2>5
      <4> QED
        BY <1>3, <2>4, <4>1
    <3> QED
      BY <1>4, <1>9, <2>4, <2>5, <3>1
  <2>7. j - from + 1 \in DOMAIN ts[i].ids /\ ts[i].ids[j - from + 1] = ms[j].id
    BY <1>4, <1>12, <2>6
  <2>8. ms[j].id = <<a, k>>
    BY <2>3, <2>5
  <2> QED
    BY <2>7, <2>8
<1>17. ToSet(ts[i].ids) = {<<a, k>> : k \in Answerable(ms[a].calls)}
  BY <1>15, <1>16 DEF ToSet
<1> QED
  BY <1>6, <1>10, <1>14, <1>17

\* Calls that are not answered by a batch are followed by a word of the user.
LEMMA CallsAreFollowed ==
    ASSUME NEW ms \in Seq(Message), Shape(ms), NEW ts, Grouped(ms, Len(ms), ts),
           NEW i \in 1 .. Len(ts), ts[i].role = "assistant", ms[ts[i].from].calls # <<>>
    PROVE  i < Len(ts) /\ ts[i + 1].role \in {"results", "user"}
<1> DEFINE n == Len(ms)
           a == ts[i].from
<1>1. ts \in Seq(Turn) /\ Len(ts) \in Nat /\ n \in Nat /\ DOMAIN ms = 1 .. n
  BY DEF Grouped
<1>2. PICK e \in 1 .. n : /\ Covers(ms, ts[i], e)
                          /\ i = Len(ts) => e = n
                          /\ i # Len(ts) => e + 1 = ts[i + 1].from /\ e + 1 <= n
  <2>1. Ends(ms, n, ts, i)
    BY <1>1, EndIs
  <2> QED
    BY <2>1 DEF Ends
<1>3. a = e /\ ms[a].role = "assistant"
  BY <1>2 DEF Covers
<1> HIDE DEF a, n
<1>4. a + 1 \in 1 .. n /\ ms[a + 1].role \in {"tool", "user"}
  BY <1>1, <1>2, <1>3 DEF Shape, Batches, Positions, a
<1>5. i # Len(ts) /\ i + 1 \in 1 .. Len(ts)
  BY <1>1, <1>2, <1>3, <1>4
<1>6. ts[i + 1] \in Turn /\ ts[i + 1].from = a + 1
  <2>1. ts[i + 1] \in Turn
    BY <1>1, <1>5
  <2> QED
    BY <1>2, <1>3, <1>5, <2>1
<1>7. ts[i + 1].role # "results" => ms[a + 1].role = ts[i + 1].role /\ ts[i + 1].role # "tool"
  <2>1. Begins(ms, n, ts, i + 1)
    BY <1>1, <1>5, RoleIs DEF n
  <2> QED
    BY <1>6, <2>1 DEF Begins
<1> QED
  BY <1>1, <1>4, <1>5, <1>6, <1>7 DEF Turn

-----------------------------------------------------------------------------
(* The invariant.                                                          *)

\* A file is shown as it no longer is only after something changed it, and an
\* evicted result is one whose path was named again.
Lapsed == \A i \in DOMAIN messages : Stale(i) => Excused(unseen, messages, PathAt(i))

Caused ==
    \A i \in Positions(messages, "tool") : messages[i].body.kind \in Evicted =>
        \E j \in Calling(messages, {"read", "write", "delete"}, PathAt(i)) : j > Asker(messages, i)

Prompts(ms) == DOMAIN ms \ Positions(ms, "assistant")

\* The rows of the running session.
Ours == {r \in DOMAIN rows : rows[r].session = session}

RowsAreTrue ==
    \A r \in Ours :
        /\ rows[r].id \in Prompts(messages) /\ rows[r].id <= emitted
        /\ rows[r].body \notin Stubs
        /\ messages[rows[r].id].body # rows[r].body =>
              messages[rows[r].id].body \in Stubs /\ rows[r].id \in evicted

RowsAreAll == \A i \in Prompts(messages) : i <= emitted => \E r \in Ours : rows[r].id = i

RowsDiffer == \A r, s \in Ours : rows[r].id = rows[s].id => r = s

\* What was not sent yet is whole.
NewAreWhole == \A i \in Prompts(messages) : i > emitted => messages[i].body \notin Stubs

RowsInv ==
    /\ \A r \in DOMAIN rows : rows[r].session <= session
    /\ at # "off" => RowsAreTrue /\ RowsAreAll /\ RowsDiffer /\ NewAreWhole
    /\ at = "asked" => emitted = Len(messages)

IInv == TypeOK /\ Shape(messages) /\ Lapsed /\ StaleNeedsLapse /\ Caused /\ RowsInv

LEMMA NoShape ==
    /\ \A role : Positions(<<>>, role) = {}
    /\ Shape(<<>>)
<1>1. \A role : Positions(<<>>, role) = {}
  BY DEF Positions
<1> QED
  BY <1>1 DEF Shape, Answering, Once, Batches, ReadsOnly

LEMMA UserShape ==
    /\ <<User>> \in Seq(Message) /\ Len(<<User>>) = 1 /\ <<User>>[1] = User
    /\ Positions(<<User>>, "tool") = {} /\ Positions(<<User>>, "assistant") = {}
    /\ Shape(<<User>>)
<1> DEFINE ms == <<User>>
<1>1. ms \in Seq(Message) /\ Len(ms) = 1 /\ ms[1] = User /\ DOMAIN ms = 1 .. 1
  <2>1. ASSUME NEW x \in Message
        PROVE  <<x>> \in Seq(Message) /\ Len(<<x>>) = 1 /\ <<x>>[1] = x /\ DOMAIN <<x>> = 1 .. 1
    OBVIOUS
  <2> QED
    BY <2>1, UserIs, Zenon
<1> HIDE DEF ms
<1>2. Positions(ms, "tool") = {} /\ Positions(ms, "assistant") = {}
  BY <1>1, UserIs DEF Positions
<1>3. Shape(ms)
  BY <1>2 DEF Shape, Answering, Once, Batches, ReadsOnly
<1> QED
  BY <1>1, <1>2, <1>3 DEF ms

LEMMA InvAtInit ==
    ASSUME Init
    PROVE  IInv
<1>1. TypeOK
  BY TranscriptAssumption DEF Init, TypeOK
<1>2. messages = <<>> /\ rows = <<>> /\ at = "off" /\ DOMAIN messages = {} /\ DOMAIN rows = {}
  BY DEF Init
<1>3. Shape(messages) /\ Positions(messages, "tool") = {}
  BY <1>2, NoShape
<1> QED
  BY <1>1, <1>2, <1>3 DEF IInv, Lapsed, StaleNeedsLapse, Caused, RowsInv

LEMMA RowsAreRows ==
    ASSUME IInv
    PROVE  \A r \in DOMAIN rows : rows[r] \in Row /\ rows[r].session \in Nat /\ rows[r].session <= session
<1>1. rows \in Seq(Row)
  BY DEF IInv, TypeOK, Row
<1>2. \A r \in DOMAIN rows : rows[r] \in Row
  BY <1>1
<1>3. \A x \in Row : x.session \in Nat
  BY DEF Row
<1> QED
  BY <1>2, <1>3 DEF IInv, RowsInv

LEMMA StartKeeps ==
    ASSUME IInv, Start
    PROVE  IInv'
<1>1. /\ session' = session + 1 /\ session' \in 0 .. MaxSessions /\ session \in Nat
      /\ at' = "ready" /\ messages' = <<User>> /\ emitted' = 0 /\ unseen' = {}
      /\ disk' = disk /\ rows' = rows /\ evicted' = evicted
      /\ version' = version /\ ops' = ops /\ answers' = answers
  BY TranscriptAssumption DEF Start, IInv, TypeOK, counters
<1>2. /\ messages' \in Seq(Message) /\ Len(messages') = 1 /\ messages'[1] = User
      /\ DOMAIN messages' = 1 .. 1
      /\ Positions(messages', "tool") = {} /\ Positions(messages', "assistant") = {}
      /\ Shape(messages')
  BY <1>1, UserShape
<1>3. TypeOK'
  <2>1. emitted' \in 0 .. Len(messages')
    BY <1>1, <1>2
  <2> QED
    BY <1>1, <1>2, <2>1 DEF IInv, TypeOK
<1>4. \A i \in DOMAIN messages' : messages'[i].role # "tool"
  BY <1>2, UserIs
<1>5. Lapsed' /\ StaleNeedsLapse' /\ Caused'
  BY <1>2, <1>4 DEF Lapsed, StaleNeedsLapse, Caused, Stale, Showing
<1>6. RowsInv'
  <2>1. \A r \in DOMAIN rows' : rows'[r].session < session'
    BY <1>1, RowsAreRows
  <2>2. Ours' = {}
    <3>1. \A r \in DOMAIN rows' : rows'[r].session # session'
      <4>1. session' \in Nat
        BY <1>1
      <4> QED
        BY <2>1, <4>1
    <3> QED
      BY <3>1 DEF Ours
  <2>3. Prompts(messages') = 1 .. 1
    BY <1>2 DEF Prompts
  <2>4. NewAreWhole'
    <3>1. User.body \notin Stubs
      BY UserIs, StubIs DEF Evicted
    <3> QED
      BY <1>2, <2>3, <3>1 DEF NewAreWhole
  <2>5. RowsAreTrue' /\ RowsAreAll' /\ RowsDiffer'
    BY <1>1, <2>2, <2>3 DEF RowsAreTrue, RowsAreAll, RowsDiffer
  <2>6. \A r \in DOMAIN rows' : rows'[r].session <= session'
    BY <1>1, RowsAreRows
  <2> QED
    BY <1>1, <2>4, <2>5, <2>6 DEF RowsInv
<1> QED
  BY <1>2, <1>3, <1>5, <1>6 DEF IInv

LEMMA EndKeeps ==
    ASSUME IInv, End
    PROVE  IInv'
<1>1. /\ at' = "off" /\ messages' = <<>> /\ emitted' = 0
      /\ session' = session /\ disk' = disk /\ rows' = rows /\ evicted' = evicted
      /\ version' = version /\ ops' = ops /\ answers' = answers /\ unseen' = unseen
  BY DEF End, counters
<1>2. messages' \in Seq(Message) /\ Len(messages') = 0 /\ DOMAIN messages' = {}
  BY <1>1
<1>3. Shape(messages') /\ Positions(messages', "tool") = {}
  BY <1>1, NoShape
<1>4. TypeOK'
  BY <1>1, <1>2 DEF IInv, TypeOK
<1>5. Lapsed' /\ StaleNeedsLapse' /\ Caused'
  BY <1>2, <1>3 DEF Lapsed, StaleNeedsLapse, Caused
<1>6. RowsInv'
  BY <1>1 DEF IInv, RowsInv
<1> QED
  BY <1>3, <1>4, <1>5, <1>6 DEF IInv

\* What a turn leaves as it was, and what it adds.
LEMMA TurnKeeps ==
    ASSUME NEW ms, NEW ns, NEW n, TurnAdded(ms, ns, n), Shape(ms)
    PROVE  /\ \A i \in Positions(ns, "tool") :
                 \/ i \in Positions(ms, "tool")
                 \/ i \in Len(ms) + 2 .. Len(ms) + 1 + n /\ ns[i].body.kind \in {"shown", "result"}
           /\ \A i \in Positions(ms, "tool") : ns[i] = ms[i] /\ Asked(ns, i) = Asked(ms, i)
           /\ \A tools, p : Calling(ms, tools, p) \subseteq Calling(ns, tools, p)
           /\ \A i \in Prompts(ms) : i \in Prompts(ns) /\ ns[i] = ms[i]
           /\ \A i \in Prompts(ns) : i <= Len(ms) => i \in Prompts(ms)
           /\ \A i \in Prompts(ns) : i > Len(ms) => ns[i].body \notin Stubs
<1> DEFINE l == Len(ms)
<1>1. /\ ms \in Seq(Message) /\ ns \in Seq(Message) /\ l \in Nat /\ n \in Nat /\ Len(ns) \in Nat
      /\ DOMAIN ms = 1 .. l /\ DOMAIN ns = 1 .. Len(ns) /\ l <= Len(ns)
      /\ \A i \in 1 .. l : ns[i] = ms[i]
  BY DEF TurnAdded, Extends
<1>2. /\ \A i \in l + 1 .. Len(ns) :
            /\ ns[i].role = "tool" <=> i \in l + 2 .. l + 1 + n
            /\ ns[i].role = "user" => ns[i].body.kind = "text"
      /\ \A i \in l + 2 .. l + 1 + n : ns[i].body.kind \in {"shown", "result"}
  <2>1. l + 1 + 1 = l + 2
    BY <1>1
  <2> QED
    BY <2>1 DEF TurnAdded, IsResult
<1> HIDE DEF l
<1>3. \A i \in DOMAIN ns : i \in 1 .. l \/ i \in l + 1 .. Len(ns)
  BY <1>1
<1>4. ASSUME NEW i \in Positions(ns, "tool")
      PROVE  \/ i \in Positions(ms, "tool")
             \/ i \in l + 2 .. l + 1 + n /\ ns[i].body.kind \in {"shown", "result"}
  BY <1>1, <1>2, <1>3 DEF Positions
<1>5. ASSUME NEW i \in Positions(ms, "tool")
      PROVE  ns[i] = ms[i] /\ Asked(ns, i) = Asked(ms, i)
  <2>1. i \in 1 .. l /\ ms[i].id[1] \in 1 .. i - 1
    BY <1>1 DEF Positions, Shape, Answering
  <2>2. ms[i].id[1] \in 1 .. l
    BY <1>1, <2>1
  <2> QED
    BY <1>1, <2>1, <2>2 DEF Asked
<1>6. ASSUME NEW tools, NEW p, NEW i \in Calling(ms, tools, p)
      PROVE  i \in Calling(ns, tools, p)
  BY <1>1 DEF Calling, Positions
<1>7. ASSUME NEW i \in Prompts(ms)
      PROVE  i \in Prompts(ns) /\ ns[i] = ms[i]
  BY <1>1 DEF Prompts, Positions
<1>8. ASSUME NEW i \in Prompts(ns), i <= l
      PROVE  i \in Prompts(ms)
  BY <1>1, <1>8 DEF Prompts, Positions
<1>9. ASSUME NEW i \in Prompts(ns), i > l
      PROVE  ns[i].body \notin Stubs
  <2>1. i \in l + 1 .. Len(ns) /\ ns[i] \in Message /\ ns[i].role # "assistant"
    BY <1>1, <1>9 DEF Prompts, Positions
  <2>2. ns[i].body \in Body /\ ns[i].role \in {"tool", "user"}
    BY <2>1, MessageIs
  <2>3. ns[i].body.kind \in {"text", "shown", "result"}
    BY <1>2, <2>1, <2>2
  <2> QED
    BY <2>3, StubIs DEF Evicted
<1> QED
  BY <1>4, <1>5, <1>6, <1>7, <1>8, <1>9 DEF l

LEMMA AnswerKeeps ==
    ASSUME IInv, Answer
    PROVE  IInv'
<1>1. PICK n : TurnTaken(n)
  BY AnswerTaken DEF IInv
<1>2. /\ at = "asked" /\ at' = "ready"
      /\ session' = session /\ emitted' = emitted /\ rows' = rows /\ evicted' = evicted
      /\ TurnAdded(messages, messages', n)
      /\ unseen \subseteq unseen'
      /\ \A p \in Paths : disk'[p] # disk[p] => Excused(unseen', messages', p)
      /\ \A i \in Len(messages) + 2 .. Len(messages) + 1 + n :
            messages'[i].body.kind = "shown" /\ messages'[i].body.version # disk'[Asked(messages', i).path]
                => Excused(unseen', messages', Asked(messages', i).path)
  BY <1>1 DEF TurnTaken
<1>3. Shape(messages) /\ Shape(messages')
  BY <1>2, TurnShape DEF IInv
<1>4. /\ \A i \in Positions(messages', "tool") :
            \/ i \in Positions(messages, "tool")
            \/ i \in Len(messages) + 2 .. Len(messages) + 1 + n /\ messages'[i].body.kind \in {"shown", "result"}
      /\ \A i \in Positions(messages, "tool") :
            messages'[i] = messages[i] /\ Asked(messages', i) = Asked(messages, i)
      /\ \A tools, p : Calling(messages, tools, p) \subseteq Calling(messages', tools, p)
      /\ \A i \in Prompts(messages) : i \in Prompts(messages') /\ messages'[i] = messages[i]
      /\ \A i \in Prompts(messages') : i <= Len(messages) => i \in Prompts(messages)
      /\ \A i \in Prompts(messages') : i > Len(messages) => messages'[i].body \notin Stubs
  BY <1>2, <1>3, TurnKeeps
<1>5. messages \in Seq(Message) /\ messages' \in Seq(Message) /\ Len(messages) <= Len(messages')
  BY <1>2 DEF TurnAdded, Extends
<1>6. TypeOK'
  <2>1. emitted' \in 0 .. Len(messages')
    BY <1>2, <1>5 DEF IInv, TypeOK
  <2>2. /\ version' \in Nat /\ disk' \in [Paths -> 0 .. version']
        /\ ops' \in 0 .. MaxOps /\ answers' \in 0 .. MaxAnswers /\ unseen' \subseteq Paths
    BY <1>1 DEF TurnTaken
  <2> QED
    BY <1>2, <1>5, <2>1, <2>2 DEF IInv, TypeOK
<1>7. Lapsed'
  <2> SUFFICES ASSUME NEW i \in DOMAIN messages', Stale(i)'
               PROVE  Excused(unseen', messages', Asked(messages', i).path)
    BY DEF Lapsed, PathAt, Asked
  <2>1. /\ i \in Positions(messages', "tool") /\ messages'[i].body.kind = "shown"
        /\ messages'[i].body.version # disk'[Asked(messages', i).path]
    BY DEF Stale, Showing, Positions, PathAt, Asked
  <2>2. CASE i \notin Positions(messages, "tool")
    BY <1>2, <1>4, <2>1, <2>2
  <2>3. CASE i \in Positions(messages, "tool")
    <3> DEFINE p == Asked(messages, i).path
    <3>1. messages'[i] = messages[i] /\ Asked(messages', i) = Asked(messages, i)
      BY <1>4, <2>3
    <3>2. p \in Paths
      BY <1>3, <2>1, <2>3, <3>1 DEF Shape, ReadsOnly
    <3>3. CASE disk'[p] # disk[p]
      BY <1>2, <3>1, <3>2, <3>3
    <3>4. CASE disk'[p] = disk[p]
      <4>1. Stale(i) /\ i \in DOMAIN messages
        BY <2>1, <2>3, <3>1, <3>4 DEF Stale, Showing, Positions, PathAt, Asked
      <4>2. Excused(unseen, messages, p)
        BY <4>1 DEF IInv, Lapsed, PathAt, Asked
      <4> QED
        BY <1>2, <1>4, <3>1, <4>2 DEF Excused
    <3> QED
      BY <3>3, <3>4
  <2> QED
    BY <2>2, <2>3
<1>8. Caused'
  <2> SUFFICES ASSUME NEW i \in Positions(messages', "tool"), messages'[i].body.kind \in Evicted
               PROVE  \E j \in Calling(messages', {"read", "write", "delete"}, Asked(messages', i).path) :
                         j > Asker(messages', i)
    BY DEF Caused, PathAt, Asked
  <2>1. i \in Positions(messages, "tool")
    BY <1>4 DEF Evicted
  <2>2. messages'[i] = messages[i] /\ Asked(messages', i) = Asked(messages, i)
    BY <1>4, <2>1
  <2>3. PICK j \in Calling(messages, {"read", "write", "delete"}, Asked(messages, i).path) :
                j > Asker(messages, i)
    BY <2>1, <2>2 DEF IInv, Caused, PathAt, Asked
  <2>4. Asker(messages', i) = Asker(messages, i)
    BY <2>2 DEF Asker
  <2> QED
    BY <1>4, <2>2, <2>3, <2>4
<1>9. RowsInv'
  <2>1. emitted = Len(messages) /\ RowsAreTrue /\ RowsAreAll /\ RowsDiffer
    BY <1>2 DEF IInv, RowsInv
  <2>2. Ours' = Ours
    BY <1>2 DEF Ours
  <2>3. RowsAreTrue'
    BY <1>2, <1>4, <2>1, <2>2 DEF RowsAreTrue
  <2>4. RowsAreAll'
    BY <1>2, <1>4, <2>1, <2>2 DEF RowsAreAll
  <2>5. RowsDiffer'
    BY <1>2, <2>1, <2>2 DEF RowsDiffer
  <2>6. NewAreWhole'
    BY <1>2, <1>4, <2>1 DEF NewAreWhole
  <2>7. \A r \in DOMAIN rows' : rows'[r].session <= session'
    BY <1>2 DEF IInv, RowsInv
  <2> QED
    BY <1>2, <2>3, <2>4, <2>5, <2>6, <2>7 DEF RowsInv
<1>10. StaleNeedsLapse'
  BY <1>2 DEF StaleNeedsLapse
<1> QED
  BY <1>3, <1>6, <1>7, <1>8, <1>9, <1>10 DEF IInv

\* Every row of a request is whole and new, and marked if its message is gone.
LEMMA RequestRows ==
    ASSUME IInv, Request
    PROVE  RowsInv'
<1> DEFINE ms == messages
           new == RowsOf(ms)
           l == Len(rows)
<1>1. /\ at' = "asked" /\ rows' = rows \o new /\ emitted' = Len(ms) /\ session' = session
      /\ messages' = Compacted(ms) /\ evicted' = evicted \union Told(ms)
      /\ at = "ready"
  BY DEF Request
<1>2. /\ ms \in Seq(Message) /\ session \in Nat /\ emitted \in 0 .. Len(ms) /\ rows \in Seq(Row)
      /\ Len(ms) \in Nat /\ l \in Nat
  BY DEF IInv, TypeOK, Row
<1>3. RowsAreTrue /\ RowsAreAll /\ RowsDiffer /\ NewAreWhole
  BY <1>1 DEF IInv, RowsInv
<1>4. Sent(ms, emitted, Len(ms), new)
  BY <1>2, RowsAreSent
<1>5. Taken(ms, messages', Told(ms))
  BY <1>1, <1>2, CompactedTakes
<1>6. /\ DOMAIN messages' = DOMAIN ms /\ DOMAIN ms = 1 .. Len(ms) /\ Prompts(messages') = Prompts(ms)
      /\ Len(messages') = Len(ms)
  <2>1. Positions(messages', "assistant") = Positions(ms, "assistant")
    BY <1>5, TakenKeeps
  <2> QED
    BY <1>5, <2>1 DEF Taken, Prompts
<1>7. \A i \in DOMAIN ms : /\ i \notin Told(ms) => messages'[i] = ms[i]
                           /\ i \in Told(ms) => messages'[i].body \in Stubs
  BY <1>5, <1>6 DEF Taken
<1> HIDE DEF new, ms, l
<1>8. new \in Seq(Row) /\ Len(new) \in Nat
  BY <1>4 DEF Sent
<1>9. /\ Len(rows') = l + Len(new) /\ DOMAIN rows' = 1 .. l + Len(new) /\ DOMAIN rows = 1 .. l
      /\ \A r \in 1 .. l : rows'[r] = rows[r]
      /\ \A k \in 1 .. Len(new) : rows'[l + k] = new[k]
  BY <1>1, <1>2, <1>8 DEF l
<1>10. ASSUME NEW r \in Ours'
       PROVE  \/ r \in Ours /\ rows'[r] = rows[r]
              \/ r - l \in 1 .. Len(new) /\ rows'[r] = new[r - l]
  <2>1. r \in 1 .. l + Len(new) /\ rows'[r].session = session
    BY <1>1, <1>9 DEF Ours
  <2>2. CASE r \in 1 .. l
    BY <1>9, <2>1, <2>2 DEF Ours
  <2>3. CASE r \notin 1 .. l
    <3>1. r - l \in 1 .. Len(new) /\ l + (r - l) = r
      BY <1>2, <1>8, <2>1, <2>3
    <3> QED
      BY <1>9, <3>1
  <2> QED
    BY <2>2, <2>3
<1>11. \A r \in Ours : r \in Ours' /\ rows'[r] = rows[r] /\ rows[r].id <= emitted
  <2>1. \A r \in 1 .. l : r \in 1 .. l + Len(new)
    BY <1>2, <1>8
  <2> QED
    BY <1>1, <1>3, <1>9, <2>1 DEF Ours, RowsAreTrue
<1>12. ASSUME NEW k \in 1 .. Len(new)
       PROVE  /\ l + k \in Ours' /\ rows'[l + k] = new[k]
              /\ new[k].id \in Prompts(ms) /\ new[k].id > emitted /\ new[k].id <= Len(ms)
              /\ new[k].body = ms[new[k].id].body /\ new[k].body \notin Stubs
  <2>1. /\ new[k].session = session /\ new[k].id \in emitted + 1 .. Len(ms)
        /\ ms[new[k].id].role # "assistant" /\ new[k].body = ms[new[k].id].body
    BY <1>4 DEF Sent
  <2>2. l + k \in 1 .. l + Len(new) /\ new[k].id \in 1 .. Len(ms) /\ new[k].id > emitted
    BY <1>2, <1>8, <2>1
  <2>3. new[k].id \in Prompts(ms)
    BY <1>6, <2>1, <2>2 DEF Prompts, Positions
  <2>4. rows'[l + k] = new[k] /\ l + k \in Ours'
    BY <1>1, <1>9, <2>1, <2>2 DEF Ours
  <2>5. ms[new[k].id].body \notin Stubs
    BY <1>3, <2>2, <2>3 DEF NewAreWhole, ms
  <2> QED
    BY <2>1, <2>2, <2>3, <2>4, <2>5
<1>13. RowsAreTrue'
  <2> SUFFICES ASSUME NEW r \in Ours'
               PROVE  /\ rows'[r].id \in Prompts(messages') /\ rows'[r].id <= emitted'
                      /\ rows'[r].body \notin Stubs
                      /\ messages'[rows'[r].id].body # rows'[r].body =>
                            messages'[rows'[r].id].body \in Stubs /\ rows'[r].id \in evicted'
    BY DEF RowsAreTrue
  <2>1. CASE r \in Ours /\ rows'[r] = rows[r]
    <3>1. /\ rows[r].id \in Prompts(ms) /\ rows[r].body \notin Stubs
          /\ ms[rows[r].id].body # rows[r].body => ms[rows[r].id].body \in Stubs /\ rows[r].id \in evicted
      BY <1>3, <2>1 DEF RowsAreTrue, ms
    <3>2. rows[r].id \in DOMAIN ms
      BY <3>1 DEF Prompts
    <3>3. rows[r].id <= Len(ms)
      BY <1>6, <3>2
    <3> QED
      BY <1>1, <1>6, <1>7, <2>1, <3>1, <3>2, <3>3
  <2>2. CASE r - l \in 1 .. Len(new) /\ rows'[r] = new[r - l]
    <3>1. /\ new[r - l].id \in Prompts(ms) /\ new[r - l].id <= Len(ms)
          /\ new[r - l].body = ms[new[r - l].id].body /\ new[r - l].body \notin Stubs
      BY <1>12, <2>2
    <3>2. new[r - l].id \in DOMAIN ms
      BY <3>1 DEF Prompts
    <3> QED
      BY <1>1, <1>6, <1>7, <2>2, <3>1, <3>2
  <2> QED
    BY <1>10, <2>1, <2>2
<1>14. RowsAreAll'
  <2> SUFFICES ASSUME NEW i \in Prompts(ms)
               PROVE  \E r \in Ours' : rows'[r].id = i
    BY <1>6 DEF RowsAreAll
  <2>1. CASE i <= emitted
    <3>1. PICK r \in Ours : rows[r].id = i
      BY <1>3, <2>1 DEF RowsAreAll, ms
    <3> QED
      BY <1>11, <3>1
  <2>2. CASE ~ (i <= emitted)
    <3>1. i \in 1 .. Len(ms) /\ ms[i].role # "assistant"
      BY <1>6 DEF Prompts, Positions
    <3>2. i \in emitted + 1 .. Len(ms)
      BY <1>2, <2>2, <3>1
    <3>3. PICK k \in 1 .. Len(new) : new[k].id = i
      BY <1>4, <3>1, <3>2 DEF Sent
    <3> QED
      BY <1>12, <3>3
  <2> QED
    BY <2>1, <2>2
<1>15. RowsDiffer'
  <2> SUFFICES ASSUME NEW r \in Ours', NEW s \in Ours', rows'[r].id = rows'[s].id
               PROVE  r = s
    BY DEF RowsDiffer
  <2>1. CASE r \in Ours /\ rows'[r] = rows[r] /\ s \in Ours /\ rows'[s] = rows[s]
    BY <1>3, <2>1 DEF RowsDiffer
  <2>2. ASSUME NEW x \in Ours, NEW k \in 1 .. Len(new)
        PROVE  rows[x].id # new[k].id
    <3>1. rows[x].id <= emitted /\ rows[x].id \in Prompts(ms)
      BY <1>3 DEF RowsAreTrue, ms
    <3>2. new[k].id > emitted /\ new[k].id \in Prompts(ms)
      BY <1>12
    <3>3. rows[x].id \in Nat /\ new[k].id \in Nat
      BY <1>6, <3>1, <3>2 DEF Prompts
    <3> QED
      BY <1>2, <3>1, <3>2, <3>3
  <2>3. CASE r - l \in 1 .. Len(new) /\ rows'[r] = new[r - l] /\ s - l \in 1 .. Len(new) /\ rows'[s] = new[s - l]
    <3>1. r - l = s - l
      BY <1>4, <2>3 DEF Sent
    <3>2. r \in Nat /\ s \in Nat
      BY <1>9 DEF Ours
    <3> QED
      BY <1>2, <3>1, <3>2
  <2> QED
    BY <1>10, <2>1, <2>2, <2>3
<1>16. NewAreWhole'
  BY <1>1, <1>6 DEF NewAreWhole, Prompts
<1>17. \A r \in DOMAIN rows' : rows'[r].session <= session'
  <2> SUFFICES ASSUME NEW r \in 1 .. l + Len(new)
               PROVE  rows'[r].session <= session
    BY <1>1, <1>9
  <2>1. CASE r \in 1 .. l
    BY <1>9, <2>1, RowsAreRows
  <2>2. CASE r \notin 1 .. l
    <3>1. r - l \in 1 .. Len(new) /\ l + (r - l) = r
      BY <1>2, <1>8, <2>2
    <3>2. rows'[r].session = session
      BY <1>4, <1>9, <3>1 DEF Sent
    <3> QED
      BY <1>2, <3>2
  <2> QED
    BY <2>1, <2>2
<1> QED
  BY <1>1, <1>6, <1>13, <1>14, <1>15, <1>16, <1>17 DEF RowsInv

LEMMA AnswerableIs ==
    ASSUME NEW cs \in Seq(Call)
    PROVE  Answerable(cs) \subseteq DOMAIN cs
<1> DEFINE asks == {k \in DOMAIN cs : cs[k].tool = "ask"}
           first == Min(asks)
<1>1. DOMAIN cs = 1 .. Len(cs) /\ Len(cs) \in Nat
  OBVIOUS
<1>2. CASE asks = {}
  BY <1>1, <1>2 DEF Answerable
<1>3. CASE asks # {}
  <2>1. asks \subseteq Nat /\ asks \subseteq 1 .. Len(cs)
    BY <1>1
  <2>2. Answerable(cs) = 1 .. first
    BY <1>3 DEF Answerable
  <2>3. first \in asks
    <3> HIDE DEF asks
    <3> QED
      BY <1>3, <2>1, MinIs
  <2>4. first \in 1 .. Len(cs)
    BY <2>1, <2>3
  <2> HIDE DEF first
  <2>5. 1 .. first \subseteq 1 .. Len(cs)
    BY <1>1, <2>4
  <2> QED
    BY <1>1, <2>2, <2>5
<1> QED
  BY <1>2, <1>3

LEMMA RequestKeeps ==
    ASSUME IInv, Request
    PROVE  IInv'
<1> DEFINE ms == messages
<1>1. /\ at' = "asked" /\ rows' = rows \o RowsOf(ms) /\ emitted' = Len(ms) /\ session' = session
      /\ messages' = Compacted(ms) /\ evicted' = evicted \union Told(ms)
      /\ disk' = disk /\ version' = version /\ ops' = ops /\ answers' = answers /\ unseen' = unseen
  BY DEF Request, counters
<1>2. ms \in Seq(Message) /\ Shape(ms) /\ session \in Nat /\ emitted \in 0 .. Len(ms)
  BY DEF IInv, TypeOK
<1>3. Shape(messages')
  BY <1>1, <1>2, CompactedShape
<1>4. Taken(ms, messages', Told(ms))
  BY <1>1, <1>2, CompactedTakes
<1>5. /\ Positions(messages', "tool") = Positions(ms, "tool")
      /\ \A i \in Positions(ms, "tool") : messages'[i].id = ms[i].id
      /\ \A tools, p : Calling(messages', tools, p) = Calling(ms, tools, p)
      /\ \A i \in Positions(ms, "tool") : Asked(messages', i) = Asked(ms, i)
  BY <1>2, <1>4, TakenKeeps DEF Shape
<1>6. /\ messages' \in Seq(Message) /\ Len(messages') = Len(ms) /\ DOMAIN messages' = DOMAIN ms
      /\ \A i \in DOMAIN ms : /\ i \notin Told(ms) => messages'[i] = ms[i]
                              /\ i \in Told(ms) => messages'[i].body \in Stubs
  BY <1>4 DEF Taken
<1>7. TypeOK'
  <2>1. rows' \in Seq([session : Nat, id : Nat, body : Body])
    <3>1. RowsOf(ms) \in Seq(Row) /\ rows \in Seq(Row)
      BY <1>2, RowsAreSent DEF Sent, IInv, TypeOK, Row
    <3> HIDE DEF ms
    <3>2. rows' \in Seq(Row)
      BY <1>1, <3>1
    <3> QED
      BY <3>2 DEF Row
  <2>2. emitted' \in 0 .. Len(messages')
    BY <1>1, <1>2, <1>6
  <2>3. evicted' \subseteq Nat
    <3>1. Told(ms) \subseteq Positions(ms, "tool")
      BY <1>4 DEF Taken
    <3>2. Positions(ms, "tool") \subseteq Nat
      BY <1>2 DEF Positions
    <3> QED
      BY <1>1, <3>1, <3>2 DEF IInv, TypeOK
  <2> QED
    BY <1>1, <1>6, <2>1, <2>2, <2>3 DEF IInv, TypeOK
\* What still shows a file was not told of, and is as it was.
<1>8. ASSUME NEW i \in DOMAIN messages', Stale(i)'
      PROVE  /\ i \in DOMAIN ms /\ Stale(i) /\ i \notin Told(ms) /\ i \in Positions(ms, "tool")
             /\ PathAt(i)' = PathAt(i) /\ Asked(ms, i) = [tool |-> "read", path |-> PathAt(i)]
             /\ PathAt(i) \in Paths
             /\ Asker(messages', i) = Asker(ms, i) /\ Asker(ms, i) \in Nat
  <2>1. /\ i \in Positions(messages', "tool") /\ messages'[i].body.kind = "shown"
        /\ messages'[i].body.version # disk[Asked(messages', i).path]
    BY <1>1, <1>8 DEF Stale, Showing, Positions, PathAt, Asked
  <2>2. i \notin Told(ms)
    BY <1>6, <2>1, StubIs DEF Evicted
  <2>3. messages'[i] = ms[i] /\ i \in Positions(ms, "tool") /\ Asked(messages', i) = Asked(ms, i)
    BY <1>5, <1>6, <2>1, <2>2
  <2>4. Stale(i) /\ i \in DOMAIN ms
    BY <2>1, <2>3 DEF Stale, Showing, Positions, PathAt, Asked
  <2>5. Asked(ms, i).tool = "read" /\ Asked(ms, i).path \in Paths
    BY <1>2, <2>1, <2>3 DEF Shape, ReadsOnly
  <2>6. PathAt(i) = Asked(ms, i).path /\ PathAt(i)' = Asked(messages', i).path
    BY DEF PathAt, Asked
  <2>7. Asked(ms, i) = [tool |-> "read", path |-> PathAt(i)]
    <3> DEFINE a == ms[i].id[1]
               k == ms[i].id[2]
    <3>1. /\ a \in 1 .. i - 1 /\ ms[a].role = "assistant" /\ k \in Answerable(ms[a].calls)
          /\ i \in 1 .. Len(ms)
      BY <1>2, <2>3 DEF Shape, Answering, Positions
    <3>2. ms[a] \in Message
      BY <1>2, <3>1
    <3>3. ms[a].calls \in Seq(Call)
      BY <3>1, <3>2, MessageIs
    <3>4. k \in DOMAIN ms[a].calls
      <4> DEFINE cs == ms[a].calls
      <4> HIDE DEF k, a
      <4>1. k \in Answerable(cs) /\ cs \in Seq(Call)
        BY <3>1, <3>3
      <4> HIDE DEF cs
      <4>2. Answerable(cs) \subseteq DOMAIN cs
        BY <4>1, AnswerableIs
      <4> QED
        BY <4>1, <4>2 DEF cs
    <3>5. Asked(ms, i) \in Call
      <4> HIDE DEF ms
      <4> QED
        BY <3>3, <3>4 DEF Asked
    <3>6. \A c \in Call : c = [tool |-> c.tool, path |-> c.path]
      BY DEF Call
    <3> QED
      BY <2>5, <2>6, <3>5, <3>6
  <2>8. Asker(messages', i) = Asker(ms, i) /\ Asker(ms, i) \in Nat
    BY <1>2, <2>3 DEF Asker, Shape, Answering
  <2> QED
    BY <2>2, <2>3, <2>4, <2>5, <2>6, <2>7, <2>8
<1>9. Lapsed'
  <2> SUFFICES ASSUME NEW i \in DOMAIN messages', Stale(i)'
               PROVE  Excused(unseen', messages', PathAt(i)')
    BY DEF Lapsed
  <2>1. Stale(i) /\ i \in DOMAIN ms /\ PathAt(i)' = PathAt(i)
    BY <1>8
  <2>2. Excused(unseen, ms, PathAt(i))
    BY <2>1 DEF IInv, Lapsed
  <2> QED
    BY <1>1, <1>5, <2>1, <2>2 DEF Excused
<1>10. StaleNeedsLapse'
  <2> SUFFICES ASSUME NEW i \in DOMAIN messages', Stale(i)'
               PROVE  \/ PathAt(i)' \in unseen'
                      \/ \E j \in Calling(messages', Mutates, PathAt(i)') : j <= Asker(messages', i)
    BY DEF StaleNeedsLapse
  <2> DEFINE p == PathAt(i)
             changes == Calling(ms, Mutates, p)
  <2>1. /\ i \in DOMAIN ms /\ Stale(i) /\ i \notin Told(ms) /\ i \in Positions(ms, "tool")
        /\ PathAt(i)' = p /\ Asked(ms, i) = [tool |-> "read", path |-> p] /\ p \in Paths
        /\ Asker(messages', i) = Asker(ms, i) /\ Asker(ms, i) \in Nat
    BY <1>8
  <2>2. p \in unseen \/ changes # {}
    BY <2>1 DEF IInv, Lapsed, Excused
  <2> HIDE DEF p
  <2>3. i \in ReadsOf(ms, p)
    BY <2>1 DEF ReadsOf, Asked
  <2>4. ~ (changes # {} /\ \A j \in changes : j > Asker(ms, i))
    BY <2>1, <2>3 DEF Told, Invalidated
  <2>5. \A j \in changes : j \in Nat
    BY <1>2 DEF Calling, Positions
  <2>6. p \in unseen \/ \E j \in changes : j <= Asker(ms, i)
    BY <2>1, <2>2, <2>4, <2>5
  <2>7. changes = Calling(messages', Mutates, p)
    BY <1>5
  <2> HIDE DEF changes
  <2> QED
    BY <1>1, <2>1, <2>6, <2>7
<1>11. Caused'
  <2> SUFFICES ASSUME NEW i \in Positions(messages', "tool"), messages'[i].body.kind \in Evicted
               PROVE  \E j \in Calling(messages', {"read", "write", "delete"}, Asked(messages', i).path) :
                         j > Asker(messages', i)
    BY DEF Caused, PathAt, Asked
  <2>1. /\ i \in Positions(ms, "tool") /\ Asked(messages', i) = Asked(ms, i) /\ i \in DOMAIN ms
        /\ Asker(messages', i) = Asker(ms, i)
    BY <1>5 DEF Positions, Asker
  <2>2. CASE i \in Told(ms)
    <3>1. \E j \in Calling(ms, {"read", "write", "delete"}, Asked(ms, i).path) : j > ms[i].id[1]
      BY <1>2, <2>2, ToldIs
    <3> QED
      BY <1>5, <2>1, <3>1 DEF Asker
  <2>3. CASE i \notin Told(ms)
    <3>1. messages'[i] = ms[i]
      BY <1>6, <2>1, <2>3
    <3>2. \E j \in Calling(ms, {"read", "write", "delete"}, Asked(ms, i).path) : j > Asker(ms, i)
      BY <2>1, <3>1 DEF IInv, Caused, PathAt, Asked
    <3> QED
      BY <1>5, <2>1, <3>2
  <2> QED
    BY <2>2, <2>3
<1>12. RowsInv'
  BY RequestRows
<1> QED
  BY <1>3, <1>7, <1>9, <1>10, <1>11, <1>12 DEF IInv

LEMMA NothingKeeps ==
    ASSUME IInv, UNCHANGED vars
    PROVE  IInv'
<1>1. /\ at' = at /\ session' = session /\ messages' = messages /\ emitted' = emitted /\ disk' = disk
      /\ rows' = rows /\ evicted' = evicted /\ unseen' = unseen
      /\ version' = version /\ ops' = ops /\ answers' = answers
  BY DEF vars, counters
<1>2. TypeOK'
  BY <1>1 DEF IInv, TypeOK
<1>3. Lapsed' /\ StaleNeedsLapse' /\ Caused'
  BY <1>1 DEF IInv, Lapsed, StaleNeedsLapse, Caused, Stale, Showing, PathAt
<1>4. RowsInv'
  BY <1>1 DEF IInv, RowsInv, RowsAreTrue, RowsAreAll, RowsDiffer, NewAreWhole, Ours
<1> QED
  BY <1>1, <1>2, <1>3, <1>4 DEF IInv

LEMMA NextKeeps ==
    ASSUME IInv, [Next]_vars
    PROVE  IInv'
<1>1. CASE Start
  BY <1>1, StartKeeps
<1>2. CASE End
  BY <1>2, EndKeeps
<1>3. CASE Request
  BY <1>3, RequestKeeps
<1>4. CASE Answer
  BY <1>4, AnswerKeeps
<1>5. CASE UNCHANGED vars
  BY <1>5, NothingKeeps
<1> QED
  BY <1>1, <1>2, <1>3, <1>4, <1>5 DEF Next, Answer

LEMMA TranscriptInvariant == Spec => []IInv
BY InvAtInit, NextKeeps, PTL DEF Spec

-----------------------------------------------------------------------------
(* What follows.                                                           *)

\* Nothing is evicted that no later message named.
LEMMA EvictedWasNamed ==
    ASSUME IInv
    PROVE  LastReadIsKept
<1> SUFFICES ASSUME NEW p \in Paths, NEW i \in ReadsOf(messages, p), NamedLast(i),
                    messages[i].body.kind \in Evicted
             PROVE  FALSE
  BY DEF LastReadIsKept, Evicted
<1>1. i \in Positions(messages, "tool")
  BY DEF ReadsOf
<1>2. PICK j \in Calling(messages, {"read", "write", "delete"}, PathAt(i)) : j > Asker(messages, i)
  BY <1>1 DEF IInv, Caused
<1>3. j <= Asker(messages, i)
  BY <1>2 DEF NamedLast
<1>4. j \in Nat /\ Asker(messages, i) \in Nat
  BY <1>1 DEF IInv, TypeOK, Shape, Answering, Asker, Calling, Positions
<1> QED
  BY <1>2, <1>3, <1>4

\* The turns that the backend makes of the stack keep its batches whole.
LEMMA BatchesStay ==
    ASSUME IInv
    PROVE  ResultsFollowCalls
<1> DEFINE ms == messages
           ts == Conversation(ms)
<1>1. ms \in Seq(Message) /\ Shape(ms)
  BY DEF IInv, TypeOK
<1>2. Grouped(ms, Len(ms), ts)
  BY <1>1, ConversationIs
<1>3. DOMAIN ts = 1 .. Len(ts)
  BY <1>2 DEF Grouped
<1> HIDE DEF ts
<1>4. ASSUME NEW i \in DOMAIN ts, ts[i].role = "results"
      PROVE  /\ i > 1 /\ ts[i - 1].role = "assistant"
             /\ IsInjective(ts[i].ids)
             /\ ToSet(ts[i].ids) = {<<ts[i - 1].from, k>> : k \in Answerable(ms[ts[i - 1].from].calls)}
  BY <1>1, <1>2, <1>3, <1>4, BatchAnswers
<1>5. ASSUME NEW i \in DOMAIN ts, ts[i].role = "assistant", ms[ts[i].from].calls # <<>>
      PROVE  i < Len(ts) /\ ts[i + 1].role \in {"results", "user"}
  BY <1>1, <1>2, <1>3, <1>5, CallsAreFollowed
<1> QED
  BY <1>4, <1>5, Zenon DEF ResultsFollowCalls, ts

\* Every prompt message was sent when the model is asked, and once.
LEMMA RowsAreComplete ==
    ASSUME IInv
    PROVE  PanelShowsAll
<1> SUFFICES ASSUME at = "asked", NEW i \in Prompts(messages)
             PROVE  \E r \in DOMAIN rows :
                       /\ \A s \in DOMAIN rows : (rows[s].session = session /\ rows[s].id = i) <=> s = r
                       /\ rows[r].body \notin Stubs
                       /\ messages[i].body # rows[r].body => messages[i].body \in Stubs /\ i \in evicted
  BY DEF PanelShowsAll, Prompts
<1>1. RowsAreTrue /\ RowsAreAll /\ RowsDiffer /\ emitted = Len(messages)
  BY DEF IInv, RowsInv
<1>2. i <= emitted
  <2>1. messages \in Seq(Message)
    BY DEF IInv, TypeOK
  <2> QED
    BY <1>1, <2>1 DEF Prompts
<1>3. PICK r \in Ours : rows[r].id = i
  BY <1>1, <1>2 DEF RowsAreAll
<1>4. \A s \in DOMAIN rows : (rows[s].session = session /\ rows[s].id = i) <=> s = r
  BY <1>1, <1>3 DEF RowsDiffer, Ours
<1>5. /\ rows[r].body \notin Stubs
      /\ messages[i].body # rows[r].body => messages[i].body \in Stubs /\ i \in evicted
  BY <1>1, <1>3 DEF RowsAreTrue
<1> QED
  BY <1>3, <1>4, <1>5 DEF Ours

-----------------------------------------------------------------------------
(* Theorems.                                                               *)

\* The stack holds messages, versions are numbered, the counters stay in their
\* bounds (compaction.rs, orchestrator.rs, autoSessionManager.ts).
THEOREM TranscriptTypeCorrect == Spec => []TypeOK
<1>1. IInv => TypeOK
  BY DEF IInv
<1> QED
  BY <1>1, TranscriptInvariant, PTL

\* Compaction lets through no read that a call on its path has outdated, but
\* one that was called to change no later than it was read, or changed by
\* something that names another path (run_mutation_invalidation).
THEOREM StaleReadsHaveLapsed == Spec => []StaleNeedsLapse
<1>1. IInv => StaleNeedsLapse
  BY DEF IInv
<1> QED
  BY <1>1, TranscriptInvariant, PTL

\* The last look at a file is never evicted (run_path_keyed_dedup,
\* run_mutation_invalidation).
THEOREM LastLookStays == Spec => []LastReadIsKept
BY EvictedWasNamed, TranscriptInvariant, PTL

\* What split_system_and_messages makes of the stack is a conversation: every
\* batch of results answers the whole turn before it, and no call goes without
\* an answer or a word of the user.
THEOREM ConversationIsWhole == Spec => []ResultsFollowCalls
BY BatchesStay, TranscriptInvariant, PTL

\* The panel's transcript has every prompt message of the session, once and as
\* it was (appendOrchestratorLlmRequest, attachContextEvictedListener).
THEOREM TranscriptIsComplete == Spec => []PanelShowsAll
BY RowsAreComplete, TranscriptInvariant, PTL
=============================================================================
