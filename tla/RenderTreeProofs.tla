--------------------------- MODULE RenderTreeProofs ---------------------------
(* What a body does to the scopes of others, and which renderers blocks ask, for  *)
(* all templates and for calls, includes and imports of any depth.  For the first *)
(* nothing about constants is used: no bound on the stack, nothing about values.  *)
(*                                                                                *)
(* Its argument is where a frame's context is from: it is that of the frame       *)
(* below, or one that was made after all below had theirs; and a frame that must  *)
(* not disturb the scopes of the frame below has a scope on top of them.          *)
EXTENDS RenderTree, SequenceTheorems, WellFoundedInduction, TLAPS

IsSeq(s) == Len(s) \in Nat /\ s = [i \in 1..Len(s) |-> s[i]]

IsContext(c) == c = [bound |-> c.bound, scopes |-> c.scopes, ext |-> c.ext] /\ IsSeq(c.scopes)
Contexts(cs) == IsSeq(cs) /\ \A i \in 1..Len(cs) : IsContext(cs[i])

IsFrame(f) ==
    /\ f = [todo |-> f.todo, ctx |-> f.ctx, os |-> f.os, end |-> f.end, base |-> f.base,
            streams |-> f.streams, depth |-> f.depth, before |-> f.before]
    /\ f.ctx \in Nat /\ f.base \in Nat /\ f.depth \in Nat /\ IsSeq(f.before)
    /\ "op" \in DOMAIN f.end
Frames(st) == IsSeq(st) /\ Len(st) > 0 /\ \A n \in 1..Len(st) : IsFrame(st[n])

\* Which frame stands on which.
Ordered(st) ==
    \A n \in 1..Len(st) :
        /\ st[n].end.op = "main" <=> n = 1
        /\ st[n].end.op = "include" =>
              st[n].todo = <<>> /\ n > 1 /\ st[n].ctx = st[n - 1].ctx
        /\ st[n].end.op = "included" => n > 1 /\ st[n - 1].end.op = "include"
        /\ n > 1 => (st[n - 1].end.op = "include" => st[n].end.op = "included"
                                                     /\ st[n].ctx > st[n].base)

\* Where the contexts of the frames are from.
Nested(st, cs) ==
    \A n \in 1..Len(st) :
        /\ st[n].ctx \in 1..Len(cs) /\ st[n].base <= Len(cs)
        /\ n > 1 => st[n].ctx > st[n].base \/ st[n].ctx = st[n - 1].ctx
        /\ \A m \in 1..(n - 1) : /\ st[m].ctx <= st[n].base /\ st[m].base <= st[n].base
                                /\ st[m].ctx <= st[n].ctx

\* The context of frame n is in the hands of frame n.
OnTop(st, n) == n = Len(st) \/ st[n + 1].ctx > st[n + 1].base

\* How many scopes the frames' contexts have.
Deep(st, cs) ==
    \A n \in 1..Len(st) :
        /\ n > 1 /\ st[n].ctx = st[n - 1].ctx =>
              st[n].depth = st[n - 1].depth + (IF st[n].end.op = "macro" THEN 1 ELSE 0)
        /\ OnTop(st, n) => Len(cs[st[n].ctx].scopes) = st[n].depth
        /\ st[n].end.op = "macro" => st[n].depth > 0

\* The bodies that go on in a context have scopes of their own in it.
Guarded(st) ==
    \A n \in 1..Len(st) :
        st[n].end.op \in OwnScopes =>
            \A m \in n..Len(st) :
                st[m].ctx = st[n - 1].ctx =>
                    (m = n /\ st[n].end.op = "include") \/ st[m].depth > Len(st[n].before)

\* As Undisturbed has it.
Agree(before, now) ==
    \A i \in DOMAIN before :
        \A v \in (DOMAIN before[i] \union DOMAIN now[i]) \ {"self"} :
            /\ v \in DOMAIN before[i] /\ v \in DOMAIN now[i]
            /\ before[i][v] = now[i][v]
Kept(st, cs) ==
    \A n \in 1..Len(st) :
        st[n].end.op \in OwnScopes => Agree(st[n].before, cs[st[n - 1].ctx].scopes)

Sound(st, cs) ==
    /\ Frames(st) /\ Contexts(cs)
    /\ Ordered(st) /\ Nested(st, cs) /\ Deep(st, cs) /\ Guarded(st) /\ Kept(st, cs)

\* Inductive.
ScopesInv == Sound(stack, ctxs)
-----------------------------------------------------------------------------
(* Sequences of anything. *)

\* It is one of its elements.
LEMMA SeqIn ==
    ASSUME NEW s, IsSeq(s)
    PROVE  s \in Seq({s[i] : i \in 1..Len(s)})
<1> DEFINE S == {s[i] : i \in 1..Len(s)}
<1>1. Len(s) \in Nat /\ s = [i \in 1..Len(s) |-> s[i]]
  BY DEF IsSeq
<1>2. \A i \in 1..Len(s) : s[i] \in S
  OBVIOUS
<1> HIDE DEF S
<1>3. s \in [1..Len(s) -> S]
  BY <1>1, <1>2
<1>4. s \in Seq(S)
  BY <1>1, <1>3
<1> QED BY <1>4 DEF S

\* And what is one of a set's elements is one.
LEMMA InSeq ==
    ASSUME NEW S, NEW s \in Seq(S)
    PROVE  IsSeq(s)
BY LenProperties DEF IsSeq

\* A sequence goes on with x.
LEMMA Appends ==
    ASSUME NEW s, NEW x, IsSeq(s)
    PROVE  /\ IsSeq(Append(s, x)) /\ Len(Append(s, x)) = Len(s) + 1
           /\ \A i \in 1..Len(s) : Append(s, x)[i] = s[i]
           /\ Append(s, x)[Len(s) + 1] = x
<1> DEFINE S == {s[i] : i \in 1..Len(s)} \union {x}
<1>1. s \in Seq({s[i] : i \in 1..Len(s)})
  BY SeqIn
<1>2. s \in Seq(S) /\ x \in S
  <2>1. Len(s) \in Nat /\ s = [i \in 1..Len(s) |-> s[i]]
    BY DEF IsSeq
  <2>2. \A i \in 1..Len(s) : s[i] \in S
    OBVIOUS
  <2>3. x \in S
    OBVIOUS
  <2> HIDE DEF S
  <2> QED BY <2>1, <2>2, <2>3
<1> HIDE DEF S
<1>3. /\ Append(s, x) \in Seq(S) /\ Len(Append(s, x)) = Len(s) + 1
      /\ \A i \in 1..Len(s) : Append(s, x)[i] = s[i]
      /\ Append(s, x)[Len(s) + 1] = x
  BY <1>2, AppendProperties
<1>4. IsSeq(Append(s, x))
  BY <1>3, InSeq
<1> QED BY <1>3, <1>4

\* A sequence goes on with one or two.
LEMMA ConcatsOne ==
    ASSUME NEW s, IsSeq(s), NEW x
    PROVE  s \o <<x>> = Append(s, x)
<1> DEFINE S == {s[i] : i \in 1..Len(s)} \union {x}
<1>1. Len(s) \in Nat /\ s = [i \in 1..Len(s) |-> s[i]]
  BY DEF IsSeq
<1>2. (\A i \in 1..Len(s) : s[i] \in S) /\ x \in S
  OBVIOUS
<1> HIDE DEF S
<1>3. s \in Seq(S)
  BY <1>1, <1>2
<1> QED BY <1>2, <1>3, AppendIsConcat

\* Two at once are one after the other.
LEMMA ConcatsTwo ==
    ASSUME NEW s, IsSeq(s), NEW x, NEW y
    PROVE  s \o <<x, y>> = Append(Append(s, x), y)
<1> DEFINE S == {s[i] : i \in 1..Len(s)} \union {x, y}
<1>1. Len(s) \in Nat /\ s = [i \in 1..Len(s) |-> s[i]]
  BY DEF IsSeq
<1>2. (\A i \in 1..Len(s) : s[i] \in S) /\ x \in S /\ y \in S
  OBVIOUS
<1> HIDE DEF S
<1>3. s \in Seq(S)
  BY <1>1, <1>2
<1>4. <<x>> \in Seq(S) /\ <<y>> \in Seq(S)
  BY <1>2
<1>5. s \o (<<x>> \o <<y>>) = (s \o <<x>>) \o <<y>>
  BY <1>3, <1>4, ConcatAssociative
<1>6. <<x>> \o <<y>> = <<x, y>>
  <2>1. Append(<<x>>, y) = <<x>> \o <<y>>
    BY <1>2, <1>4, AppendIsConcat
  <2>2. PICK u : u = Append(<<x>>, y)
    OBVIOUS
  <2>3. PICK v : v = <<x, y>>
    OBVIOUS
  <2>4. PICK w : w = <<x>>
    OBVIOUS
  <2>5. w \in Seq(S) /\ Len(w) = 1 /\ w[1] = x
    BY <1>4, <2>4
  <2>6. u \in Seq(S) /\ Len(u) = 2 /\ u[1] = x /\ u[2] = y
    <3>1. u = Append(w, y)
      BY <2>2, <2>4
    <3>2. u \in Seq(S) /\ Len(u) = Len(w) + 1 /\ u[Len(w) + 1] = y
      BY <1>2, <2>5, <3>1, AppendProperties
    <3>3. u[1] = w[1]
      BY <1>2, <2>5, <3>1, AppendProperties
    <3> QED BY <2>5, <3>2, <3>3
  <2>7. v \in Seq(S) /\ Len(v) = 2 /\ v[1] = x /\ v[2] = y
    BY <1>2, <2>3
  <2>8. \A i \in 1..2 : u[i] = v[i]
    BY <2>6, <2>7
  <2>9. u = v
    BY <2>6, <2>7, <2>8, SeqEqual
  <2> QED BY <2>1, <2>2, <2>3, <2>9
<1>7. Append(s, x) \in Seq(S) /\ Append(s, x) = s \o <<x>>
  BY <1>2, <1>3, AppendIsConcat, AppendProperties
<1>8. Append(Append(s, x), y) = Append(s, x) \o <<y>>
  BY <1>2, <1>7, AppendIsConcat
<1> QED BY <1>5, <1>6, <1>7, <1>8

\* The first n of a sequence.
LEMMA Cuts ==
    ASSUME NEW s, IsSeq(s), NEW n \in 0..Len(s)
    PROVE  /\ IsSeq(SubSeq(s, 1, n)) /\ Len(SubSeq(s, 1, n)) = n
           /\ \A i \in 1..n : SubSeq(s, 1, n)[i] = s[i]
<1> DEFINE S == {s[i] : i \in 1..Len(s)}
<1>1. Len(s) \in Nat
  BY DEF IsSeq
<1>2. n \in Nat /\ \A i \in 1..n : s[i] \in S
  BY <1>1
<1> HIDE DEF S
<1>3. /\ SubSeq(s, 1, n) \in Seq(S)
      /\ Len(SubSeq(s, 1, n)) = IF 1 <= n THEN n - 1 + 1 ELSE 0
      /\ \A i \in 1..(n - 1 + 1) : SubSeq(s, 1, n)[i] = s[1 + i - 1]
  BY <1>2, SubSeqProperties
<1>4. Len(SubSeq(s, 1, n)) = n
  BY <1>2, <1>3
<1>5. ASSUME NEW i \in 1..n
      PROVE  SubSeq(s, 1, n)[i] = s[i]
  <2>1. i \in 1..(n - 1 + 1) /\ 1 + i - 1 = i
    BY <1>2
  <2> QED BY <1>3, <2>1
<1> QED BY <1>3, <1>4, <1>5, InSeq

\* With as many elements it is a sequence as long.
LEMMA AsLong ==
    ASSUME NEW s, IsSeq(s), NEW t, t = [i \in 1..Len(s) |-> t[i]]
    PROVE  IsSeq(t) /\ Len(t) = Len(s)
<1> DEFINE S == {t[i] : i \in 1..Len(s)}
<1>1. Len(s) \in Nat
  BY DEF IsSeq
<1>2. \A i \in 1..Len(s) : t[i] \in S
  OBVIOUS
<1> HIDE DEF S
<1>3. t \in [1..Len(s) -> S]
  BY <1>2
<1>4. \A n \in Nat : \A u \in [1..n -> S] : u \in Seq(S) /\ Len(u) = n
  OBVIOUS
<1> QED BY <1>1, <1>3, <1>4, InSeq
-----------------------------------------------------------------------------
(* Stacks of frames with their contexts. *)

\* The lower part of a stack is sound, if its contexts have the scopes they should have.
LEMMA Lower ==
    ASSUME NEW st, NEW cs, Sound(st, cs), NEW k \in 1..Len(st),
           NEW st2, IsSeq(st2), Len(st2) = k, \A n \in 1..k : st2[n] = st[n],
           NEW d, Contexts(d),
           \A n \in 1..k : st[n].ctx <= Len(d) /\ st[n].base <= Len(d),
           \A n \in 1..k : n = k \/ OnTop(st, n) => Len(d[st[n].ctx].scopes) = st[n].depth,
           \A n \in 1..k : st[n].end.op \in OwnScopes =>
                              Agree(st[n].before, d[st[n - 1].ctx].scopes)
    PROVE  Sound(st2, d)
<1>1. /\ Frames(st) /\ Ordered(st) /\ Nested(st, cs) /\ Deep(st, cs) /\ Guarded(st)
      /\ Len(st) \in Nat /\ k \in Nat /\ k <= Len(st) /\ k > 0 /\ Len(d) \in Nat
  BY DEF Sound, Frames, IsSeq, Contexts
<1>2. \A n \in 1..k : n \in 1..Len(st) /\ (n > 1 => n - 1 \in 1..k)
  BY <1>1
<1>3. \A n \in 1..k : /\ st[n].ctx \in Nat /\ st[n].ctx > 0 /\ st[n].ctx \in 1..Len(d)
  BY <1>1, <1>2 DEF Nested, Frames, IsFrame
<1>4. Frames(st2)
  BY <1>1, <1>2 DEF Frames
<1>5. Ordered(st2)
  BY <1>1, <1>2 DEF Ordered
<1>6. Nested(st2, d)
  <2>1. ASSUME NEW n \in 1..k
        PROVE  /\ st2[n].ctx \in 1..Len(d) /\ st2[n].base <= Len(d)
               /\ n > 1 => st2[n].ctx > st2[n].base \/ st2[n].ctx = st2[n - 1].ctx
               /\ \A m \in 1..(n - 1) : /\ st2[m].ctx <= st2[n].base /\ st2[m].base <= st2[n].base
                                       /\ st2[m].ctx <= st2[n].ctx
    <3>1. \A m \in 1..(n - 1) : st2[m] = st[m]
      BY <1>1
    <3> QED BY <1>1, <1>2, <1>3, <3>1 DEF Nested
  <2> QED BY <2>1 DEF Nested
<1>7. \A n \in 1..k : OnTop(st2, n) => n = k \/ OnTop(st, n)
  <2>1. \A n \in 1..k : n # k => n + 1 \in 1..k
    BY <1>1
  <2> QED BY <2>1 DEF OnTop
<1>8. Deep(st2, d)
  <2>1. ASSUME NEW n \in 1..k
        PROVE  /\ n > 1 /\ st2[n].ctx = st2[n - 1].ctx =>
                     st2[n].depth = st2[n - 1].depth + (IF st2[n].end.op = "macro" THEN 1 ELSE 0)
               /\ st2[n].end.op = "macro" => st2[n].depth > 0
    BY <1>1, <1>2 DEF Deep
  <2>2. ASSUME NEW n \in 1..k, OnTop(st2, n)
        PROVE  Len(d[st2[n].ctx].scopes) = st2[n].depth
    BY <1>7, <2>2
  <2> QED BY <2>1, <2>2 DEF Deep
<1>9. Guarded(st2)
  <2>1. ASSUME NEW n \in 1..k, st2[n].end.op \in OwnScopes, NEW m \in n..k,
               st2[m].ctx = st2[n - 1].ctx
        PROVE  (m = n /\ st2[n].end.op = "include") \/ st2[m].depth > Len(st2[n].before)
    <3>1. n # 1
      BY <1>1, <1>5, <2>1 DEF Ordered, OwnScopes
    <3>2. m \in 1..k /\ m \in n..Len(st) /\ n - 1 \in 1..k
      BY <1>1, <3>1
    <3>3. st2[m] = st[m] /\ st2[n - 1] = st[n - 1] /\ st2[n] = st[n] /\ n \in 1..Len(st)
      BY <1>2, <3>2
    <3> QED BY <1>1, <2>1, <3>2, <3>3 DEF Guarded
  <2> QED BY <2>1 DEF Guarded
<1>10. Kept(st2, d)
  <2>1. ASSUME NEW n \in 1..k, st2[n].end.op \in OwnScopes
        PROVE  Agree(st2[n].before, d[st2[n - 1].ctx].scopes)
    <3>1. n # 1
      BY <1>1, <1>5, <2>1 DEF Ordered, OwnScopes
    <3>2. st2[n - 1] = st[n - 1] /\ st2[n] = st[n]
      BY <1>2, <3>1
    <3> QED BY <2>1, <3>2
  <2> QED BY <2>1 DEF Kept
<1> QED BY <1>4, <1>5, <1>6, <1>8, <1>9, <1>10 DEF Sound

\* Agree up to n scopes.
Follows(s, t, n) ==
    \A i \in 1..n :
        \A v \in (DOMAIN s[i] \union DOMAIN t[i]) \ {"self"} :
            v \in DOMAIN s[i] /\ v \in DOMAIN t[i] /\ s[i][v] = t[i][v]

\* What agreed goes on agreeing with scopes that follow them.
LEMMA AgreeFollows ==
    ASSUME NEW b, NEW s, NEW t, NEW n \in Nat, IsSeq(b), Len(b) <= n, Agree(b, s), Follows(s, t, n)
    PROVE  Agree(b, t)
<1>1. DOMAIN b = 1..Len(b) /\ Len(b) \in Nat
  BY DEF IsSeq
<1>2. \A i \in 1..Len(b) : i \in 1..n
  BY <1>1
<1>3. ASSUME NEW i \in DOMAIN b, NEW v \in (DOMAIN b[i] \union DOMAIN t[i]) \ {"self"}
      PROVE  v \in DOMAIN b[i] /\ v \in DOMAIN t[i] /\ b[i][v] = t[i][v]
  <2>1. i \in DOMAIN b /\ i \in 1..n
    BY <1>1, <1>2
  <2>2. CASE v \in DOMAIN b[i]
    <3>1. v \in DOMAIN s[i] /\ b[i][v] = s[i][v]
      BY <2>1, <2>2 DEF Agree
    <3>2. v \in DOMAIN t[i] /\ s[i][v] = t[i][v]
      BY <2>1, <3>1 DEF Follows
    <3> QED BY <2>2, <3>1, <3>2
  <2>3. CASE v \in DOMAIN t[i]
    <3>1. v \in DOMAIN s[i] /\ s[i][v] = t[i][v]
      BY <2>1, <2>3 DEF Follows
    <3>2. v \in DOMAIN b[i] /\ b[i][v] = s[i][v]
      BY <2>1, <3>1 DEF Agree
    <3> QED BY <2>3, <3>1, <3>2
  <2> QED BY <2>2, <2>3
<1> QED BY <1>3 DEF Agree

\* The last of c's scopes may be another one, and self.
Writes(cs, d, c) ==
    /\ Contexts(d) /\ Len(d) = Len(cs)
    /\ \A i \in 1..Len(cs) : i # c => d[i] = cs[i]
    /\ Len(d[c].scopes) = Len(cs[c].scopes)
    /\ Follows(cs[c].scopes, d[c].scopes, Len(cs[c].scopes) - 1)

\* A body may write in its own scope.
LEMMA WritesSound ==
    ASSUME NEW st, NEW cs, Sound(st, cs), st[Len(st)].end.op # "include",
           NEW d, Writes(cs, d, st[Len(st)].ctx)
    PROVE  Sound(st, d)
<1> DEFINE c == st[Len(st)].ctx
<1>1. /\ Frames(st) /\ Contexts(cs) /\ Ordered(st) /\ Nested(st, cs) /\ Deep(st, cs)
      /\ Guarded(st) /\ Kept(st, cs) /\ Len(st) \in Nat /\ Len(st) > 0 /\ IsSeq(st)
      /\ Len(st) \in 1..Len(st)
  BY DEF Sound, Frames, IsSeq
<1>2. /\ Contexts(d) /\ Len(d) = Len(cs) /\ Len(cs) \in Nat
      /\ \A i \in 1..Len(cs) : i # c => d[i] = cs[i]
      /\ Len(d[c].scopes) = Len(cs[c].scopes)
      /\ Follows(cs[c].scopes, d[c].scopes, Len(cs[c].scopes) - 1)
  BY DEF Writes, Contexts, IsSeq
<1>3. \A n \in 1..Len(st) : st[n].ctx \in 1..Len(cs) /\ st[n].base <= Len(cs) /\ st[n].ctx \in Nat
  BY <1>1 DEF Nested, Frames, IsFrame
<1>4. \A n \in 1..Len(st) : Len(d[st[n].ctx].scopes) = Len(cs[st[n].ctx].scopes)
  BY <1>2, <1>3
<1> HIDE DEF c
<1>5. ASSUME NEW n \in 1..Len(st), st[n].end.op \in OwnScopes
      PROVE  Agree(st[n].before, d[st[n - 1].ctx].scopes)
  <2>1. n - 1 \in 1..Len(st)
    BY <1>1, <1>5 DEF Ordered, OwnScopes
  <2>2. Agree(st[n].before, cs[st[n - 1].ctx].scopes)
    BY <1>1, <1>5 DEF Kept
  <2>3. CASE st[n - 1].ctx # c
    BY <1>2, <1>3, <2>1, <2>2, <2>3
  <2>4. CASE st[n - 1].ctx = c
    <3>1. Len(st) \in n..Len(st)
      BY <1>1
    <3>2. st[Len(st)].depth > Len(st[n].before)
      BY <1>1, <1>5, <2>4, <3>1 DEF Guarded, c
    <3>3. Len(cs[c].scopes) = st[Len(st)].depth
      BY <1>1 DEF Deep, OnTop, c
    <3>4. IsSeq(st[n].before) /\ Len(st[n].before) \in Nat /\ st[Len(st)].depth \in Nat
      BY <1>1 DEF Frames, IsFrame, IsSeq
    <3>5. Len(cs[c].scopes) - 1 \in Nat /\ Len(st[n].before) <= Len(cs[c].scopes) - 1
      BY <3>2, <3>3, <3>4
    <3>6. Agree(st[n].before, d[c].scopes)
      BY <1>2, <2>2, <2>4, <3>4, <3>5, AgreeFollows
    <3> QED BY <2>4, <3>6
  <2> QED BY <2>3, <2>4
<1>6. \A n \in 1..Len(st) : n = Len(st) \/ OnTop(st, n) => Len(d[st[n].ctx].scopes) = st[n].depth
  BY <1>1, <1>4 DEF Deep, OnTop
<1>7. PICK k \in 1..Len(st) : k = Len(st)
  BY <1>1
<1>8. \A n \in 1..k : /\ st[n].ctx <= Len(d) /\ st[n].base <= Len(d)
                      /\ n = k \/ OnTop(st, n) => Len(d[st[n].ctx].scopes) = st[n].depth
                      /\ st[n].end.op \in OwnScopes =>
                            Agree(st[n].before, d[st[n - 1].ctx].scopes)
  BY <1>2, <1>3, <1>5, <1>6, <1>7
<1>9. IsSeq(st) /\ Contexts(d)
  BY <1>1, <1>2
<1> QED BY <1>7, <1>8, <1>9, Lower

\* The frame on top may have something else to do.
LEMMA TodoSound ==
    ASSUME NEW st, NEW cs, Sound(st, cs), NEW st2, IsSeq(st2), Len(st2) = Len(st),
           \A n \in 1..Len(st) : n # Len(st) => st2[n] = st[n],
           IsFrame(Last(st2)),
           Last(st2).ctx = Last(st).ctx /\ Last(st2).base = Last(st).base,
           Last(st2).depth = Last(st).depth /\ Last(st2).before = Last(st).before,
           Last(st2).end.op = Last(st).end.op,
           Last(st).end.op = "include" => Last(st2).todo = <<>>
    PROVE  Sound(st2, cs)
<1>1. /\ Frames(st) /\ Contexts(cs) /\ Ordered(st) /\ Nested(st, cs) /\ Deep(st, cs)
      /\ Guarded(st) /\ Kept(st, cs) /\ Len(st) \in Nat /\ Len(st) > 0
  BY DEF Sound, Frames, IsSeq
<1>2. \A n \in 1..Len(st) :
         /\ IsFrame(st2[n])
         /\ st2[n].ctx = st[n].ctx /\ st2[n].base = st[n].base
         /\ st2[n].depth = st[n].depth /\ st2[n].before = st[n].before
         /\ st2[n].end.op = st[n].end.op
         /\ st[n].end.op = "include" => st2[n].todo = <<>>
  BY <1>1 DEF Last, Frames, Ordered
<1>3. \A n \in 1..Len(st) : n # 1 => n - 1 \in 1..Len(st)
  BY <1>1
<1>4. Frames(st2)
  BY <1>1, <1>2 DEF Frames
<1>5. Ordered(st2)
  BY <1>1, <1>2, <1>3 DEF Ordered
<1>6. Nested(st2, cs)
  <2>1. ASSUME NEW n \in 1..Len(st)
        PROVE  /\ st2[n].ctx \in 1..Len(cs) /\ st2[n].base <= Len(cs)
               /\ n > 1 => st2[n].ctx > st2[n].base \/ st2[n].ctx = st2[n - 1].ctx
               /\ \A m \in 1..(n - 1) : /\ st2[m].ctx <= st2[n].base /\ st2[m].base <= st2[n].base
                                       /\ st2[m].ctx <= st2[n].ctx
    <3>1. \A m \in 1..(n - 1) : m \in 1..Len(st)
      BY <1>1
    <3>2. n > 1 => n - 1 \in 1..Len(st)
      BY <1>1
    <3> QED BY <1>1, <1>2, <3>1, <3>2 DEF Nested
  <2> QED BY <2>1 DEF Nested
<1>7. \A n \in 1..Len(st) : OnTop(st2, n) <=> OnTop(st, n)
  <2>1. \A n \in 1..Len(st) : n # Len(st) => n + 1 \in 1..Len(st)
    BY <1>1
  <2> QED BY <1>2, <2>1 DEF OnTop
<1>8. Deep(st2, cs)
  <2>1. ASSUME NEW n \in 1..Len(st)
        PROVE  /\ n > 1 /\ st2[n].ctx = st2[n - 1].ctx =>
                     st2[n].depth = st2[n - 1].depth + (IF st2[n].end.op = "macro" THEN 1 ELSE 0)
               /\ OnTop(st2, n) => Len(cs[st2[n].ctx].scopes) = st2[n].depth
               /\ st2[n].end.op = "macro" => st2[n].depth > 0
    <3>1. n > 1 => n - 1 \in 1..Len(st)
      BY <1>1
    <3> QED BY <1>1, <1>2, <1>7, <3>1 DEF Deep
  <2> QED BY <2>1 DEF Deep
<1>9. Guarded(st2)
  <2>1. ASSUME NEW n \in 1..Len(st), st2[n].end.op \in OwnScopes, NEW m \in n..Len(st),
               st2[m].ctx = st2[n - 1].ctx
        PROVE  (m = n /\ st2[n].end.op = "include") \/ st2[m].depth > Len(st2[n].before)
    <3>1. n - 1 \in 1..Len(st) /\ m \in 1..Len(st)
      BY <1>1, <1>5, <2>1 DEF Ordered, OwnScopes
    <3> QED BY <1>1, <1>2, <2>1, <3>1 DEF Guarded
  <2> QED BY <2>1 DEF Guarded
<1>10. Kept(st2, cs)
  <2>1. ASSUME NEW n \in 1..Len(st), st2[n].end.op \in OwnScopes
        PROVE  Agree(st2[n].before, cs[st2[n - 1].ctx].scopes)
    <3>1. n - 1 \in 1..Len(st)
      BY <1>1, <1>5, <2>1 DEF Ordered, OwnScopes
    <3> QED BY <1>1, <1>2, <2>1, <3>1 DEF Kept
  <2> QED BY <2>1 DEF Kept
<1> QED BY <1>1, <1>4, <1>5, <1>6, <1>8, <1>9, <1>10 DEF Sound

\* What is above frame k goes, and with it the contexts above b.
LEMMA UnwoundSound ==
    ASSUME NEW st, NEW cs, Sound(st, cs), NEW k \in 1..Len(st), NEW b \in 0..Len(cs),
           Len(cs[st[k].ctx].scopes) = st[k].depth, st[k].ctx <= b, st[k].base <= b
    PROVE  Sound(SubSeq(st, 1, k), SubSeq(cs, 1, b))
<1> DEFINE st2 == SubSeq(st, 1, k)
           d == SubSeq(cs, 1, b)
<1>1. /\ Frames(st) /\ Contexts(cs) /\ Ordered(st) /\ Nested(st, cs) /\ Deep(st, cs)
      /\ Kept(st, cs) /\ Len(st) \in Nat /\ Len(cs) \in Nat /\ IsSeq(st) /\ IsSeq(cs)
      /\ k \in 0..Len(st)
  BY DEF Sound, Frames, Contexts, IsSeq
<1>2. IsSeq(st2) /\ Len(st2) = k /\ \A n \in 1..k : st2[n] = st[n]
  BY <1>1, Cuts
<1>3. IsSeq(d) /\ Len(d) = b /\ \A i \in 1..b : d[i] = cs[i]
  BY <1>1, Cuts
<1> HIDE DEF st2, d
<1>4. Contexts(d)
  BY <1>1, <1>3 DEF Contexts
<1>5. ASSUME NEW n \in 1..k
      PROVE  st[n].ctx \in 1..b /\ st[n].base <= b
  <2>0. n \in 1..Len(st)
    BY <1>1
  <2>a. st[n].ctx \in Nat /\ st[n].base \in Nat
    BY <1>1, <2>0 DEF Frames, IsFrame
  <2>b. st[n].ctx \in 1..Len(cs)
    BY <1>1, <2>0 DEF Nested
  <2>1. st[n].ctx \in Nat /\ st[n].base \in Nat /\ st[n].ctx > 0
    BY <1>1, <2>a, <2>b
  <2>2. st[k].ctx \in Nat /\ st[k].base \in Nat
    BY <1>1 DEF Frames, IsFrame
  <2>3. CASE n = k
    BY <2>1, <2>3
  <2>4. CASE n # k
    <3>1. n \in 1..(k - 1)
      BY <2>4
    <3>2. st[n].ctx <= st[k].ctx /\ st[n].base <= st[k].base
      BY <1>1, <3>1 DEF Nested
    <3> QED BY <2>1, <2>2, <3>2
  <2> QED BY <2>3, <2>4
<1>6. \A n \in 1..k : n \in 1..Len(st) /\ d[st[n].ctx] = cs[st[n].ctx]
  BY <1>1, <1>3, <1>5
<1>7. \A n \in 1..k : n = k \/ OnTop(st, n) => Len(d[st[n].ctx].scopes) = st[n].depth
  BY <1>1, <1>6 DEF Deep
<1>8. ASSUME NEW n \in 1..k, st[n].end.op \in OwnScopes
      PROVE  Agree(st[n].before, d[st[n - 1].ctx].scopes)
  <2>1. n \in 1..Len(st) /\ n - 1 \in 1..k
    BY <1>1, <1>8 DEF Ordered, OwnScopes
  <2> QED BY <1>1, <1>6, <1>8, <2>1 DEF Kept
<1>9. \A n \in 1..k : st[n].ctx <= Len(d) /\ st[n].base <= Len(d)
  BY <1>3, <1>5
<1>10. Sound(st2, d)
  BY <1>2, <1>4, <1>7, <1>8, <1>9, Lower
<1> QED BY <1>10 DEF st2, d

\* Under the frame on top is one whose context has the scopes it should have.
LEMMA UnderTop ==
    ASSUME NEW st, NEW cs, Sound(st, cs), Len(st) > 1,
           Last(st).end.op = "macro" => Last(st).ctx > Last(st).base
    PROVE  LET k == Len(st) - 1
           IN /\ k \in 1..Len(st) /\ Len(cs[st[k].ctx].scopes) = st[k].depth
              /\ st[k].ctx <= Last(st).base /\ st[k].base <= Last(st).base
              /\ Last(st).base \in 0..Len(cs)
<1>1. /\ Frames(st) /\ Ordered(st) /\ Nested(st, cs) /\ Deep(st, cs) /\ Len(st) \in Nat
      /\ Len(st) \in 1..Len(st) /\ Len(cs) \in Nat
  BY DEF Sound, Frames, Contexts, IsSeq
<1>0. PICK k : k = Len(st) - 1
  OBVIOUS
<1>2. k \in 1..Len(st) /\ k = Len(st) - 1 /\ k + 1 = Len(st) /\ k \in 1..(Len(st) - 1)
  BY <1>0, <1>1
<1>3. st[k].ctx <= Last(st).base /\ st[k].base <= Last(st).base /\ Last(st).base <= Len(cs)
  BY <1>1, <1>2 DEF Nested, Last
<1>4. /\ Last(st).base \in Nat /\ Last(st).depth \in Nat /\ st[k].depth \in Nat
      /\ Last(st).ctx \in Nat /\ st[k].ctx \in Nat
  BY <1>1, <1>2 DEF Frames, IsFrame, Last
<1>5. CASE Last(st).ctx > Last(st).base
  <2>1. OnTop(st, k)
    BY <1>2, <1>5 DEF OnTop, Last
  <2> QED BY <1>1, <1>2, <1>3, <1>4, <2>1 DEF Deep
<1>6. CASE ~(Last(st).ctx > Last(st).base)
  <2>1. Last(st).ctx = st[k].ctx
    BY <1>1, <1>2, <1>6 DEF Nested, Last
  <2>2. Last(st).end.op # "macro"
    BY <1>6
  <2>3. Last(st).depth = st[k].depth
    BY <1>1, <1>2, <1>4, <2>1, <2>2 DEF Deep, Last
  <2>4. Len(cs[Last(st).ctx].scopes) = Last(st).depth
    BY <1>1 DEF Deep, OnTop, Last
  <2> QED BY <1>2, <1>3, <1>4, <2>1, <2>3, <2>4
<1> QED BY <1>5, <1>6

\* A handler returns: its frame goes, and the contexts it has made.
LEMMA ReturnSound ==
    ASSUME NEW st, NEW cs, Sound(st, cs), Len(st) > 1,
           Last(st).end.op = "macro" => Last(st).ctx > Last(st).base
    PROVE  Sound(SubSeq(st, 1, Len(st) - 1), SubSeq(cs, 1, Last(st).base))
BY UnderTop, UnwoundSound

\* Frame f may stand on frame g.
Stands(f, g) ==
    /\ f.end.op # "main"
    /\ f.end.op = "include" => f.todo = <<>> /\ f.ctx = g.ctx
    /\ f.end.op = "included" <=> g.end.op = "include"
    /\ f.end.op = "included" => f.ctx > f.base
    /\ f.ctx > f.base \/ f.ctx = g.ctx

\* The context f shares with g has the scopes that f should have, more than there were
\* for whom f must not disturb.
Shares(f, g) ==
    f.ctx = g.ctx =>
        /\ f.depth = g.depth + (IF f.end.op = "macro" THEN 1 ELSE 0)
        /\ f.end.op \in OwnScopes => f.end.op = "include" \/ f.depth > Len(f.before)

\* A frame is put on the stack.
LEMMA Push ==
    ASSUME NEW st, NEW cs, Sound(st, cs), NEW f, IsFrame(f), NEW d, Contexts(d),
           NEW st2, IsSeq(st2), Len(st2) = Len(st) + 1,
           \A n \in 1..Len(st) : st2[n] = st[n], st2[Len(st) + 1] = f,
           Stands(f, Last(st)), Shares(f, Last(st)),
           f.ctx \in 1..Len(d), f.base <= Len(d),
           \A n \in 1..Len(st) : st[n].ctx <= f.base /\ st[n].base <= f.base,
           Len(d[f.ctx].scopes) = f.depth, f.end.op = "macro" => f.depth > 0,
           \A n \in 1..Len(st) : OnTop(st, n) /\ (n # Len(st) \/ f.ctx > f.base) =>
                                    Len(d[st[n].ctx].scopes) = st[n].depth,
           \A n \in 1..Len(st) : st[n].end.op \in OwnScopes =>
                                    Agree(st[n].before, d[st[n - 1].ctx].scopes),
           f.end.op \in OwnScopes => Agree(f.before, d[Last(st).ctx].scopes)
    PROVE  Sound(st2, d)
<1>1. /\ Frames(st) /\ Ordered(st) /\ Nested(st, cs) /\ Deep(st, cs) /\ Guarded(st)
      /\ Len(st) \in Nat /\ Len(st) > 0 /\ Len(d) \in Nat
  BY DEF Sound, Frames, Contexts, IsSeq
<1>2. PICK L : L = Len(st)
  OBVIOUS
<1>3. L \in Nat /\ L > 0 /\ L \in 1..L /\ Len(st2) = L + 1 /\ st2[L + 1] = f
      /\ Last(st) = st[L] /\ \A n \in 1..L : st2[n] = st[n]
  BY <1>1, <1>2 DEF Last
<1>4. \A n \in 1..(L + 1) : n \in 1..L \/ n = L + 1
  BY <1>3
<1>5. \A n \in 1..(L + 1) : n > 1 => n - 1 \in 1..L
  BY <1>3
<1>6. \A n \in 1..L : n \in 1..(L + 1)
  BY <1>3
<1>7. \A n \in 1..L : st[n].ctx \in Nat /\ st[n].base \in Nat /\ st[n].depth \in Nat
  BY <1>1, <1>2 DEF Frames, IsFrame
<1>8. \A n \in 1..L : st[n].ctx \in 1..Len(cs)
  BY <1>1, <1>2 DEF Nested
<1>9. \A n \in 1..L : st[n].ctx > 0
  <2>1. Len(cs) \in Nat
    BY DEF Sound, Contexts, IsSeq
  <2> QED BY <1>8, <2>1
<1>10. f.ctx \in Nat /\ f.base \in Nat /\ f.depth \in Nat
  BY DEF IsFrame
<1>11. \A n \in 1..L : st[n].ctx <= f.base /\ st[n].base <= f.base /\ st[n].ctx <= f.ctx
  <2>1. ASSUME NEW n \in 1..L
        PROVE  st[n].ctx <= f.base /\ st[n].base <= f.base
    BY <1>2
  <2>2. ASSUME NEW n \in 1..L
        PROVE  st[n].ctx <= f.ctx
    <3>1. CASE f.ctx > f.base
      BY <1>7, <1>10, <2>1, <3>1
    <3>2. CASE f.ctx = st[L].ctx /\ n = L
      BY <1>7, <3>2
    <3>3. CASE f.ctx = st[L].ctx /\ n # L
      <4>1. n \in 1..(L - 1)
        BY <1>3, <3>3
      <4>2. st[n].ctx <= st[L].ctx
        BY <1>1, <1>2, <1>3, <4>1 DEF Nested
      <4> QED BY <3>3, <4>2
    <3> QED BY <1>3, <3>1, <3>2, <3>3 DEF Stands
  <2> QED BY <2>1, <2>2
<1>12. Frames(st2)
  BY <1>1, <1>2, <1>3, <1>4 DEF Frames
<1>13. Ordered(st2)
  <2>1. ASSUME NEW n \in 1..L
        PROVE  /\ st2[n].end.op = "main" <=> n = 1
               /\ st2[n].end.op = "include" =>
                     st2[n].todo = <<>> /\ n > 1 /\ st2[n].ctx = st2[n - 1].ctx
               /\ st2[n].end.op = "included" => n > 1 /\ st2[n - 1].end.op = "include"
               /\ n > 1 => (st2[n - 1].end.op = "include" => st2[n].end.op = "included"
                                                             /\ st2[n].ctx > st2[n].base)
    <3>1. n > 1 => n - 1 \in 1..L
      BY <1>5, <1>6
    <3> QED BY <1>1, <1>2, <1>3, <3>1 DEF Ordered
  <2>2. L + 1 > 1 /\ L + 1 - 1 = L /\ st2[L] = st[L]
    BY <1>3
  <2>3. /\ f.end.op = "main" <=> L + 1 = 1
        /\ f.end.op = "include" => f.todo = <<>> /\ L + 1 > 1 /\ f.ctx = st2[L].ctx
        /\ f.end.op = "included" => L + 1 > 1 /\ st2[L].end.op = "include"
        /\ st2[L].end.op = "include" => f.end.op = "included" /\ f.ctx > f.base
    BY <1>3, <2>2 DEF Stands
  <2> QED BY <1>3, <1>4, <2>1, <2>2, <2>3 DEF Ordered
<1>14. Nested(st2, d)
  <2>1. ASSUME NEW n \in 1..L
        PROVE  /\ st2[n].ctx \in 1..Len(d) /\ st2[n].base <= Len(d)
               /\ n > 1 => st2[n].ctx > st2[n].base \/ st2[n].ctx = st2[n - 1].ctx
               /\ \A m \in 1..(n - 1) : /\ st2[m].ctx <= st2[n].base /\ st2[m].base <= st2[n].base
                                       /\ st2[m].ctx <= st2[n].ctx
    <3>1. \A m \in 1..(n - 1) : m \in 1..L
      BY <1>3
    <3>2. n > 1 => n - 1 \in 1..L
      BY <1>5, <1>6
    <3>3. st[n].ctx \in 1..Len(d) /\ st[n].base <= Len(d)
      BY <1>1, <1>7, <1>9, <1>10, <1>11
    <3>4. n > 1 => st[n].ctx > st[n].base \/ st[n].ctx = st[n - 1].ctx
      BY <1>1, <1>2 DEF Nested
    <3>5. \A m \in 1..(n - 1) : /\ st[m].ctx <= st[n].base /\ st[m].base <= st[n].base
                                /\ st[m].ctx <= st[n].ctx
      BY <1>1, <1>2 DEF Nested
    <3> QED BY <1>3, <3>1, <3>2, <3>3, <3>4, <3>5
  <2>2. /\ f.ctx \in 1..Len(d) /\ f.base <= Len(d)
        /\ f.ctx > f.base \/ f.ctx = st2[L + 1 - 1].ctx
        /\ \A m \in 1..(L + 1 - 1) : /\ st2[m].ctx <= f.base /\ st2[m].base <= f.base
                                    /\ st2[m].ctx <= f.ctx
    <3>1. L + 1 - 1 = L /\ st2[L] = st[L]
      BY <1>3
    <3> QED BY <1>3, <1>11, <3>1 DEF Stands
  <2> QED BY <1>3, <1>4, <2>1, <2>2 DEF Nested
<1>15. \A n \in 1..L : OnTop(st2, n) => OnTop(st, n) /\ (n # L \/ f.ctx > f.base)
  <2>1. ASSUME NEW n \in 1..L, OnTop(st2, n)
        PROVE  OnTop(st, n) /\ (n # L \/ f.ctx > f.base)
    <3>1. n # L + 1
      BY <1>3
    <3>2. st2[n + 1].ctx > st2[n + 1].base
      BY <1>3, <2>1, <3>1 DEF OnTop
    <3>3. CASE n = L
      BY <1>2, <1>3, <3>2, <3>3 DEF OnTop
    <3>4. CASE n # L
      <4>1. n + 1 \in 1..L
        BY <1>3, <3>4
      <4> QED BY <1>3, <3>2, <3>4, <4>1 DEF OnTop
    <3> QED BY <3>3, <3>4
  <2> QED BY <2>1
<1>16. Deep(st2, d)
  <2>1. ASSUME NEW n \in 1..L
        PROVE  /\ n > 1 /\ st2[n].ctx = st2[n - 1].ctx =>
                     st2[n].depth = st2[n - 1].depth + (IF st2[n].end.op = "macro" THEN 1 ELSE 0)
               /\ OnTop(st2, n) => Len(d[st2[n].ctx].scopes) = st2[n].depth
               /\ st2[n].end.op = "macro" => st2[n].depth > 0
    <3>1. n > 1 => n - 1 \in 1..L
      BY <1>5, <1>6
    <3>2. OnTop(st2, n) => Len(d[st[n].ctx].scopes) = st[n].depth
      BY <1>2, <1>15
    <3> QED BY <1>1, <1>2, <1>3, <3>1, <3>2 DEF Deep
  <2>2. /\ f.ctx = st2[L + 1 - 1].ctx =>
              f.depth = st2[L + 1 - 1].depth + (IF f.end.op = "macro" THEN 1 ELSE 0)
        /\ Len(d[f.ctx].scopes) = f.depth
        /\ f.end.op = "macro" => f.depth > 0
    <3>1. L + 1 - 1 = L /\ st2[L] = st[L]
      BY <1>3
    <3> QED BY <1>3, <3>1 DEF Shares
  <2> QED BY <1>3, <1>4, <2>1, <2>2 DEF Deep
<1>17. Guarded(st2)
  <2>1. ASSUME NEW n \in 1..(L + 1), st2[n].end.op \in OwnScopes, NEW m \in n..(L + 1),
               st2[m].ctx = st2[n - 1].ctx
        PROVE  (m = n /\ st2[n].end.op = "include") \/ st2[m].depth > Len(st2[n].before)
    <3>1. n > 1 /\ n - 1 \in 1..L
      <4>1. n # 1
        BY <1>3, <1>13, <2>1 DEF Ordered, OwnScopes
      <4> QED BY <1>3, <4>1
    <3>2. CASE m # L + 1
      <4>1. n \in 1..L /\ m \in 1..L /\ m \in n..L
        BY <1>3, <2>1, <3>2
      <4> QED BY <1>1, <1>2, <1>3, <2>1, <3>1, <4>1 DEF Guarded
    <3>3. CASE m = L + 1 /\ n = L + 1
      <4>1. n - 1 = L
        BY <1>3, <3>3
      <4>2. st2[n] = f /\ st2[m] = f /\ st2[n - 1] = st[L]
        BY <1>3, <3>3, <4>1
      <4> QED BY <1>3, <2>1, <3>3, <4>2 DEF Shares
    <3>4. CASE m = L + 1 /\ n # L + 1
      <4>1. n \in 1..L /\ L \in n..L
        BY <1>3, <3>4
      <4>2. f.ctx = st[n - 1].ctx
        BY <1>3, <2>1, <3>1, <3>4
      <4>3. ~(f.ctx > f.base)
        BY <1>7, <1>10, <1>11, <3>1, <4>2
      <4>4. f.ctx = st[L].ctx /\ st[L].end.op # "include"
        BY <1>3, <4>3 DEF Stands
      <4>5. st[n].end.op \in OwnScopes
        BY <1>3, <2>1, <4>1
      <4>6. st[L].depth > Len(st[n].before)
        BY <1>1, <1>2, <4>1, <4>2, <4>4, <4>5 DEF Guarded
      <4>7. Len(st[n].before) \in Nat
        BY <1>1, <1>2, <4>1 DEF Frames, IsFrame, IsSeq
      <4>8. f.depth >= st[L].depth
        BY <1>3, <1>7, <1>10, <4>4 DEF Shares
      <4>9. f.depth > Len(st[n].before)
        BY <1>3, <1>7, <1>10, <4>6, <4>7, <4>8
      <4> QED BY <1>3, <3>4, <4>1, <4>9
    <3> QED BY <3>2, <3>3, <3>4
  <2> QED BY <1>3, <2>1 DEF Guarded
<1>18. Kept(st2, d)
  <2>1. ASSUME NEW n \in 1..L, st2[n].end.op \in OwnScopes
        PROVE  Agree(st2[n].before, d[st2[n - 1].ctx].scopes)
    <3>1. n - 1 \in 1..L
      BY <1>3, <1>6, <1>13, <2>1 DEF Ordered, OwnScopes
    <3> QED BY <1>2, <1>3, <2>1, <3>1
  <2>2. f.end.op \in OwnScopes => Agree(f.before, d[st2[L + 1 - 1].ctx].scopes)
    <3>1. L + 1 - 1 = L /\ st2[L] = st[L]
      BY <1>3
    <3> QED BY <1>3, <3>1
  <2> QED BY <1>3, <1>4, <2>1, <2>2 DEF Kept
<1> QED BY <1>12, <1>13, <1>14, <1>16, <1>17, <1>18 DEF Sound

\* A frame with a context of its own, or that goes on in the context below with as
\* many scopes, is put on the stack.
LEMMA PushSound ==
    ASSUME NEW st, NEW d, Sound(st, d), NEW f, IsFrame(f),
           NEW st2, IsSeq(st2), Len(st2) = Len(st) + 1,
           \A n \in 1..Len(st) : st2[n] = st[n], st2[Len(st) + 1] = f,
           Stands(f, Last(st)), f.ctx \in 1..Len(d), f.base <= Len(d),
           \A n \in 1..Len(st) : st[n].ctx <= f.base /\ st[n].base <= f.base,
           f.depth = Len(d[f.ctx].scopes), f.end.op = "macro" => f.depth > 0,
           f.ctx > f.base \/ f.end.op \notin OwnScopes \/ f.end.op = "include",
           f.end.op \in OwnScopes => f.before = d[Last(st).ctx].scopes
    PROVE  Sound(st2, d)
<1>1. /\ Frames(st) /\ Contexts(d) /\ Nested(st, d) /\ Deep(st, d) /\ Kept(st, d)
      /\ Len(st) \in Nat /\ Len(st) > 0 /\ Len(st) \in 1..Len(st)
  BY DEF Sound, Frames, IsSeq
<1>2. \A n \in 1..Len(st) : st[n].ctx \in Nat /\ st[n].base \in Nat /\ st[n].depth \in Nat
  BY <1>1 DEF Frames, IsFrame
<1>3. f.ctx \in Nat /\ f.base \in Nat /\ f.depth \in Nat
  BY DEF IsFrame
<1>4. Shares(f, Last(st))
  <2>1. SUFFICES ASSUME f.ctx = Last(st).ctx
                 PROVE  /\ f.depth = Last(st).depth /\ f.end.op # "macro"
                        /\ f.end.op \in OwnScopes => f.end.op = "include"
    BY <1>1, <1>2, <1>3 DEF Shares, Last
  <2>2. f.ctx <= f.base
    BY <1>1, <2>1 DEF Last
  <2>3. f.depth = Last(st).depth
    BY <1>1, <2>1 DEF Deep, OnTop, Last
  <2> QED BY <1>3, <2>2, <2>3 DEF OwnScopes
<1>5. f.end.op \in OwnScopes => Agree(f.before, d[Last(st).ctx].scopes)
  BY DEF Agree
<1>6. \A n \in 1..Len(st) : OnTop(st, n) => Len(d[st[n].ctx].scopes) = st[n].depth
  BY <1>1 DEF Deep
<1>7. \A n \in 1..Len(st) : st[n].end.op \in OwnScopes =>
                               Agree(st[n].before, d[st[n - 1].ctx].scopes)
  BY <1>1 DEF Kept
<1> QED BY <1>1, <1>4, <1>5, <1>6, <1>7, Push

\* More contexts.
Grows(cs, d) ==
    Contexts(d) /\ Len(d) >= Len(cs) /\ \A i \in 1..Len(cs) : d[i] = cs[i]

\* They disturb nobody.
LEMMA GrowsSound ==
    ASSUME NEW st, NEW cs, Sound(st, cs), NEW d, Grows(cs, d)
    PROVE  Sound(st, d)
<1>1. /\ Frames(st) /\ Ordered(st) /\ Nested(st, cs) /\ Deep(st, cs) /\ Kept(st, cs)
      /\ IsSeq(st) /\ Len(st) \in Nat /\ Len(st) > 0 /\ Len(st) \in 1..Len(st)
      /\ Len(cs) \in Nat /\ Contexts(d) /\ Len(d) \in Nat /\ Len(d) >= Len(cs)
  BY DEF Sound, Frames, Contexts, Grows, IsSeq
<1>2. \A n \in 1..Len(st) : st[n].ctx \in 1..Len(cs) /\ st[n].base <= Len(cs)
  BY <1>1 DEF Nested
<1>3. \A n \in 1..Len(st) : d[st[n].ctx] = cs[st[n].ctx]
  BY <1>2 DEF Grows
<1>4. \A n \in 1..Len(st) : st[n].base \in Nat
  BY <1>1 DEF Frames, IsFrame
<1>5. \A n \in 1..Len(st) : st[n].ctx <= Len(d) /\ st[n].base <= Len(d)
  BY <1>1, <1>2, <1>4
<1>6. \A n \in 1..Len(st) : n = Len(st) \/ OnTop(st, n) => Len(d[st[n].ctx].scopes) = st[n].depth
  BY <1>1, <1>3 DEF Deep, OnTop
<1>7. ASSUME NEW n \in 1..Len(st), st[n].end.op \in OwnScopes
      PROVE  Agree(st[n].before, d[st[n - 1].ctx].scopes)
  <2>1. n - 1 \in 1..Len(st)
    BY <1>1, <1>7 DEF Ordered, OwnScopes
  <2> QED BY <1>1, <1>3, <1>7, <2>1 DEF Kept
<1> QED BY <1>1, <1>5, <1>6, <1>7, Lower

\* What was written in the contexts that stay was written.
LEMMA CutWrites ==
    ASSUME NEW cs, NEW d, NEW c, Contexts(cs), Writes(cs, d, c), NEW b \in 0..Len(cs), c \in 1..b
    PROVE  Writes(SubSeq(cs, 1, b), SubSeq(d, 1, b), c)
<1> DEFINE cs2 == SubSeq(cs, 1, b)
           d2 == SubSeq(d, 1, b)
<1>1. IsSeq(cs) /\ IsSeq(d) /\ Len(d) = Len(cs) /\ Contexts(d)
  BY DEF Contexts, Writes
<1>2. IsSeq(cs2) /\ Len(cs2) = b /\ \A i \in 1..b : cs2[i] = cs[i]
  BY <1>1, Cuts
<1>3. IsSeq(d2) /\ Len(d2) = b /\ \A i \in 1..b : d2[i] = d[i]
  BY <1>1, Cuts
<1> HIDE DEF cs2, d2
<1>4. \A i \in 1..b : i \in 1..Len(cs)
  BY <1>1 DEF IsSeq
<1>5. Contexts(d2)
  BY <1>1, <1>3, <1>4 DEF Contexts
<1>6. Writes(cs2, d2, c)
  BY <1>2, <1>3, <1>4, <1>5 DEF Writes
<1> QED BY <1>6 DEF cs2, d2
-----------------------------------------------------------------------------
(* RenderContext. *)

\* Context c is another one.
Replaces(cs, d, c, y) ==
    Contexts(d) /\ Len(d) = Len(cs) /\ \A i \in 1..Len(cs) : d[i] = IF i = c THEN y ELSE cs[i]

\* EXCEPT does that.
LEMMA ReplacesIt ==
    ASSUME NEW cs, Contexts(cs), NEW c, NEW y, IsContext(y)
    PROVE  Replaces(cs, [cs EXCEPT ![c] = y], c, y)
<1>1. IsSeq(cs)
  BY DEF Contexts
<1>2. PICK d : d = [cs EXCEPT ![c] = y]
  OBVIOUS
<1>3. IsSeq(d) /\ Len(d) = Len(cs) /\ \A i \in 1..Len(cs) : d[i] = IF i = c THEN y ELSE cs[i]
  <2>1. DOMAIN cs = 1..Len(cs)
    BY <1>1 DEF IsSeq
  <2>2. d = [i \in 1..Len(cs) |-> d[i]] /\ \A i \in 1..Len(cs) : d[i] = IF i = c THEN y ELSE cs[i]
    BY <1>2, <2>1
  <2> QED BY <1>1, <2>2, AsLong
<1>4. Contexts(d)
  BY <1>3 DEF Contexts
<1> QED BY <1>2, <1>3, <1>4 DEF Replaces

\* In place of context c there is one whose scopes but the last are the same, or self
\* differs.
LEMMA Rewrites ==
    ASSUME NEW cs, Contexts(cs), NEW c \in 1..Len(cs), NEW y, IsContext(y),
           Len(y.scopes) = Len(cs[c].scopes),
           Follows(cs[c].scopes, y.scopes, Len(cs[c].scopes) - 1)
    PROVE  Writes(cs, [cs EXCEPT ![c] = y], c)
<1>1. PICK d : d = [cs EXCEPT ![c] = y]
  OBVIOUS
<1>2. Replaces(cs, d, c, y)
  BY <1>1, ReplacesIt
<1>3. Writes(cs, d, c)
  BY <1>2 DEF Replaces, Writes
<1> QED BY <1>1, <1>3

\* Nothing is a change, too.
LEMMA WritesNothing ==
    ASSUME NEW cs, Contexts(cs), NEW c
    PROVE  Writes(cs, cs, c)
BY DEF Writes, Follows

\* PutAll and Erase write in the last scope.
LEMMA PutAllIs ==
    ASSUME NEW x, IsContext(x), NEW scope
    PROVE  /\ IsContext(PutAll(x, scope)) /\ Len(PutAll(x, scope).scopes) = Len(x.scopes)
           /\ Follows(x.scopes, PutAll(x, scope).scopes, Len(x.scopes) - 1)
<1>1. IsSeq(x.scopes) /\ Len(x.scopes) \in Nat
  BY DEF IsContext, IsSeq
<1>2. PICK e : e = Merge(scope, x.scopes[Len(x.scopes)])
  OBVIOUS
<1>3. PICK s : s = [x.scopes EXCEPT ![Len(x.scopes)] = e]
  OBVIOUS
<1>4. IsSeq(s) /\ Len(s) = Len(x.scopes)
      /\ \A i \in 1..Len(x.scopes) : s[i] = IF i = Len(x.scopes) THEN e ELSE x.scopes[i]
  <2>1. DOMAIN x.scopes = 1..Len(x.scopes)
    BY <1>1 DEF IsSeq
  <2>2. s = [i \in 1..Len(x.scopes) |-> s[i]]
    BY <1>3, <2>1
  <2>3. \A i \in 1..Len(x.scopes) : s[i] = IF i = Len(x.scopes) THEN e ELSE x.scopes[i]
    BY <1>3, <2>1
  <2> QED BY <1>1, <2>2, <2>3, AsLong
<1>5. PutAll(x, scope) = [bound |-> x.bound, scopes |-> s, ext |-> x.ext]
  BY <1>2, <1>3 DEF PutAll, IsContext
<1>6. Follows(x.scopes, s, Len(x.scopes) - 1)
  BY <1>1, <1>4 DEF Follows
<1> QED BY <1>4, <1>5, <1>6 DEF IsContext

\* Erase takes a name out of the last scope only.
LEMMA EraseIs ==
    ASSUME NEW x, IsContext(x), NEW v
    PROVE  /\ IsContext(Erase(x, v)) /\ Len(Erase(x, v).scopes) = Len(x.scopes)
           /\ Follows(x.scopes, Erase(x, v).scopes, Len(x.scopes) - 1)
<1>1. IsSeq(x.scopes) /\ Len(x.scopes) \in Nat
  BY DEF IsContext, IsSeq
<1>2. PICK e : e = [w \in DOMAIN x.scopes[Len(x.scopes)] \ {v} |-> x.scopes[Len(x.scopes)][w]]
  OBVIOUS
<1>3. PICK s : s = [x.scopes EXCEPT ![Len(x.scopes)] = e]
  OBVIOUS
<1>4. IsSeq(s) /\ Len(s) = Len(x.scopes)
      /\ \A i \in 1..Len(x.scopes) : s[i] = IF i = Len(x.scopes) THEN e ELSE x.scopes[i]
  <2>1. DOMAIN x.scopes = 1..Len(x.scopes)
    BY <1>1 DEF IsSeq
  <2>2. s = [i \in 1..Len(x.scopes) |-> s[i]]
    BY <1>3, <2>1
  <2>3. \A i \in 1..Len(x.scopes) : s[i] = IF i = Len(x.scopes) THEN e ELSE x.scopes[i]
    BY <1>3, <2>1
  <2> QED BY <1>1, <2>2, <2>3, AsLong
<1>5. Erase(x, v) = [bound |-> x.bound, scopes |-> s, ext |-> x.ext]
  BY <1>2, <1>3 DEF Erase, IsContext
<1>6. Follows(x.scopes, s, Len(x.scopes) - 1)
  BY <1>1, <1>4 DEF Follows
<1> QED BY <1>4, <1>5, <1>6 DEF IsContext

\* The outermost scope has another self.
LEMMA SelfIs ==
    ASSUME NEW x, IsContext(x), NEW w, NEW y,
           y = [x EXCEPT !.scopes[1]["self"] = w]
    PROVE  /\ IsContext(y) /\ Len(y.scopes) = Len(x.scopes)
           /\ Follows(x.scopes, y.scopes, Len(x.scopes) - 1)
<1>1. IsSeq(x.scopes) /\ Len(x.scopes) \in Nat
  BY DEF IsContext, IsSeq
<1>2. PICK e : e = [x.scopes[1] EXCEPT !["self"] = w]
  OBVIOUS
<1>3. PICK s : s = [x.scopes EXCEPT ![1] = e]
  OBVIOUS
<1>4. IsSeq(s) /\ Len(s) = Len(x.scopes)
      /\ \A i \in 1..Len(x.scopes) : s[i] = IF i = 1 THEN e ELSE x.scopes[i]
  <2>1. DOMAIN x.scopes = 1..Len(x.scopes)
    BY <1>1 DEF IsSeq
  <2>2. s = [i \in 1..Len(x.scopes) |-> s[i]]
    BY <1>3, <2>1
  <2>3. \A i \in 1..Len(x.scopes) : s[i] = IF i = 1 THEN e ELSE x.scopes[i]
    BY <1>3, <2>1
  <2> QED BY <1>1, <2>2, <2>3, AsLong
<1>5. y = [bound |-> x.bound, scopes |-> s, ext |-> x.ext]
  BY <1>2, <1>3 DEF IsContext
<1>6. DOMAIN e = DOMAIN x.scopes[1] /\ \A v \in DOMAIN e : v # "self" => e[v] = x.scopes[1][v]
  BY <1>2
<1>7. \A i \in 1..Len(x.scopes) - 1 : i \in 1..Len(x.scopes)
  BY <1>1
<1>8. Follows(x.scopes, s, Len(x.scopes) - 1)
  BY <1>4, <1>6, <1>7 DEF Follows
<1>9. y.scopes = s
  BY <1>5
<1>10. IsContext(y)
  <2>1. PICK z : z = [bound |-> x.bound, scopes |-> s, ext |-> x.ext]
    OBVIOUS
  <2>2. IsContext(z)
    BY <1>4, <2>1 DEF IsContext
  <2>3. y = z
    BY <1>5, <2>1
  <2> QED BY <2>2, <2>3
<1> QED BY <1>4, <1>8, <1>9, <1>10

\* A scope is opened.
LEMMA EnterScopeIs ==
    ASSUME NEW x, IsContext(x), NEW scope
    PROVE  /\ IsContext(EnterScope(x, scope))
           /\ Len(EnterScope(x, scope).scopes) = Len(x.scopes) + 1
           /\ Follows(x.scopes, EnterScope(x, scope).scopes, Len(x.scopes))
<1>1. IsSeq(x.scopes)
  BY DEF IsContext
<1>2. PICK s : s = Append(x.scopes, scope)
  OBVIOUS
<1>3. IsSeq(s) /\ Len(s) = Len(x.scopes) + 1 /\ \A i \in 1..Len(x.scopes) : s[i] = x.scopes[i]
  BY <1>1, <1>2, Appends
<1>4. EnterScope(x, scope) = [bound |-> x.bound, scopes |-> s, ext |-> x.ext]
  <2>1. EnterScope(x, scope) = [x EXCEPT !.scopes = s]
    BY <1>2, Zenon DEF EnterScope
  <2> QED BY <2>1 DEF IsContext
<1> QED BY <1>3, <1>4 DEF IsContext, Follows

\* The last scope is closed.
LEMMA ExitScopeIs ==
    ASSUME NEW x, IsContext(x), Len(x.scopes) > 0
    PROVE  /\ IsContext(ExitScope(x)) /\ Len(ExitScope(x).scopes) = Len(x.scopes) - 1
           /\ Follows(x.scopes, ExitScope(x).scopes, Len(x.scopes) - 1)
<1>1. IsSeq(x.scopes) /\ Len(x.scopes) - 1 \in 0..Len(x.scopes)
  BY DEF IsContext, IsSeq
<1>2. PICK s : s = SubSeq(x.scopes, 1, Len(x.scopes) - 1)
  OBVIOUS
<1>3. IsSeq(s) /\ Len(s) = Len(x.scopes) - 1
      /\ \A i \in 1..Len(x.scopes) - 1 : s[i] = x.scopes[i]
  BY <1>1, <1>2, Cuts
<1>4. ExitScope(x) = [bound |-> x.bound, scopes |-> s, ext |-> x.ext]
  <2>1. ExitScope(x) = [x EXCEPT !.scopes = s]
    BY <1>2, Zenon DEF ExitScope, Front
  <2> QED BY <2>1 DEF IsContext
<1> QED BY <1>3, <1>4 DEF IsContext, Follows

\* A new context, and a clone.
LEMMA CloneIs ==
    ASSUME NEW x, IsContext(x), NEW all
    PROVE  IsContext(Clone(x, all))
<1>1. PICK s : s = <<Single("self", MapOf(Empty))>>
  OBVIOUS
<1>2. IsSeq(s)
  BY <1>1 DEF IsSeq
<1>3. NewContext(Empty) = [bound |-> <<>>, scopes |-> s, ext |-> Empty]
  BY <1>1 DEF NewContext
<1>4. IsContext(NewContext(Empty))
  BY <1>2, <1>3 DEF IsContext
<1> QED BY <1>4 DEF Clone

\* A handler may write in the scope of context c.
LEMMA PutsAll ==
    ASSUME NEW cs, Contexts(cs), NEW c \in 1..Len(cs), NEW scope
    PROVE  Writes(cs, [cs EXCEPT ![c] = PutAll(@, scope)], c)
<1>1. IsContext(cs[c])
  BY DEF Contexts
<1>2. PICK y : y = PutAll(cs[c], scope)
  OBVIOUS
<1>3. Writes(cs, [cs EXCEPT ![c] = y], c)
  BY <1>1, <1>2, PutAllIs, Rewrites
<1> QED BY <1>2, <1>3

\* One more context.
LEMMA OneMore ==
    ASSUME NEW cs, Contexts(cs), NEW x, IsContext(x)
    PROVE  Grows(cs, Append(cs, x)) /\ Len(Append(cs, x)) = Len(cs) + 1
           /\ Append(cs, x)[Len(cs) + 1] = x
<1>1. IsSeq(cs) /\ Len(cs) \in Nat
  BY DEF Contexts, IsSeq
<1>2. PICK d : d = Append(cs, x)
  OBVIOUS
<1>3. /\ IsSeq(d) /\ Len(d) = Len(cs) + 1
      /\ \A i \in 1..Len(cs) : d[i] = cs[i]
      /\ d[Len(cs) + 1] = x
  BY <1>1, <1>2, Appends
<1>4. \A i \in 1..Len(d) : i \in 1..Len(cs) \/ i = Len(cs) + 1
  BY <1>1, <1>3
<1>5. Contexts(d)
  BY <1>3, <1>4 DEF Contexts
<1>6. Len(d) >= Len(cs)
  BY <1>1, <1>3
<1> QED BY <1>2, <1>3, <1>5, <1>6 DEF Grows
-----------------------------------------------------------------------------
(* The stack of the rendering. *)

\* What the invariant says of the frame on top.
LEMMA TopIs ==
    ASSUME ScopesInv
    PROVE  /\ IsSeq(stack) /\ Len(stack) \in Nat /\ Len(stack) > 0 /\ Len(stack) \in 1..Len(stack)
           /\ Contexts(ctxs) /\ IsSeq(ctxs) /\ Len(ctxs) \in Nat
           /\ Top = stack[Len(stack)] /\ IsFrame(Top) /\ Top.ctx \in Nat
           /\ Top.ctx \in 1..Len(ctxs) /\ Context = ctxs[Top.ctx] /\ IsContext(Context)
           /\ Len(Context.scopes) = Top.depth /\ IsSeq(Context.scopes)
           /\ \A n \in 1..Len(stack) : stack[n].ctx <= Len(ctxs) /\ stack[n].base <= Len(ctxs)
<1>1. /\ Frames(stack) /\ Contexts(ctxs) /\ Nested(stack, ctxs) /\ Deep(stack, ctxs)
  BY DEF ScopesInv, Sound
<1>2. /\ IsSeq(stack) /\ Len(stack) \in Nat /\ Len(stack) > 0 /\ Len(stack) \in 1..Len(stack)
      /\ IsSeq(ctxs) /\ Len(ctxs) \in Nat
  BY <1>1 DEF Frames, Contexts, IsSeq
<1>3. Top = stack[Len(stack)]
  BY DEF Top, Last
<1>4. IsFrame(Top) /\ Top.ctx \in Nat /\ Top.ctx \in 1..Len(ctxs)
  BY <1>1, <1>2, <1>3 DEF Frames, IsFrame, Nested
<1>5. Context = ctxs[Top.ctx] /\ IsContext(Context) /\ IsSeq(Context.scopes)
  BY <1>1, <1>4 DEF Context, Contexts, IsContext
<1>6. Len(Context.scopes) = Top.depth
  BY <1>1, <1>2, <1>3, <1>5 DEF Deep, OnTop
<1>7. ASSUME NEW n \in 1..Len(stack)
      PROVE  stack[n].ctx <= Len(ctxs) /\ stack[n].base <= Len(ctxs)
  <2>1. stack[n].ctx \in 1..Len(ctxs) /\ stack[n].base <= Len(ctxs)
    BY <1>1 DEF Nested
  <2> QED BY <1>2, <2>1
<1> QED BY <1>1, <1>2, <1>3, <1>4, <1>5, <1>6, <1>7

\* A frame as handlers make it.
LEMMA FrameIs ==
    ASSUME ScopesInv, NEW cs, Contexts(cs), NEW ctx \in 1..Len(cs), NEW todo, NEW os, NEW end,
           "op" \in DOMAIN end, NEW f, f = Frame(cs, todo, ctx, os, end)
    PROVE  /\ IsFrame(f) /\ f.todo = todo /\ f.ctx = ctx /\ f.end = end /\ f.base = Len(ctxs)
           /\ f.depth = Len(cs[ctx].scopes) /\ f.before = ctxs[Top.ctx].scopes
<1>1. Len(ctxs) \in Nat /\ IsSeq(ctxs[Top.ctx].scopes) /\ Context = ctxs[Top.ctx]
  BY TopIs
<1>2. ctx \in Nat /\ Len(cs[ctx].scopes) \in Nat
  BY DEF Contexts, IsSeq, IsContext
<1>3. PICK b, d, h : b = Len(ctxs) /\ d = Len(cs[ctx].scopes) /\ h = ctxs[Top.ctx].scopes
  OBVIOUS
<1>4. PICK s : s = Len(out)
  OBVIOUS
<1>5. f = [todo |-> todo, ctx |-> ctx, os |-> os, end |-> end,
           base |-> b, streams |-> s, depth |-> d, before |-> h]
  BY <1>1, <1>3, <1>4 DEF Frame
<1>6. b \in Nat /\ d \in Nat /\ IsSeq(h)
  BY <1>1, <1>2, <1>3
<1>7. /\ f.todo = todo /\ f.ctx = ctx /\ f.os = os /\ f.end = end /\ f.base = b
      /\ f.streams = s /\ f.depth = d /\ f.before = h
  BY <1>5
<1>8. IsFrame(f)
  BY <1>2, <1>5, <1>6, <1>7 DEF IsFrame
<1> QED BY <1>3, <1>7, <1>8

\* The frame on top goes on.
LEMMA AdvanceSound ==
    ASSUME ScopesInv, Top.todo # <<>>, NEW cs, Sound(stack, cs)
    PROVE  /\ Sound(Advance, cs) /\ IsSeq(Advance) /\ Len(Advance) = Len(stack)
           /\ Top.end.op # "include"
           /\ Last(Advance).ctx = Top.ctx /\ Last(Advance).end = Top.end
           /\ \A n \in 1..Len(stack) : /\ Advance[n].ctx = stack[n].ctx
                                       /\ Advance[n].base = stack[n].base
<1>1. /\ IsSeq(stack) /\ Len(stack) \in Nat /\ Len(stack) > 0 /\ Len(stack) \in 1..Len(stack)
      /\ Top = stack[Len(stack)] /\ IsFrame(Top)
  BY TopIs
<1>2. Top.end.op # "include"
  BY <1>1 DEF ScopesInv, Sound, Ordered
<1>3. PICK t : t = Tail(Top.todo)
  OBVIOUS
<1>4. PICK f : f = [Top EXCEPT !.todo = t]
  OBVIOUS
<1>5. IsFrame(f) /\ f.ctx = Top.ctx /\ f.base = Top.base /\ f.depth = Top.depth
      /\ f.before = Top.before /\ f.end = Top.end
  BY <1>1, <1>4 DEF IsFrame
<1>6. PICK st2 : st2 = Advance
  OBVIOUS
<1>7. st2 = [stack EXCEPT ![Len(stack)] = f]
  BY <1>1, <1>3, <1>4, <1>6 DEF Advance
<1>8. DOMAIN stack = 1..Len(stack)
  BY <1>1 DEF IsSeq
<1>9. st2 = [i \in 1..Len(stack) |-> st2[i]]
      /\ \A i \in 1..Len(stack) : st2[i] = IF i = Len(stack) THEN f ELSE stack[i]
  BY <1>7, <1>8
<1>10. IsSeq(st2) /\ Len(st2) = Len(stack)
  BY <1>1, <1>9, AsLong
<1>11. Last(st2) = f /\ Last(stack) = Top
  BY <1>1, <1>9, <1>10 DEF Last
<1>12. \A n \in 1..Len(stack) : n # Len(stack) => st2[n] = stack[n]
  BY <1>9
<1>13. Sound(st2, cs)
  BY <1>2, <1>5, <1>10, <1>11, <1>12, TodoSound
<1>14. \A n \in 1..Len(stack) : st2[n].ctx = stack[n].ctx /\ st2[n].base = stack[n].base
  BY <1>1, <1>5, <1>9
<1> QED BY <1>2, <1>5, <1>6, <1>10, <1>11, <1>13, <1>14

\* A statement that pushes no frame.
LEMMA StepSound ==
    ASSUME ScopesInv, Top.todo # <<>>, NEW cs, Writes(ctxs, cs, Top.ctx), NEW outs, Step(cs, outs)
    PROVE  ScopesInv'
<1>1. Top = stack[Len(stack)]
  BY TopIs
<1>2. Top.end.op # "include"
  BY TopIs DEF ScopesInv, Sound, Ordered
<1>3. Sound(stack, cs)
  BY <1>1, <1>2, WritesSound DEF ScopesInv
<1>4. Sound(Advance, cs)
  BY <1>3, AdvanceSound
<1> QED BY <1>4 DEF Step, ScopesInv

\* A statement that does nothing else.
LEMMA SkipSound ==
    ASSUME ScopesInv, Top.todo # <<>>, NEW outs, Step(ctxs, outs)
    PROVE  ScopesInv'
BY TopIs, WritesNothing, StepSound

\* One frame more.
LEMMA PutOn ==
    ASSUME NEW st, NEW d, Sound(st, d), NEW f, IsFrame(f), Stands(f, Last(st)),
           f.ctx \in 1..Len(d), f.base <= Len(d),
           \A n \in 1..Len(st) : st[n].ctx <= f.base /\ st[n].base <= f.base,
           f.depth = Len(d[f.ctx].scopes), f.end.op = "macro" => f.depth > 0,
           f.ctx > f.base \/ f.end.op \notin OwnScopes \/ f.end.op = "include",
           f.end.op \in OwnScopes => f.before = d[Last(st).ctx].scopes
    PROVE  Sound(Append(st, f), d) /\ Sound(st \o <<f>>, d)
<1>1. IsSeq(st)
  BY DEF Sound, Frames
<1>2. PICK st2 : st2 = Append(st, f)
  OBVIOUS
<1>3. /\ IsSeq(st2) /\ Len(st2) = Len(st) + 1
      /\ \A n \in 1..Len(st) : st2[n] = st[n]
      /\ st2[Len(st) + 1] = f
  BY <1>1, <1>2, Appends
<1>4. Sound(st2, d)
  BY <1>3, PushSound
<1>5. st \o <<f>> = Append(st, f)
  BY <1>1, ConcatsOne
<1> QED BY <1>2, <1>4, <1>5

SharedOps == {"plain", "callee", "call", "extends", "include"}

\* A statement whose body goes on in its context.
LEMMA SharedSound ==
    ASSUME ScopesInv, Top.todo # <<>>, NEW cs, Writes(ctxs, cs, Top.ctx),
           NEW todo, NEW os, NEW end, "op" \in DOMAIN end, end.op \in SharedOps,
           end.op = "include" => todo = <<>> /\ cs = ctxs
    PROVE  Sound(Append(Advance, Frame(cs, todo, Top.ctx, os, end)), cs)
<1>1. /\ Top = stack[Len(stack)] /\ Top.ctx \in Nat /\ Len(ctxs) \in Nat
      /\ Top.ctx \in 1..Len(ctxs) /\ Context = ctxs[Top.ctx]
      /\ \A n \in 1..Len(stack) : stack[n].ctx <= Len(ctxs) /\ stack[n].base <= Len(ctxs)
  BY TopIs
<1>2. Top.end.op # "include"
  BY TopIs DEF ScopesInv, Sound, Ordered
<1>3. Sound(stack, cs)
  BY <1>1, <1>2, WritesSound DEF ScopesInv
<1>4. PICK st : st = Advance
  OBVIOUS
<1>5. /\ Sound(st, cs) /\ IsSeq(st) /\ Len(st) = Len(stack)
      /\ Last(st).ctx = Top.ctx /\ Last(st).end = Top.end
      /\ \A n \in 1..Len(stack) : st[n].ctx = stack[n].ctx /\ st[n].base = stack[n].base
  BY <1>3, <1>4, AdvanceSound
<1>6. Contexts(cs) /\ Len(cs) = Len(ctxs)
  BY DEF Writes
<1>7. PICK f : f = Frame(cs, todo, Top.ctx, os, end)
  OBVIOUS
<1>8. /\ IsFrame(f) /\ f.todo = todo /\ f.ctx = Top.ctx /\ f.end = end /\ f.base = Len(ctxs)
      /\ f.depth = Len(cs[Top.ctx].scopes) /\ f.before = ctxs[Top.ctx].scopes
  BY <1>1, <1>6, <1>7, FrameIs
<1>9. Stands(f, Last(st))
  BY <1>2, <1>5, <1>8 DEF Stands, SharedOps
<1>10. f.ctx \in 1..Len(cs) /\ f.base <= Len(cs)
  BY <1>1, <1>6, <1>8
<1>11. \A n \in 1..Len(st) : st[n].ctx <= f.base /\ st[n].base <= f.base
  BY <1>1, <1>5, <1>8
<1>12. /\ f.depth = Len(cs[f.ctx].scopes) /\ f.end.op # "macro"
       /\ f.end.op \notin OwnScopes \/ f.end.op = "include"
       /\ f.end.op \in OwnScopes => f.before = cs[Last(st).ctx].scopes
  BY <1>5, <1>8 DEF SharedOps, OwnScopes
<1>13. Sound(Append(st, f), cs)
  BY <1>5, <1>8, <1>9, <1>10, <1>11, <1>12, PutOn
<1> QED BY <1>4, <1>7, <1>13

\* A statement whose body gets a context of its own.
LEMMA NewSound ==
    ASSUME ScopesInv, Top.todo # <<>>, NEW cs, Grows(ctxs, cs),
           NEW ctx \in 1..Len(cs), ctx > Len(ctxs),
           NEW todo, NEW os, NEW end, "op" \in DOMAIN end, end.op \in {"capture", "with", "import"}
    PROVE  Sound(Append(Advance, Frame(cs, todo, ctx, os, end)), cs)
<1>1. /\ Top = stack[Len(stack)] /\ Top.ctx \in Nat /\ Len(ctxs) \in Nat
      /\ Top.ctx \in 1..Len(ctxs) /\ Context = ctxs[Top.ctx]
      /\ \A n \in 1..Len(stack) : stack[n].ctx <= Len(ctxs) /\ stack[n].base <= Len(ctxs)
  BY TopIs
<1>2. Top.end.op # "include"
  BY TopIs DEF ScopesInv, Sound, Ordered
<1>3. Sound(stack, cs)
  BY GrowsSound DEF ScopesInv
<1>4. PICK st : st = Advance
  OBVIOUS
<1>5. /\ Sound(st, cs) /\ IsSeq(st) /\ Len(st) = Len(stack)
      /\ Last(st).ctx = Top.ctx /\ Last(st).end = Top.end
      /\ \A n \in 1..Len(stack) : st[n].ctx = stack[n].ctx /\ st[n].base = stack[n].base
  BY <1>3, <1>4, AdvanceSound
<1>6. Contexts(cs) /\ Len(ctxs) <= Len(cs) /\ cs[Top.ctx] = ctxs[Top.ctx]
  BY <1>1 DEF Grows
<1>7. PICK f : f = Frame(cs, todo, ctx, os, end)
  OBVIOUS
<1>8. /\ IsFrame(f) /\ f.todo = todo /\ f.ctx = ctx /\ f.end = end /\ f.base = Len(ctxs)
      /\ f.depth = Len(cs[ctx].scopes) /\ f.before = ctxs[Top.ctx].scopes
  BY <1>1, <1>6, <1>7, FrameIs
<1>9. Stands(f, Last(st))
  BY <1>2, <1>5, <1>8 DEF Stands
<1>10. \A n \in 1..Len(st) : st[n].ctx <= f.base /\ st[n].base <= f.base
  BY <1>1, <1>5, <1>8
<1>11. /\ f.depth = Len(cs[f.ctx].scopes) /\ f.end.op # "macro" /\ f.ctx > f.base
       /\ f.before = cs[Last(st).ctx].scopes
  BY <1>5, <1>6, <1>8
<1>12. Sound(Append(st, f), cs)
  BY <1>5, <1>6, <1>8, <1>9, <1>10, <1>11, PutOn
<1> QED BY <1>4, <1>7, <1>12

\* A statement that pushes a frame.
LEMMA RunSound ==
    ASSUME ScopesInv, Top.todo # <<>>, NEW cs, Sound(stack, cs), NEW f,
           Sound(Append(Advance, f), cs), NEW outs, Run(cs, outs, <<f>>)
    PROVE  ScopesInv'
<1>1. IsSeq(Advance)
  BY AdvanceSound
<1>2. Advance \o <<f>> = Append(Advance, f)
  BY <1>1, ConcatsOne
<1> QED BY <1>2 DEF Run, ScopesInv
-----------------------------------------------------------------------------
(* Handlers that return. *)

\* The frame of the caller.
LEMMA CallerIs ==
    ASSUME ScopesInv, Top.end.op # "main"
    PROVE  /\ Len(stack) > 1 /\ Caller = stack[Len(stack) - 1] /\ Len(stack) - 1 \in 1..Len(stack)
           /\ IsFrame(Caller) /\ Caller.ctx \in 1..Len(ctxs) /\ Caller.ctx \in 1..Top.base
           /\ Top.base \in 0..Len(ctxs) /\ Caller.base <= Top.base
           /\ Top.ctx > Top.base \/ Top.ctx = Caller.ctx
           /\ Caller.end.op = "include" <=> Top.end.op = "included"
<1>1. /\ IsSeq(stack) /\ Len(stack) \in Nat /\ Len(stack) > 0 /\ Len(stack) \in 1..Len(stack)
      /\ Top = stack[Len(stack)] /\ Len(ctxs) \in Nat
  BY TopIs
<1>2. /\ Frames(stack) /\ Ordered(stack) /\ Nested(stack, ctxs)
  BY DEF ScopesInv, Sound
<1>3. PICK L : L = Len(stack)
  OBVIOUS
<1>4. L # 1
  BY <1>1, <1>2, <1>3 DEF Ordered
<1>5. L \in Nat /\ L > 1 /\ L - 1 \in 1..L /\ L \in 1..L /\ L - 1 \in 1..(L - 1)
  BY <1>1, <1>3, <1>4
<1>6. Caller = stack[L - 1] /\ Top = stack[L]
  BY <1>1, <1>3 DEF Caller
<1>7. IsFrame(stack[L - 1]) /\ IsFrame(stack[L])
  BY <1>2, <1>3, <1>5 DEF Frames
<1>8. /\ stack[L - 1].ctx \in 1..Len(ctxs) /\ stack[L].base <= Len(ctxs)
      /\ stack[L].ctx > stack[L].base \/ stack[L].ctx = stack[L - 1].ctx
      /\ stack[L - 1].ctx <= stack[L].base /\ stack[L - 1].base <= stack[L].base
  BY <1>2, <1>3, <1>5 DEF Nested
<1>9. stack[L - 1].ctx \in 1..stack[L].base /\ stack[L].base \in 0..Len(ctxs)
  BY <1>1, <1>7, <1>8 DEF IsFrame
<1>10. stack[L - 1].end.op = "include" <=> stack[L].end.op = "included"
  BY <1>2, <1>3, <1>5 DEF Ordered
<1> QED BY <1>3, <1>5, <1>6, <1>7, <1>8, <1>9, <1>10

\* The handler that was on top returns and may write in the caller's scope.
LEMMA ReturnWrites ==
    ASSUME ScopesInv, Top.end.op \notin {"main", "included"},
           Top.end.op = "macro" => Top.ctx > Top.base,
           NEW cs, Writes(ctxs, cs, Caller.ctx), NEW outs, Return(cs, outs)
    PROVE  ScopesInv'
<1>1. /\ IsSeq(stack) /\ Len(stack) \in Nat /\ Top = stack[Len(stack)] /\ Contexts(ctxs)
      /\ Last(stack) = Top
  BY TopIs DEF Last
<1>2. /\ Len(stack) > 1 /\ Caller = stack[Len(stack) - 1] /\ Len(stack) - 1 \in 1..Len(stack)
      /\ Caller.ctx \in 1..Top.base /\ Top.base \in 0..Len(ctxs) /\ Caller.end.op # "include"
  BY CallerIs
<1>3. PICK st : st = SubSeq(stack, 1, Len(stack) - 1)
  OBVIOUS
<1>4. PICK d : d = SubSeq(ctxs, 1, Top.base)
  OBVIOUS
<1>5. Sound(st, d)
  BY <1>1, <1>2, <1>3, <1>4, ReturnSound DEF ScopesInv
<1>6. Len(stack) - 1 \in 0..Len(stack) /\ Len(stack) - 1 \in 1..(Len(stack) - 1)
  BY <1>1, <1>2
<1>7. Len(st) = Len(stack) - 1 /\ st[Len(stack) - 1] = stack[Len(stack) - 1]
  BY <1>1, <1>3, <1>6, Cuts
<1>8. st[Len(st)] = Caller
  BY <1>2, <1>7
<1>9. Writes(d, SubSeq(cs, 1, Top.base), Caller.ctx)
  BY <1>1, <1>2, <1>4, CutWrites
<1>10. Sound(st, SubSeq(cs, 1, Top.base))
  BY <1>2, <1>5, <1>8, <1>9, WritesSound
<1>11. stack' = st /\ ctxs' = SubSeq(cs, 1, Top.base)
  BY <1>1, <1>3 DEF Return, ReturnFrom
<1> QED BY <1>10, <1>11 DEF ScopesInv

\* The handler just returns.
LEMMA ReturnNothing ==
    ASSUME ScopesInv, Top.end.op \notin {"main", "included"},
           Top.end.op = "macro" => Top.ctx > Top.base, NEW outs, Return(ctxs, outs)
    PROVE  ScopesInv'
BY TopIs, WritesNothing, ReturnWrites
-----------------------------------------------------------------------------
(* Handlers that go on with another body. *)

\* The stack without the callee, with contexts that are the same as far as it knows them.
LEMMA CalledSound ==
    ASSUME ScopesInv, Top.end.op \notin {"main", "included"},
           Top.end.op = "macro" => Top.ctx > Top.base,
           NEW cs, Contexts(cs), Len(cs) >= Top.base, \A i \in 1..Top.base : cs[i] = ctxs[i],
           NEW st, st = SubSeq(stack, 1, Len(stack) - 1)
    PROVE  /\ Sound(st, cs) /\ Last(st) = Caller
           /\ \A n \in 1..Len(st) : st[n].ctx <= Top.base /\ st[n].base <= Top.base
<1>1. /\ IsSeq(stack) /\ Len(stack) \in Nat /\ Top = stack[Len(stack)] /\ Contexts(ctxs)
      /\ Last(stack) = Top /\ IsSeq(ctxs) /\ Len(stack) \in 1..Len(stack)
  BY TopIs DEF Last
<1>2. /\ Len(stack) > 1 /\ Caller = stack[Len(stack) - 1] /\ Len(stack) - 1 \in 1..Len(stack)
      /\ Top.base \in 0..Len(ctxs)
  BY CallerIs
<1>3. PICK d : d = SubSeq(ctxs, 1, Top.base)
  OBVIOUS
<1>4. Sound(st, d)
  BY <1>1, <1>2, <1>3, ReturnSound DEF ScopesInv
<1>5. IsSeq(d) /\ Len(d) = Top.base /\ \A i \in 1..Top.base : d[i] = ctxs[i]
  BY <1>1, <1>2, <1>3, Cuts
<1>6. Grows(d, cs)
  BY <1>5 DEF Grows
<1>7. Sound(st, cs)
  BY <1>4, <1>6, GrowsSound
<1>8. Len(stack) - 1 \in 0..Len(stack) /\ Len(stack) - 1 \in 1..(Len(stack) - 1)
  BY <1>1, <1>2
<1>9. Len(st) = Len(stack) - 1 /\ \A n \in 1..Len(stack) - 1 : st[n] = stack[n]
  BY <1>1, <1>8, Cuts
<1>10. Last(st) = Caller
  BY <1>2, <1>8, <1>9 DEF Last
<1>11. \A n \in 1..(Len(stack) - 1) : stack[n].ctx <= Top.base /\ stack[n].base <= Top.base
  BY <1>1 DEF ScopesInv, Sound, Nested
<1> QED BY <1>7, <1>9, <1>10, <1>11

Becoming(cs, todo, ctx, end) ==
    [Top EXCEPT !.todo = todo, !.ctx = ctx, !.end = end,
                !.depth = Len(cs[ctx].scopes), !.before = ctxs[Caller.ctx].scopes]

\* The frame that goes on.
LEMMA BecomeIs ==
    ASSUME ScopesInv, Top.end.op = "callee", NEW cs, Contexts(cs), NEW ctx \in 1..Len(cs),
           NEW todo, NEW end, "op" \in DOMAIN end, NEW f, f = Becoming(cs, todo, ctx, end)
    PROVE  /\ IsFrame(f) /\ f.todo = todo /\ f.ctx = ctx /\ f.end = end /\ f.base = Top.base
           /\ f.depth = Len(cs[ctx].scopes) /\ f.before = ctxs[Caller.ctx].scopes
<1>1. IsFrame(Top) /\ Contexts(ctxs)
  BY TopIs
<1>2. Caller.ctx \in 1..Len(ctxs)
  BY CallerIs
<1>3. PICK dp, b : dp = Len(cs[ctx].scopes) /\ b = ctxs[Caller.ctx].scopes
  OBVIOUS
<1>4. dp \in Nat /\ IsSeq(b) /\ ctx \in Nat
  BY <1>1, <1>2, <1>3 DEF Contexts, IsContext, IsSeq
<1>5. PICK t : t = Top
  OBVIOUS
<1>6. f = [t EXCEPT !.todo = todo, !.ctx = ctx, !.end = end, !.depth = dp, !.before = b]
  BY <1>3, <1>5 DEF Becoming
<1>7. f = [todo |-> todo, ctx |-> ctx, os |-> t.os, end |-> end, base |-> t.base,
           streams |-> t.streams, depth |-> dp, before |-> b] /\ t.base \in Nat
  BY <1>1, <1>5, <1>6 DEF IsFrame
<1>8. /\ f.todo = todo /\ f.ctx = ctx /\ f.os = t.os /\ f.end = end /\ f.base = t.base
      /\ f.streams = t.streams /\ f.depth = dp /\ f.before = b
  BY <1>7
<1>9. IsFrame(f)
  BY <1>4, <1>7, <1>8 DEF IsFrame
<1> QED BY <1>3, <1>5, <1>8, <1>9

\* In a context of its own, or in the caller's as it is.
LEMMA BecomeSound ==
    ASSUME ScopesInv, Top.end.op = "callee", NEW cs, Contexts(cs), Len(cs) >= Top.base,
           \A i \in 1..Top.base : cs[i] = ctxs[i], NEW ctx \in 1..Len(cs),
           NEW todo, NEW end, "op" \in DOMAIN end,
           end.op \in {"plain", "callee", "macro", "override"},
           ctx > Top.base \/ (ctx = Caller.ctx /\ end.op = "plain"),
           end.op = "macro" => Len(cs[ctx].scopes) > 0,
           Become(cs, todo, ctx, end)
    PROVE  ScopesInv'
<1>1. PICK f : f = Becoming(cs, todo, ctx, end)
  OBVIOUS
<1>2. /\ IsFrame(f) /\ f.todo = todo /\ f.ctx = ctx /\ f.end = end /\ f.base = Top.base
      /\ f.depth = Len(cs[ctx].scopes) /\ f.before = ctxs[Caller.ctx].scopes
  BY <1>1, BecomeIs
<1>3. PICK st : st = SubSeq(stack, 1, Len(stack) - 1)
  OBVIOUS
<1>4. /\ Sound(st, cs) /\ Last(st) = Caller
      /\ \A n \in 1..Len(st) : st[n].ctx <= Top.base /\ st[n].base <= Top.base
  BY <1>3, CalledSound
<1>5. Caller.ctx \in 1..Top.base /\ Caller.end.op # "include"
  BY CallerIs
<1>6. Stands(f, Last(st))
  BY <1>2, <1>4, <1>5 DEF Stands
<1>7. /\ f.ctx \in 1..Len(cs) /\ f.base <= Len(cs)
      /\ \A n \in 1..Len(st) : st[n].ctx <= f.base /\ st[n].base <= f.base
      /\ f.depth = Len(cs[f.ctx].scopes) /\ f.end.op = "macro" => f.depth > 0
  <2>1. Top.base \in Nat /\ Len(cs) \in Nat
    BY CallerIs, TopIs DEF IsFrame, Contexts, IsSeq
  <2> QED BY <1>2, <1>4, <2>1
<1>8. /\ f.ctx > f.base \/ f.end.op \notin OwnScopes \/ f.end.op = "include"
      /\ f.before = cs[Last(st).ctx].scopes
  BY <1>2, <1>4, <1>5 DEF OwnScopes
<1>9. Sound(Append(st, f), cs)
  BY <1>2, <1>4, <1>6, <1>7, <1>8, PutOn
<1>10. stack' = Append(st, f) /\ ctxs' = cs
  BY <1>1, <1>3 DEF Become, Becoming, Front
<1> QED BY <1>9, <1>10 DEF ScopesInv

\* In a new scope of the caller's context.
LEMMA MacroSound ==
    ASSUME ScopesInv, Top.end.op = "callee", Top.ctx = Caller.ctx,
           NEW y, NEW cs, Replaces(ctxs, cs, Top.ctx, y),
           IsContext(y), Len(y.scopes) = Top.depth + 1,
           Follows(ctxs[Top.ctx].scopes, y.scopes, Top.depth),
           NEW todo, NEW end, "op" \in DOMAIN end, end.op = "macro",
           Become(cs, todo, Top.ctx, end)
    PROVE  ScopesInv'
<1> DEFINE c == Caller.ctx
<1>1. /\ Contexts(ctxs) /\ IsSeq(ctxs) /\ Len(ctxs) \in Nat /\ c \in 1..Len(ctxs)
      /\ IsContext(ctxs[c]) /\ Len(ctxs[c].scopes) = Top.depth /\ IsSeq(ctxs[c].scopes)
      /\ IsFrame(Top)
  BY TopIs
<1>2. /\ c \in 1..Top.base /\ Top.base \in 0..Len(ctxs) /\ Caller.end.op # "include"
      /\ IsFrame(Caller)
  BY CallerIs
<1>4. Follows(ctxs[c].scopes, y.scopes, Top.depth)
  OBVIOUS
<1>5. /\ Contexts(cs) /\ Len(cs) = Len(ctxs)
      /\ \A i \in 1..Len(ctxs) : cs[i] = IF i = c THEN y ELSE ctxs[i]
  BY DEF Replaces
<1>6. PICK f : f = Becoming(cs, todo, Top.ctx, end)
  OBVIOUS
<1>7. /\ IsFrame(f) /\ f.todo = todo /\ f.ctx = c /\ f.end = end /\ f.base = Top.base
      /\ f.depth = Top.depth + 1 /\ f.before = ctxs[c].scopes
  <2>1. Top.ctx \in 1..Len(cs) /\ Len(cs[Top.ctx].scopes) = Top.depth + 1
    BY <1>1, <1>4, <1>5
  <2>2. /\ IsFrame(f) /\ f.todo = todo /\ f.ctx = Top.ctx /\ f.end = end /\ f.base = Top.base
        /\ f.depth = Len(cs[Top.ctx].scopes) /\ f.before = ctxs[Caller.ctx].scopes
    BY <1>5, <1>6, <2>1, BecomeIs
  <2> QED BY <2>1, <2>2
<1>8. PICK st : st = SubSeq(stack, 1, Len(stack) - 1)
  OBVIOUS
<1>9. /\ Sound(st, ctxs) /\ Last(st) = Caller
      /\ \A n \in 1..Len(st) : st[n].ctx <= Top.base /\ st[n].base <= Top.base
  <2>1. Len(ctxs) >= Top.base
    BY <1>1, <1>2
  <2> QED BY <1>1, <1>8, <2>1, CalledSound
<1> HIDE DEF c
<1>10. /\ Frames(st) /\ Ordered(st) /\ Nested(st, ctxs) /\ Deep(st, ctxs) /\ Guarded(st)
       /\ Kept(st, ctxs) /\ Len(st) \in Nat /\ Len(st) > 0 /\ Len(st) \in 1..Len(st)
       /\ st[Len(st)].ctx = c /\ st[Len(st)].end.op # "include"
  BY <1>2, <1>9 DEF Sound, Frames, IsSeq, Last, c
<1>11. /\ Top.depth \in Nat /\ f.ctx \in 1..Len(cs) /\ f.base <= Len(cs) /\ c \in Nat
       /\ ~(c > Top.base)
  BY <1>1, <1>2, <1>5, <1>7 DEF IsFrame
<1>12. st[Len(st)].depth = Top.depth
  BY <1>1, <1>10 DEF Deep, OnTop
<1>13. Stands(f, Last(st))
  BY <1>2, <1>7, <1>9 DEF Stands, c
<1>14. Shares(f, Last(st))
  <2>1. f.depth = Last(st).depth + 1
    BY <1>7, <1>12 DEF Last
  <2>2. f.depth > Len(f.before)
    BY <1>1, <1>7, <1>11
  <2> QED BY <1>7, <2>1, <2>2 DEF Shares
<1>15. ASSUME NEW n \in 1..Len(st), OnTop(st, n), n # Len(st) \/ f.ctx > f.base
       PROVE  Len(cs[st[n].ctx].scopes) = st[n].depth
  <2>1. n # Len(st)
    BY <1>7, <1>11, <1>15
  <2>2. n + 1 \in 1..Len(st) /\ n \in 1..(n + 1 - 1) /\ st[n + 1].ctx > st[n + 1].base
    BY <1>10, <1>15, <2>1 DEF OnTop
  <2>3. st[n].ctx <= st[n + 1].base
    BY <1>10, <2>2 DEF Nested
  <2>4. st[n + 1].ctx <= c
    <3>1. CASE n + 1 = Len(st)
      BY <1>10, <1>11, <3>1
    <3>2. CASE n + 1 # Len(st)
      <4>1. n + 1 \in 1..(Len(st) - 1)
        BY <1>10, <2>2, <3>2
      <4> QED BY <1>10, <4>1 DEF Nested
    <3> QED BY <3>1, <3>2
  <2>5. st[n].ctx \in Nat /\ st[n + 1].ctx \in Nat /\ st[n + 1].base \in Nat
    BY <1>10, <2>2 DEF Frames, IsFrame
  <2>6. st[n].ctx # c
    BY <1>11, <2>2, <2>3, <2>4, <2>5
  <2>7. st[n].ctx \in 1..Len(ctxs) /\ Len(ctxs[st[n].ctx].scopes) = st[n].depth
    BY <1>10, <1>15 DEF Nested, Deep
  <2> QED BY <1>5, <2>6, <2>7
<1>16. ASSUME NEW n \in 1..Len(st), st[n].end.op \in OwnScopes
       PROVE  Agree(st[n].before, cs[st[n - 1].ctx].scopes)
  <2>1. n - 1 \in 1..Len(st) /\ Len(st) \in n..Len(st)
    BY <1>10, <1>16 DEF Ordered, OwnScopes
  <2>2. Agree(st[n].before, ctxs[st[n - 1].ctx].scopes) /\ st[n - 1].ctx \in 1..Len(ctxs)
    BY <1>10, <1>16, <2>1 DEF Kept, Nested
  <2>3. CASE st[n - 1].ctx # c
    BY <1>5, <2>2, <2>3
  <2>4. CASE st[n - 1].ctx = c
    <3>1. Top.depth > Len(st[n].before)
      BY <1>10, <1>12, <1>16, <2>1, <2>4 DEF Guarded
    <3>2. IsSeq(st[n].before) /\ Len(st[n].before) \in Nat
      BY <1>10 DEF Frames, IsFrame, IsSeq
    <3>3. Len(st[n].before) <= Top.depth
      BY <1>11, <3>1, <3>2
    <3>4. Agree(st[n].before, y.scopes)
      BY <1>4, <1>11, <2>2, <2>4, <3>2, <3>3, AgreeFollows
    <3>5. cs[c] = y
      BY <1>5, <2>2, <2>4
    <3> QED BY <2>4, <3>4, <3>5
  <2> QED BY <2>3, <2>4
<1>17. Agree(f.before, cs[Last(st).ctx].scopes)
  <2>1. DOMAIN f.before = 1..Top.depth
    BY <1>1, <1>7 DEF IsSeq
  <2>2. cs[Last(st).ctx] = y
    BY <1>1, <1>5, <1>9 DEF c
  <2> QED BY <1>4, <1>7, <2>1, <2>2 DEF Agree, Follows
<1>18. /\ Len(cs[f.ctx].scopes) = f.depth /\ f.depth > 0
       /\ \A n \in 1..Len(st) : st[n].ctx <= f.base /\ st[n].base <= f.base
  BY <1>1, <1>4, <1>5, <1>7, <1>9, <1>11
<1>19. PICK st2 : st2 = Append(st, f)
  OBVIOUS
<1>20. /\ IsSeq(st2) /\ Len(st2) = Len(st) + 1
       /\ \A n \in 1..Len(st) : st2[n] = st[n]
       /\ st2[Len(st) + 1] = f
  BY <1>10, <1>19, Appends DEF Frames
<1>21. Sound(st2, cs)
  BY <1>5, <1>7, <1>9, <1>11, <1>13, <1>14, <1>15, <1>16, <1>17, <1>18, <1>20, Push
<1>22. stack' = st2 /\ ctxs' = cs
  BY <1>6, <1>8, <1>19 DEF Become, Becoming, Front
<1> QED BY <1>21, <1>22 DEF ScopesInv
-----------------------------------------------------------------------------
(* One lemma for each action that changes the stack or a context. *)

\* Raise: the innermost include is there.
LEMMA MaxIs ==
    ASSUME NEW n \in Nat, NEW S, S \subseteq 1..n, S # {}
    PROVE  Max(S) \in S
<1> DEFINE T == {n - x : x \in S}
<1>1. T \subseteq Nat /\ T # {}
  <2>1. \A x \in S : x \in 1..n /\ n - x \in Nat
    OBVIOUS
  <2> QED BY <2>1
<1> HIDE DEF T
<1>2. PICK m \in T : \A k \in T : ~(k < m)
  <2>1. IsWellFoundedOn({ss \in Nat \X Nat : ss[1] < ss[2]}, Nat)
    BY NatLessThanWellFounded DEF OpToRel
  <2>2. PICK m \in T : \A k \in T : ~(<<k, m>> \in {ss \in Nat \X Nat : ss[1] < ss[2]})
    BY <1>1, <2>1, WFMin
  <2>3. \A k \in T : ~(k < m)
    BY <1>1, <2>2
  <2> QED BY <2>3
<1>3. PICK x \in S : m = n - x
  BY DEF T
<1>4. ASSUME NEW y \in S
      PROVE  x >= y
  <2>1. n - y \in T /\ n - y \in Nat /\ m \in Nat
    BY <1>1 DEF T
  <2>2. ~(n - y < m)
    BY <1>2, <2>1
  <2>3. x \in Nat /\ y \in Nat
    OBVIOUS
  <2> QED BY <1>3, <2>1, <2>2, <2>3
<1>5. \E z \in S : \A y \in S : z >= y
  BY <1>4
<1> QED BY <1>5 DEF Max

\* An error thrown unwinds the stack to the include that catches it, or ends the rendering.
LEMMA RaiseSound ==
    ASSUME ScopesInv, NEW code, Raise(code)
    PROVE  ScopesInv'
<1>1. /\ IsSeq(stack) /\ Len(stack) \in Nat /\ IsSeq(ctxs) /\ Len(ctxs) \in Nat
      /\ DOMAIN stack = 1..Len(stack)
  BY TopIs DEF IsSeq
<1>2. /\ Sound(stack, ctxs) /\ Frames(stack) /\ Ordered(stack) /\ Nested(stack, ctxs)
      /\ Deep(stack, ctxs)
  BY DEF ScopesInv, Sound
<1> DEFINE catching == {n \in DOMAIN stack : stack[n].end.op = "include"}
<1>3. CASE code = "FileNotFound" /\ catching # {}
  <2>1. PICK n : n = Max(catching)
    OBVIOUS
  <2>2. n \in catching
    BY <1>1, <1>3, <2>1, MaxIs
  <2>3. n \in 1..Len(stack) /\ stack[n].end.op = "include"
    BY <1>1, <2>2
  <2>4. n > 1 /\ n - 1 \in 1..(n - 1) /\ stack[n].ctx = stack[n - 1].ctx
    BY <1>1, <1>2, <2>3 DEF Ordered
  <2>5. stack[n].ctx <= stack[n].base /\ stack[n].base \in 0..Len(ctxs)
    <3>1. stack[n - 1].ctx <= stack[n].base /\ stack[n].base <= Len(ctxs)
      BY <1>2, <2>3, <2>4 DEF Nested
    <3>2. stack[n].base \in Nat
      BY <1>2, <2>3 DEF Frames, IsFrame
    <3> QED BY <1>1, <2>4, <3>1, <3>2
  <2>6. OnTop(stack, n)
    <3>1. CASE n = Len(stack)
      BY <3>1 DEF OnTop
    <3>2. CASE n # Len(stack)
      <4>1. n + 1 \in 1..Len(stack) /\ n + 1 > 1 /\ n + 1 - 1 = n
        <5>1. PICK L \in Nat : L = Len(stack)
          BY <1>1
        <5>2. n \in 1..L /\ n # L
          BY <2>3, <3>2, <5>1
        <5>3. n + 1 \in 1..L /\ n + 1 > 1 /\ n + 1 - 1 = n
          BY <5>2
        <5> QED BY <5>1, <5>3
      <4>2. stack[n + 1].ctx > stack[n + 1].base
        BY <1>2, <2>3, <4>1 DEF Ordered
      <4> QED BY <4>2 DEF OnTop
    <3> QED BY <3>1, <3>2
  <2>7. Len(ctxs[stack[n].ctx].scopes) = stack[n].depth
    BY <1>2, <2>3, <2>6 DEF Deep
  <2>8. stack[n].base <= stack[n].base
    BY <2>5
  <2>9. Sound(SubSeq(stack, 1, n), SubSeq(ctxs, 1, stack[n].base))
    BY <1>2, <2>3, <2>5, <2>7, <2>8, UnwoundSound
  <2>10. stack' = SubSeq(stack, 1, n) /\ ctxs' = SubSeq(ctxs, 1, stack[n].base)
    BY <1>3, <2>1 DEF Raise
  <2> QED BY <2>9, <2>10 DEF ScopesInv
<1>4. CASE ~(code = "FileNotFound" /\ catching # {})
  BY <1>4 DEF Raise, Stop, ScopesInv
<1> QED BY <1>3, <1>4

\* An error that ends the rendering leaves everything.
LEMMA StopSound ==
    ASSUME ScopesInv, NEW s, Stop(s)
    PROVE  ScopesInv'
BY DEF Stop, ScopesInv

\* set writes in the scope on top.
LEMMA SetSound ==
    ASSUME ScopesInv, Set
    PROVE  ScopesInv'
<1>1. Top.todo # <<>>
  BY DEF Set, IsNext
<1>2. PICK scope : scope = Single(Node.var, Data(Node.words))
  OBVIOUS
<1>3. PICK cs : cs = [ctxs EXCEPT ![Top.ctx] = PutAll(@, scope)]
  OBVIOUS
<1>4. Writes(ctxs, cs, Top.ctx)
  BY <1>3, TopIs, PutsAll
<1>5. Step(cs, out)
  BY <1>2, <1>3 DEF Set, Put
<1> QED BY <1>1, <1>4, <1>5, StepSound

\* So does the definition of a macro.
LEMMA DefineMacroSound ==
    ASSUME ScopesInv, DefineMacro
    PROVE  ScopesInv'
<1>1. Top.todo # <<>>
  BY DEF DefineMacro, IsNext
<1>2. PICK scope : scope = Single(Node.name, MacroOf(Node))
  OBVIOUS
<1>3. PICK cs : cs = [ctxs EXCEPT ![Top.ctx] = PutAll(@, scope)]
  OBVIOUS
<1>4. Writes(ctxs, cs, Top.ctx)
  BY <1>3, TopIs, PutsAll
<1>5. Step(cs, out)
  BY <1>2, <1>3 DEF DefineMacro, Put
<1> QED BY <1>1, <1>4, <1>5, StepSound

\* A statement that runs a body in its context as it is.
LEMMA RunShared ==
    ASSUME ScopesInv, Top.todo # <<>>, NEW todo, NEW os, NEW end, "op" \in DOMAIN end,
           end.op \in SharedOps, end.op = "include" => todo = <<>>,
           NEW outs, Run(ctxs, outs, <<Frame(ctxs, todo, Top.ctx, os, end)>>)
    PROVE  ScopesInv'
<1>1. Writes(ctxs, ctxs, Top.ctx) /\ Sound(stack, ctxs)
  BY TopIs, WritesNothing DEF ScopesInv
<1>2. Sound(Append(Advance, Frame(ctxs, todo, Top.ctx, os, end)), ctxs)
  BY <1>1, SharedSound
<1> QED BY <1>1, <1>2, RunSound

\* The chosen branch of an if runs in the same scopes.
LEMMA IfSound ==
    ASSUME ScopesInv, If
    PROVE  ScopesInv'
<1>1. Top.todo # <<>>
  BY DEF If, IsNext
<1>2. CASE Skip
  BY <1>1, <1>2, SkipSound DEF Skip
<1>3. ASSUME NEW i, Run(ctxs, out, <<Frame(ctxs, Node.branches[i].body, Top.ctx, Top.os,
                                           [op |-> "plain"])>>)
      PROVE  ScopesInv'
  <2>1. PICK end : end = [op |-> "plain"]
    OBVIOUS
  <2>2. "op" \in DOMAIN end /\ end.op = "plain"
    BY <2>1
  <2>3. Run(ctxs, out, <<Frame(ctxs, Node.branches[i].body, Top.ctx, Top.os, end)>>)
    BY <1>3, <2>1
  <2> QED BY <1>1, <2>2, <2>3, RunShared DEF SharedOps
<1> QED BY <1>2, <1>3 DEF If

\* A call in an expression.
LEMMA InvokeSound ==
    ASSUME ScopesInv, Invoke
    PROVE  ScopesInv'
<1>1. Top.todo # <<>>
  BY DEF Invoke, IsNext
<1>2. CASE Skip
  BY <1>1, <1>2, SkipSound DEF Skip
<1>3. ASSUME NEW fn, NEW args, Run(ctxs, out, <<Callee(ctxs, fn, args)>>)
      PROVE  ScopesInv'
  <2>1. PICK end : end = [op |-> "callee", fn |-> fn, args |-> args]
    OBVIOUS
  <2>2. "op" \in DOMAIN end /\ end.op = "callee"
    BY <2>1
  <2>3. Run(ctxs, out, <<Frame(ctxs, <<>>, Top.ctx, Top.os, end)>>)
    BY <1>3, <2>1 DEF Callee
  <2> QED BY <1>1, <2>2, <2>3, RunShared DEF SharedOps
<1> QED BY <1>2, <1>3 DEF Invoke

\* A block is called like a function.
LEMMA BlockSound ==
    ASSUME ScopesInv, Block
    PROVE  ScopesInv'
<1>1. Top.todo # <<>>
  BY DEF Block, IsNext
<1>2. PICK end : end = [op |-> "callee", fn |-> [k |-> "block", node |-> Node], args |-> <<>>]
  OBVIOUS
<1>3. "op" \in DOMAIN end /\ end.op = "callee"
  BY <1>2
<1>4. Run(ctxs, out, <<Frame(ctxs, <<>>, Top.ctx, Top.os, end)>>)
  BY <1>2 DEF Block, Callee
<1> QED BY <1>1, <1>3, <1>4, RunShared DEF SharedOps

\* An include shares its context until it has found a file.
LEMMA IncludeSound ==
    ASSUME ScopesInv, Include
    PROVE  ScopesInv'
<1>1. Top.todo # <<>>
  BY DEF Include, IsNext
<1>2. PICK names : names = [i \in DOMAIN Node.files |-> NameOf(Context, Node.files[i])]
  OBVIOUS
<1>3. PICK end : end = [op |-> "include", node |-> Node, names |-> names]
  OBVIOUS
<1>4. "op" \in DOMAIN end /\ end.op = "include"
  BY <1>3
<1>5. Run(ctxs, out, <<Frame(ctxs, <<>>, Top.ctx, Top.os, end)>>)
  BY <1>2, <1>3 DEF Include
<1> QED BY <1>1, <1>4, <1>5, RunShared DEF SharedOps

\* A statement that runs a body in a new context, the last of those it makes.
LEMMA RunNew ==
    ASSUME ScopesInv, Top.todo # <<>>, NEW cs, Grows(ctxs, cs), Len(cs) > Len(ctxs),
           NEW todo, NEW os, NEW end, "op" \in DOMAIN end, end.op \in {"capture", "with", "import"},
           NEW outs, Run(cs, outs, <<Frame(cs, todo, Len(cs), os, end)>>)
    PROVE  ScopesInv'
<1>1. Len(cs) \in 1..Len(cs)
  BY TopIs DEF Grows, Contexts, IsSeq
<1>2. PICK ctx \in 1..Len(cs) : ctx = Len(cs)
  BY <1>1
<1>3. Sound(Append(Advance, Frame(cs, todo, ctx, os, end)), cs)
  BY <1>2, NewSound
<1>4. Sound(stack, cs)
  BY GrowsSound DEF ScopesInv
<1> QED BY <1>2, <1>3, <1>4, RunSound

\* The same with one new context.
LEMMA RunOneMore ==
    ASSUME ScopesInv, Top.todo # <<>>, NEW x, IsContext(x), NEW cs, cs = Append(ctxs, x),
           NEW todo, NEW os, NEW end, "op" \in DOMAIN end, end.op \in {"capture", "with", "import"},
           NEW outs, Run(cs, outs, <<Frame(cs, todo, Len(cs), os, end)>>)
    PROVE  ScopesInv'
<1>1. Contexts(ctxs) /\ Len(ctxs) \in Nat
  BY TopIs
<1>2. Grows(ctxs, cs) /\ Len(cs) = Len(ctxs) + 1
  BY <1>1, OneMore
<1>3. Len(cs) > Len(ctxs)
  BY <1>1, <1>2
<1> QED BY <1>2, <1>3, RunNew

\* set with a body and filter run it in a clone of the context.
LEMMA CaptureSound ==
    ASSUME ScopesInv, Capture
    PROVE  ScopesInv'
<1>1. Top.todo # <<>>
  BY DEF Capture, IsNext
<1>2. PICK x : x = Clone(Context, TRUE)
  OBVIOUS
<1>3. IsContext(x)
  BY <1>2, TopIs, CloneIs
<1>4. PICK cs : cs = Append(ctxs, x)
  OBVIOUS
<1>5. PICK outs : outs = Append(out, <<>>)
  OBVIOUS
<1>6. PICK end : end = [op |-> "capture", node |-> Node]
  OBVIOUS
<1>7. "op" \in DOMAIN end /\ end.op = "capture"
  BY <1>6
<1>8. Run(cs, outs, <<Frame(cs, Node.body, Len(cs), Len(outs), end)>>)
  BY <1>2, <1>4, <1>5, <1>6, Zenon DEF Capture
<1> QED BY <1>1, <1>3, <1>4, <1>7, <1>8, RunOneMore

\* with runs its body in a clone that has one scope more.
LEMMA WithSound ==
    ASSUME ScopesInv, With
    PROVE  ScopesInv'
<1>1. Top.todo # <<>>
  BY DEF With, IsNext
<1>2. PICK scope : scope = [v \in DOMAIN Node.vars |-> FindValue(Context, Node.vars[v])]
  OBVIOUS
<1>3. PICK x : x = EnterScope(Clone(Context, TRUE), scope)
  OBVIOUS
<1>4. IsContext(x)
  BY <1>3, TopIs, CloneIs, EnterScopeIs
<1>5. PICK cs : cs = Append(ctxs, x)
  OBVIOUS
<1>6. PICK end : end = [op |-> "with"]
  OBVIOUS
<1>7. "op" \in DOMAIN end /\ end.op = "with"
  BY <1>6
<1>8. Run(cs, out, <<Frame(cs, Node.body, Len(cs), Top.os, end)>>)
  BY <1>2, <1>3, <1>5, <1>6, Zenon DEF With
<1> QED BY <1>1, <1>4, <1>5, <1>7, <1>8, RunOneMore

\* The captured text goes into the caller's scope.
LEMMA EndSetSound ==
    ASSUME ScopesInv, EndSet
    PROVE  ScopesInv'
<1>1. Top.end.op = "capture"
  BY DEF EndSet, Ends
<1>2. PICK scope : scope = Single(Top.end.node.target, Data(Captured))
  OBVIOUS
<1>3. PICK cs : cs = [ctxs EXCEPT ![Caller.ctx] = PutAll(@, scope)]
  OBVIOUS
<1>4. Writes(ctxs, cs, Caller.ctx)
  BY <1>1, <1>3, TopIs, CallerIs, PutsAll
<1>5. Return(cs, out)
  BY <1>2, <1>3 DEF EndSet, Put
<1> QED BY <1>1, <1>4, <1>5, ReturnWrites

\* The handler returns and has changed a context of its own.
LEMMA ReturnOther ==
    ASSUME ScopesInv, Top.end.op \notin {"main", "included"}, Top.ctx > Top.base,
           NEW y, IsContext(y), NEW outs, Return([ctxs EXCEPT ![Top.ctx] = y], outs)
    PROVE  ScopesInv'
<1>1. /\ Contexts(ctxs) /\ Len(ctxs) \in Nat /\ IsFrame(Top) /\ Top = stack[Len(stack)]
  BY TopIs
<1>2. Top.base \in 0..Len(ctxs)
  BY CallerIs
<1>3. PICK cs : cs = [ctxs EXCEPT ![Top.ctx] = y]
  OBVIOUS
<1>4. /\ Contexts(cs) /\ Len(cs) = Len(ctxs)
      /\ \A i \in 1..Len(ctxs) : cs[i] = IF i = Top.ctx THEN y ELSE ctxs[i]
  <2>1. Replaces(ctxs, cs, Top.ctx, y)
    BY <1>1, <1>3, ReplacesIt
  <2> QED BY <2>1 DEF Replaces
<1>5. PICK d : d = SubSeq(cs, 1, Top.base)
  OBVIOUS
<1>6. IsSeq(d) /\ Len(d) = Top.base /\ \A i \in 1..Top.base : d[i] = cs[i]
  BY <1>2, <1>4, <1>5, Cuts DEF Contexts
<1>7. \A i \in 1..Top.base : i \in 1..Len(ctxs) /\ i # Top.ctx
  BY <1>1, <1>2 DEF IsFrame
<1>8. Contexts(d) /\ \A i \in 1..Top.base : d[i] = ctxs[i]
  BY <1>4, <1>6, <1>7 DEF Contexts
<1>9. Len(d) >= Top.base
  BY <1>2, <1>6
<1>10. PICK st : st = SubSeq(stack, 1, Len(stack) - 1)
  OBVIOUS
<1>11. Sound(st, d)
  BY <1>8, <1>9, <1>10, CalledSound
<1>12. stack' = st /\ ctxs' = d
  BY <1>1, <1>3, <1>5, <1>10 DEF Return, ReturnFrom
<1> QED BY <1>11, <1>12 DEF ScopesInv

\* The caller's scope gets back the caller it had.
LEMMA EndCallSound ==
    ASSUME ScopesInv, EndCall
    PROVE  ScopesInv'
<1>1. Top.end.op = "call"
  BY DEF EndCall, Ends
<1>2. Contexts(ctxs) /\ Top.ctx \in 1..Len(ctxs) /\ IsContext(ctxs[Top.ctx])
  BY TopIs
<1>3. PICK y : y = IF Top.end.prev = NoValue
                   THEN Erase(ctxs[Top.ctx], "caller")
                   ELSE Put(ctxs[Top.ctx], "caller", Top.end.prev)
  OBVIOUS
<1>4. /\ IsContext(y) /\ Len(y.scopes) = Len(ctxs[Top.ctx].scopes)
      /\ Follows(ctxs[Top.ctx].scopes, y.scopes, Len(ctxs[Top.ctx].scopes) - 1)
  <2>1. PICK scope : scope = Single("caller", Top.end.prev)
    OBVIOUS
  <2>2. y = Erase(ctxs[Top.ctx], "caller") \/ y = PutAll(ctxs[Top.ctx], scope)
    BY <1>3, <2>1 DEF Put
  <2>3. CASE y = Erase(ctxs[Top.ctx], "caller")
    BY <1>2, <2>3, EraseIs
  <2>4. CASE y = PutAll(ctxs[Top.ctx], scope)
    BY <1>2, <2>4, PutAllIs
  <2> QED BY <2>2, <2>3, <2>4
<1>5. Return([ctxs EXCEPT ![Top.ctx] = y], out)
  BY <1>3 DEF EndCall
<1>6. CASE Top.ctx = Caller.ctx
  <2>1. PICK cs : cs = [ctxs EXCEPT ![Top.ctx] = y]
    OBVIOUS
  <2>2. Writes(ctxs, cs, Caller.ctx)
    BY <1>2, <1>4, <1>6, <2>1, Rewrites
  <2> QED BY <1>1, <1>5, <2>1, <2>2, ReturnWrites
<1>7. CASE Top.ctx > Top.base
  BY <1>1, <1>4, <1>5, <1>7, ReturnOther
<1> QED BY <1>1, <1>6, <1>7, CallerIs

\* call writes its body into the scope on top, then pushes itself and the callee.
LEMMA CallSound ==
    ASSUME ScopesInv, Call
    PROVE  ScopesInv'
<1>1. Top.todo # <<>>
  BY DEF Call, IsNext
<1>2. CASE Skip
  BY <1>1, <1>2, SkipSound DEF Skip
<1>3. PICK scope : scope = Single("caller", MacroOf(Node))
  OBVIOUS
<1>4. PICK cs : cs = [ctxs EXCEPT ![Top.ctx] = PutAll(@, scope)]
  OBVIOUS
<1>5. Writes(ctxs, cs, Top.ctx)
  BY <1>4, TopIs, PutsAll
<1>6. ASSUME NEW prev, NEW fn, NEW args,
             Run(cs, out, << Frame(cs, <<>>, Top.ctx, Top.os, [op |-> "call", prev |-> prev]),
                             Callee(cs, fn, args) >>)
      PROVE  ScopesInv'
  <2>1. PICK end1, end2 : end1 = [op |-> "call", prev |-> prev]
                          /\ end2 = [op |-> "callee", fn |-> fn, args |-> args]
    OBVIOUS
  <2>2. "op" \in DOMAIN end1 /\ end1.op = "call" /\ "op" \in DOMAIN end2 /\ end2.op = "callee"
    BY <2>1
  <2>0. PICK none : none = <<>>
    OBVIOUS
  <2>3. PICK f1 : f1 = Frame(cs, none, Top.ctx, Top.os, end1)
    OBVIOUS
  <2>4. PICK f2 : f2 = Frame(cs, none, Top.ctx, Top.os, end2)
    OBVIOUS
  <2>5. PICK st : st = Append(Advance, f1)
    OBVIOUS
  <2>6. Sound(st, cs)
    BY <1>1, <1>5, <2>2, <2>3, <2>5, SharedSound DEF SharedOps
  <2>7. /\ Top = stack[Len(stack)] /\ Top.ctx \in Nat /\ Len(ctxs) \in Nat
        /\ Top.ctx \in 1..Len(ctxs) /\ Context = ctxs[Top.ctx] /\ Contexts(ctxs)
        /\ \A n \in 1..Len(stack) : stack[n].ctx <= Len(ctxs) /\ stack[n].base <= Len(ctxs)
    BY TopIs
  <2>8. Contexts(cs) /\ Len(cs) = Len(ctxs) /\ Top.ctx \in 1..Len(cs)
    BY <1>5, <2>7 DEF Writes
  <2>9. /\ IsFrame(f1) /\ f1.todo = none /\ f1.ctx = Top.ctx /\ f1.end = end1
        /\ f1.base = Len(ctxs)
        /\ f1.depth = Len(cs[Top.ctx].scopes) /\ f1.before = ctxs[Top.ctx].scopes
    BY <2>2, <2>3, <2>7, <2>8, FrameIs
  <2>10. /\ IsFrame(f2) /\ f2.todo = none /\ f2.ctx = Top.ctx /\ f2.end = end2
         /\ f2.base = Len(ctxs) /\ f2.depth = Len(cs[Top.ctx].scopes)
    BY <2>2, <2>4, <2>7, <2>8, FrameIs
  <2>11. Sound(stack, ctxs) /\ IsSeq(Advance) /\ Len(Advance) = Len(stack)
         /\ \A n \in 1..Len(stack) : /\ Advance[n].ctx = stack[n].ctx
                                     /\ Advance[n].base = stack[n].base
    BY <1>1, AdvanceSound DEF ScopesInv
  <2>12. PICK adv : adv = Advance
    OBVIOUS
  <2>13. /\ IsSeq(st) /\ Len(st) = Len(stack) + 1
         /\ \A n \in 1..Len(stack) : st[n] = adv[n]
         /\ st[Len(stack) + 1] = f1
    BY <2>5, <2>11, <2>12, Appends
  <2>14. \A n \in 1..Len(st) : st[n].ctx <= f2.base /\ st[n].base <= f2.base
    <3>1. Len(stack) \in Nat
      BY TopIs
    <3>2. \A n \in 1..Len(st) : n \in 1..Len(stack) \/ n = Len(stack) + 1
      BY <2>13, <3>1
    <3>3. \A n \in 1..Len(stack) : st[n].ctx <= f2.base /\ st[n].base <= f2.base
      BY <2>7, <2>10, <2>11, <2>12, <2>13
    <3>4. f1.ctx <= f2.base /\ f1.base <= f2.base
      BY <2>7, <2>9, <2>10
    <3> QED BY <2>13, <3>2, <3>3, <3>4
  <2>15. Last(st) = f1
    BY <2>13 DEF Last
  <2>16. Stands(f2, Last(st))
    BY <2>2, <2>9, <2>10, <2>15 DEF Stands
  <2>17. /\ f2.ctx \in 1..Len(cs) /\ f2.base <= Len(cs) /\ f2.depth = Len(cs[f2.ctx].scopes)
         /\ f2.end.op = "callee" /\ f2.end.op \notin OwnScopes
    BY <2>2, <2>7, <2>8, <2>10 DEF OwnScopes
  <2>18. Sound(Append(st, f2), cs)
    BY <2>6, <2>10, <2>14, <2>16, <2>17, PutOn
  <2>19. Advance \o <<f1, f2>> = Append(st, f2)
    BY <2>5, <2>11, ConcatsTwo
  <2>20. stack' = Advance \o <<f1, f2>> /\ ctxs' = cs
    BY <1>6, <2>0, <2>1, <2>3, <2>4 DEF Run, Callee
  <2> QED BY <2>18, <2>19, <2>20 DEF ScopesInv
<1> QED BY <1>2, <1>3, <1>4, <1>6 DEF Call, Put

\* A macro closes the scope it opened, in a context of its own or in the caller's.
LEMMA EndMacroSound ==
    ASSUME ScopesInv, EndMacro
    PROVE  ScopesInv'
<1>1. Top.end.op = "macro"
  BY DEF EndMacro, Ends
<1>2. /\ Contexts(ctxs) /\ IsSeq(ctxs) /\ Top.ctx \in 1..Len(ctxs) /\ IsContext(ctxs[Top.ctx])
      /\ Len(ctxs[Top.ctx].scopes) = Top.depth /\ Top = stack[Len(stack)]
      /\ Len(stack) \in Nat /\ IsSeq(stack) /\ Len(stack) \in 1..Len(stack) /\ Len(ctxs) \in Nat
  BY TopIs
<1>3. Top.depth \in Nat /\ Top.depth > 0
  BY <1>1, TopIs DEF ScopesInv, Sound, Deep, IsFrame
<1>4. PICK y : y = ExitScope(ctxs[Top.ctx])
  OBVIOUS
<1>5. /\ IsContext(y) /\ Len(y.scopes) = Top.depth - 1
      /\ Follows(ctxs[Top.ctx].scopes, y.scopes, Top.depth - 1)
  BY <1>2, <1>3, <1>4, ExitScopeIs
<1>6. PICK cs : cs = [ctxs EXCEPT ![Top.ctx] = y]
  OBVIOUS
<1>7. Replaces(ctxs, cs, Top.ctx, y)
  BY <1>2, <1>5, <1>6, ReplacesIt
<1>8. Return([ctxs EXCEPT ![Top.ctx] = y], out)
  BY <1>4 DEF EndMacro
<1>9. CASE Top.ctx > Top.base
  BY <1>1, <1>5, <1>8, <1>9, ReturnOther
<1>10. CASE Top.ctx = Caller.ctx
  <2> DEFINE c == Caller.ctx
  <2>1. /\ Len(stack) > 1 /\ Caller = stack[Len(stack) - 1] /\ Len(stack) - 1 \in 1..Len(stack)
        /\ c \in 1..Top.base /\ Top.base \in 0..Len(ctxs)
        /\ Caller.end.op # "include" /\ IsFrame(Caller)
    BY <1>1, CallerIs
  <2>2. PICK k : k = Len(stack) - 1
    OBVIOUS
  <2>3. k \in Nat /\ k > 0 /\ k \in 1..Len(stack) /\ k \in 0..Len(stack) /\ k + 1 = Len(stack)
        /\ k \in 1..k /\ Caller = stack[k]
    BY <1>2, <2>1, <2>2
  <2>4. PICK st : st = SubSeq(stack, 1, k)
    OBVIOUS
  <2>5. IsSeq(st) /\ Len(st) = k /\ \A n \in 1..k : st[n] = stack[n]
    BY <1>2, <2>3, <2>4, Cuts
  <2>6. PICK d : d = SubSeq(cs, 1, Top.base)
    OBVIOUS
  <2>7. IsSeq(d) /\ Len(d) = Top.base /\ \A i \in 1..Top.base : d[i] = cs[i]
    BY <1>7, <2>1, <2>6, Cuts DEF Replaces, Contexts
  <2>8. \A i \in 1..Top.base : i \in 1..Len(ctxs)
    BY <1>2, <2>1
  <2>9. Contexts(d) /\ \A i \in 1..Top.base : d[i] = IF i = c THEN y ELSE ctxs[i]
    BY <1>7, <1>10, <2>7, <2>8 DEF Replaces, Contexts
  <2> HIDE DEF c
  <2>10. /\ Frames(stack) /\ Ordered(stack) /\ Nested(stack, ctxs) /\ Deep(stack, ctxs)
         /\ Guarded(stack) /\ Kept(stack, ctxs)
    BY DEF ScopesInv, Sound
  <2>11. \A n \in 1..k : stack[n].ctx <= Len(d) /\ stack[n].base <= Len(d)
    <3>1. \A n \in 1..k : n \in 1..(Len(stack) - 1)
      BY <1>2, <2>2
    <3>2. \A n \in 1..(Len(stack) - 1) : stack[n].ctx <= Top.base /\ stack[n].base <= Top.base
      BY <1>2, <2>10 DEF Nested
    <3> QED BY <2>7, <3>1, <3>2
  <2>12. \A n \in 1..k : stack[n].ctx \in Nat /\ stack[n].ctx \in 1..Top.base
    <3>1. \A n \in 1..k : n \in 1..Len(stack)
      BY <2>3
    <3>2. \A n \in 1..k : stack[n].ctx \in Nat /\ stack[n].ctx \in 1..Len(ctxs)
      BY <2>10, <3>1 DEF Nested, Frames, IsFrame
    <3>3. Top.base \in Nat
      BY <2>1
    <3> QED BY <1>2, <2>7, <2>11, <3>2, <3>3
  <2>13. stack[k].depth = Top.depth - 1
    <3>1. Len(stack) > 1 /\ Top.ctx = stack[Len(stack) - 1].ctx
      BY <1>10, <2>1
    <3>2. Top.depth = stack[Len(stack) - 1].depth + 1
      BY <1>1, <1>2, <2>10, <3>1 DEF Deep
    <3>3. stack[k].depth \in Nat
      BY <2>1, <2>3 DEF IsFrame
    <3> QED BY <1>3, <2>2, <3>2, <3>3
  <2>14. ASSUME NEW n \in 1..k, n = k \/ OnTop(stack, n)
         PROVE  Len(d[stack[n].ctx].scopes) = stack[n].depth
    <3>1. CASE n = k
      BY <1>5, <1>10, <2>1, <2>3, <2>9, <2>13, <3>1 DEF c
    <3>2. CASE n # k
      <4>1. n + 1 \in 1..k /\ n + 1 \in 1..Len(stack) /\ n \in 1..(n + 1 - 1) /\ n # Len(stack)
            /\ n \in 1..Len(stack)
        BY <1>2, <2>3, <3>2
      <4>2. stack[n + 1].ctx > stack[n + 1].base
        BY <2>14, <3>2, <4>1 DEF OnTop
      <4>3. stack[n].ctx <= stack[n + 1].base
        BY <2>10, <4>1 DEF Nested
      <4>4. stack[n + 1].ctx <= c
        <5>1. CASE n + 1 = k
          BY <2>3, <2>12, <4>1, <5>1 DEF c
        <5>2. CASE n + 1 # k
          <6>1. n + 1 \in 1..(k - 1)
            BY <2>3, <4>1, <5>2
          <6>2. stack[n + 1].ctx <= stack[k].ctx
            BY <2>3, <2>10, <6>1 DEF Nested
          <6> QED BY <2>3, <6>2 DEF c
        <5> QED BY <5>1, <5>2
      <4>5. stack[n].ctx \in Nat /\ stack[n + 1].ctx \in Nat /\ stack[n + 1].base \in Nat /\ c \in Nat
        <5>1. stack[n + 1].base \in Nat
          BY <2>10, <4>1 DEF Frames, IsFrame
        <5> QED BY <2>1, <2>3, <2>12, <4>1, <5>1 DEF c, IsFrame
      <4>6. stack[n].ctx # c
        BY <4>2, <4>3, <4>4, <4>5
      <4>7. Len(ctxs[stack[n].ctx].scopes) = stack[n].depth
        BY <2>10, <2>14, <3>2, <4>1 DEF Deep
      <4> QED BY <2>9, <2>12, <4>6, <4>7
    <3> QED BY <3>1, <3>2
  <2>15. ASSUME NEW n \in 1..k, stack[n].end.op \in OwnScopes
         PROVE  Agree(stack[n].before, d[stack[n - 1].ctx].scopes)
    <3>1. n - 1 \in 1..k /\ n \in 1..Len(stack) /\ k \in n..Len(stack)
      <4>1. n \in 1..Len(stack) /\ k \in n..Len(stack)
        BY <1>2, <2>3
      <4>2. n # 1
        BY <2>10, <2>15, <4>1 DEF Ordered, OwnScopes
      <4> QED BY <2>3, <4>1, <4>2
    <3>2. Agree(stack[n].before, ctxs[stack[n - 1].ctx].scopes)
      BY <2>10, <2>15, <3>1 DEF Kept
    <3>3. CASE stack[n - 1].ctx # c
      BY <2>9, <2>12, <3>1, <3>2, <3>3
    <3>4. CASE stack[n - 1].ctx = c
      <4>1. stack[k].depth > Len(stack[n].before)
        BY <2>1, <2>3, <2>10, <2>15, <3>1, <3>4 DEF Guarded, c
      <4>2. IsSeq(stack[n].before) /\ Len(stack[n].before) \in Nat
        BY <2>10, <3>1 DEF Frames, IsFrame, IsSeq
      <4>3. Top.depth - 1 \in Nat /\ Len(stack[n].before) <= Top.depth - 1
        BY <1>3, <2>13, <4>1, <4>2
      <4>4. Agree(stack[n].before, y.scopes)
        BY <1>5, <1>10, <3>2, <3>4, <4>2, <4>3, AgreeFollows DEF c
      <4> QED BY <2>9, <2>12, <3>1, <3>4, <4>4
    <3> QED BY <3>3, <3>4
  <2>16. Sound(stack, ctxs)
    BY DEF ScopesInv
  <2>17. Sound(st, d)
    BY <2>3, <2>5, <2>9, <2>11, <2>14, <2>15, <2>16, Lower
  <2>18. stack' = st /\ ctxs' = d
    BY <1>2, <1>6, <1>8, <2>2, <2>4, <2>6 DEF Return, ReturnFrom
  <2> QED BY <2>17, <2>18 DEF ScopesInv
<1> QED BY <1>1, <1>9, <1>10, CallerIs

\* A macro's body has one scope more than its caller.
LEMMA EnterMacroSound ==
    ASSUME ScopesInv, EnterMacro
    PROVE  ScopesInv'
<1>1. Top.end.op = "callee"
  BY DEF EnterMacro, Calls, Ends
<1>2. /\ Contexts(ctxs) /\ Len(ctxs) \in Nat /\ Top.ctx \in 1..Len(ctxs) /\ Top.ctx \in Nat
      /\ IsContext(ctxs[Top.ctx]) /\ Len(ctxs[Top.ctx].scopes) = Top.depth /\ IsFrame(Top)
  BY TopIs
<1> DEFINE node == Top.end.fn.node
<1>4. PICK scope : scope = MacroScope(node, Top.end.args)
  OBVIOUS
<1>5. PICK y : y = EnterScope(ctxs[Top.ctx], scope)
  OBVIOUS
<1>6. PICK cs : cs = [ctxs EXCEPT ![Top.ctx] = y]
  OBVIOUS
<1>7. PICK end : end = [op |-> "macro", node |-> node, args |-> Top.end.args]
  OBVIOUS
<1>8. "op" \in DOMAIN end /\ end.op = "macro"
  BY <1>7
<1>9. Become(cs, node.body, Top.ctx, end)
  <2>1. cs = [ctxs EXCEPT ![Top.ctx] = EnterScope(@, scope)]
    BY <1>5, <1>6
  <2> QED BY <1>4, <1>7, <2>1, Zenon DEF EnterMacro
<1>10. /\ IsContext(y) /\ Len(y.scopes) = Top.depth + 1
       /\ Follows(ctxs[Top.ctx].scopes, y.scopes, Top.depth)
  BY <1>2, <1>5, EnterScopeIs
<1>11. Replaces(ctxs, cs, Top.ctx, y)
  BY <1>2, <1>6, <1>10, ReplacesIt
<1>12. CASE Top.ctx = Caller.ctx
  BY <1>1, <1>8, <1>9, <1>10, <1>11, <1>12, MacroSound
<1>13. CASE Top.ctx > Top.base
  <2>1. /\ Contexts(cs) /\ Len(cs) = Len(ctxs)
        /\ \A i \in 1..Len(ctxs) : cs[i] = IF i = Top.ctx THEN y ELSE ctxs[i]
    BY <1>11 DEF Replaces
  <2>2. Top.base \in 0..Len(ctxs) /\ Top.base \in Nat /\ Top.depth \in Nat
    BY <1>1, <1>2, CallerIs DEF IsFrame
  <2>3. \A i \in 1..Top.base : i \in 1..Len(ctxs) /\ i # Top.ctx
    BY <1>2, <1>13, <2>2
  <2>4. Len(cs) >= Top.base /\ \A i \in 1..Top.base : cs[i] = ctxs[i]
    BY <1>2, <2>1, <2>2, <2>3
  <2>5. Top.ctx \in 1..Len(cs) /\ Len(cs[Top.ctx].scopes) > 0
    BY <1>2, <1>10, <2>1, <2>2
  <2> QED BY <1>1, <1>8, <1>9, <1>13, <2>1, <2>4, <2>5, BecomeSound
<1> QED BY <1>1, <1>12, <1>13, CallerIs

\* The callee is gone and a body goes on in its context.
LEMMA BecomePlain ==
    ASSUME ScopesInv, Top.end.op = "callee", NEW todo, Become(ctxs, todo, Top.ctx, [op |-> "plain"])
    PROVE  ScopesInv'
<1>1. PICK end : end = [op |-> "plain"]
  OBVIOUS
<1>2. "op" \in DOMAIN end /\ end.op = "plain"
  BY <1>1
<1>3. Become(ctxs, todo, Top.ctx, end)
  BY <1>1
<1>4. /\ Contexts(ctxs) /\ Len(ctxs) \in Nat /\ Top.ctx \in 1..Len(ctxs)
  BY TopIs
<1>5. /\ Top.base \in 0..Len(ctxs) /\ (Top.ctx > Top.base \/ Top.ctx = Caller.ctx)
  BY CallerIs
<1>6. Len(ctxs) >= Top.base
  BY <1>4, <1>5
<1>7. PICK cs, ctx : cs = ctxs /\ ctx = Top.ctx
  OBVIOUS
<1>8. /\ Contexts(cs) /\ Len(cs) >= Top.base /\ ctx \in 1..Len(cs)
      /\ \A i \in 1..Top.base : cs[i] = ctxs[i]
      /\ ctx > Top.base \/ (ctx = Caller.ctx /\ end.op = "plain")
      /\ Become(cs, todo, ctx, end)
  BY <1>2, <1>3, <1>4, <1>5, <1>6, <1>7
<1> QED BY <1>2, <1>8, BecomeSound

\* In a new context.
LEMMA BecomeNew ==
    ASSUME ScopesInv, Top.end.op = "callee", NEW x, IsContext(x), NEW cs, cs = Append(ctxs, x),
           NEW todo, NEW end, "op" \in DOMAIN end, end.op \in {"callee", "override"},
           Become(cs, todo, Len(cs), end)
    PROVE  ScopesInv'
<1>1. /\ Contexts(ctxs) /\ Len(ctxs) \in Nat
  BY TopIs
<1>2. Top.base \in 0..Len(ctxs)
  BY CallerIs
<1>3. Grows(ctxs, cs) /\ Len(cs) = Len(ctxs) + 1
  BY <1>1, OneMore
<1>4. /\ Contexts(cs) /\ Len(cs) >= Top.base
      /\ \A i \in 1..Top.base : cs[i] = ctxs[i]
  BY <1>1, <1>2, <1>3 DEF Grows
<1>5. PICK ctx : ctx = Len(cs)
  OBVIOUS
<1>6. ctx \in 1..Len(cs) /\ ctx > Top.base
  BY <1>1, <1>2, <1>3, <1>5
<1>7. Become(cs, todo, ctx, end)
  BY <1>5
<1> QED BY <1>4, <1>6, <1>7, BecomeSound

\* An imported macro gets a context of its own, or is not called.
LEMMA EnterImportedSound ==
    ASSUME ScopesInv, EnterImported
    PROVE  ScopesInv'
<1>1. Top.end.op = "callee" /\ IsFrame(Top) /\ IsContext(Context)
  BY TopIs DEF EnterImported, Calls, Ends
<1>2. PICK module : module = FindValue(Context, Top.end.fn.scope)
  OBVIOUS
<1>3. PICK z : z = Clone(Context, module.withContext)
  OBVIOUS
<1>4. PICK x : x = [z EXCEPT !.bound = <<module.vars>>]
  OBVIOUS
<1>5. IsContext(x)
  <2>1. IsContext(z)
    BY <1>1, <1>3, CloneIs
  <2>2. x = [bound |-> <<module.vars>>, scopes |-> z.scopes, ext |-> z.ext] /\ IsSeq(z.scopes)
    BY <1>4, <2>1 DEF IsContext
  <2>3. PICK b : b = <<module.vars>>
    OBVIOUS
  <2>4. x = [bound |-> b, scopes |-> z.scopes, ext |-> z.ext]
    BY <2>2, <2>3
  <2>5. x.bound = b /\ x.scopes = z.scopes /\ x.ext = z.ext
    BY <2>4
  <2> QED BY <2>2, <2>4, <2>5 DEF IsContext
<1>6. PICK cs : cs = Append(ctxs, x)
  OBVIOUS
<1>7. PICK t : t = Top.end
  OBVIOUS
<1>8. PICK end : end = [t EXCEPT !.fn = t.fn.fn]
  OBVIOUS
<1>9. "op" \in DOMAIN end /\ end.op = "callee"
  BY <1>1, <1>7, <1>8 DEF IsFrame
<1>10. CASE Become(cs, <<>>, Len(cs), end)
  BY <1>1, <1>5, <1>6, <1>9, <1>10, BecomeNew
<1>11. CASE Stop("crashed")
  BY <1>11, StopSound
<1>12. CASE Return(ctxs, out)
  BY <1>1, <1>12, ReturnNothing
<1>13. \/ Become(cs, <<>>, Len(cs), [Top.end EXCEPT !.fn = Top.end.fn.fn])
       \/ Stop("crashed")
       \/ Return(ctxs, out)
  BY <1>2, <1>3, <1>4, <1>6 DEF EnterImported
<1>14. [Top.end EXCEPT !.fn = Top.end.fn.fn] = end
  BY <1>7, <1>8
<1> QED BY <1>10, <1>11, <1>12, <1>13, <1>14

\* An overriding block gets a context of its own.
LEMMA RenderOverrideSound ==
    ASSUME ScopesInv, RenderOverride
    PROVE  ScopesInv'
<1>1. Top.end.op = "callee" /\ IsContext(Context)
  BY TopIs DEF RenderOverride, Calls, Ends
<1>2. PICK node : node = Top.end.fn.node
  OBVIOUS
<1>3. PICK scope :
         scope = Merge(Single("super", [k |-> "super", node |-> node]),
                       IF node.scoped THEN Empty
                       ELSE Single(ParentTemplate, [k |-> "renderers", list |-> Parents(Context)]))
  OBVIOUS
<1>4. PICK x : x = EnterScope(Clone(Context, node.scoped), scope)
  OBVIOUS
<1>5. IsContext(x)
  BY <1>1, <1>4, CloneIs, EnterScopeIs
<1>6. PICK cs : cs = Append(ctxs, x)
  OBVIOUS
<1>7. PICK end : end = [op |-> "override", node |-> node]
  OBVIOUS
<1>8. "op" \in DOMAIN end /\ end.op = "override"
  BY <1>7
<1>9. Become(cs, Parents(Context)[Min(Overriding(Context, node.name))].blocks[node.name],
             Len(cs), end)
  BY <1>2, <1>3, <1>4, <1>6, <1>7, Zenon DEF RenderOverride
<1> QED BY <1>1, <1>5, <1>6, <1>8, <1>9, BecomeNew

\* When it is done, only self changes.
LEMMA EndOverrideSound ==
    ASSUME ScopesInv, EndOverride
    PROVE  ScopesInv'
<1>1. Top.end.op = "override"
  BY DEF EndOverride, Ends
<1>2. Contexts(ctxs) /\ Caller.ctx \in 1..Len(ctxs)
  BY <1>1, TopIs, CallerIs
<1>3. PICK x : x = ctxs[Caller.ctx]
  OBVIOUS
<1>4. IsContext(x)
  BY <1>2, <1>3 DEF Contexts
<1>5. PICK block : block = Single(Top.end.node.name, [k |-> "block", node |-> Top.end.node])
  OBVIOUS
<1>6. PICK vals : vals = Merge(x.scopes[1]["self"].vals, block)
  OBVIOUS
<1>7. PICK w : w = [x.scopes[1]["self"] EXCEPT !.vals = vals]
  OBVIOUS
<1>8. PICK y : y = [x EXCEPT !.scopes[1]["self"] = w]
  OBVIOUS
<1>9. PICK cs : cs = [ctxs EXCEPT ![Caller.ctx] = y]
  OBVIOUS
<1>10. Writes(ctxs, cs, Caller.ctx)
  <2>1. /\ IsContext(y) /\ Len(y.scopes) = Len(x.scopes)
        /\ Follows(x.scopes, y.scopes, Len(x.scopes) - 1)
    BY <1>4, <1>8, SelfIs
  <2> QED BY <1>2, <1>3, <1>9, <2>1, Rewrites
<1>11. CASE Stop("crashed")
  BY <1>11, StopSound
<1>12. ASSUME Return([ctxs EXCEPT ![Caller.ctx].scopes[1]["self"].vals =
                         Merge(@, Single(Top.end.node.name, [k |-> "block", node |-> Top.end.node]))], out)
       PROVE  ScopesInv'
  <2>1. cs = [ctxs EXCEPT ![Caller.ctx].scopes[1]["self"].vals = Merge(@, block)]
    BY <1>3, <1>6, <1>7, <1>8, <1>9
  <2>2. Return(cs, out)
    BY <1>5, <1>12, <2>1
  <2> QED BY <1>1, <1>10, <2>2, ReturnWrites
<1> QED BY <1>11, <1>12 DEF EndOverride

\* extends writes its renderer in the scope on top and runs the parent there.
LEMMA ExtendsSound ==
    ASSUME ScopesInv, Extends
    PROVE  ScopesInv'
<1>1. Top.todo # <<>>
  BY DEF Extends, IsNext
<1>2. PICK r : r = [id |-> renderers + 1, blocks |-> Node.blocks]
  OBVIOUS
<1>3. PICK list : list = [k |-> "renderers", list |-> <<r>> \o Parents(Context)]
  OBVIOUS
<1>4. PICK scope : scope = Single(ParentTemplate, list)
  OBVIOUS
<1>5. PICK cs : cs = [ctxs EXCEPT ![Top.ctx] = PutAll(@, scope)]
  OBVIOUS
<1>6. Writes(ctxs, cs, Top.ctx)
  BY <1>5, TopIs, PutsAll
<1>7. PICK end : end = [op |-> "extends", id |-> r.id]
  OBVIOUS
<1>8. "op" \in DOMAIN end /\ end.op = "extends"
  BY <1>7
<1>9. PICK f : f = Frame(cs, files[Node.file], Top.ctx, Top.os, end)
  OBVIOUS
<1>10. Run(cs, out, <<f>>)
  BY <1>2, <1>3, <1>4, <1>5, <1>7, <1>9, Zenon DEF Extends, Put
<1>11. Sound(Append(Advance, f), cs)
  BY <1>1, <1>6, <1>8, <1>9, SharedSound DEF SharedOps
<1>12. Sound(stack, cs)
  <2>1. Top = stack[Len(stack)] /\ Top.end.op # "include"
    BY <1>1, TopIs DEF ScopesInv, Sound, Ordered
  <2> QED BY <1>6, <2>1, WritesSound DEF ScopesInv
<1> QED BY <1>1, <1>10, <1>11, <1>12, RunSound

\* The include goes on to its next name.
LEMMA NextNameSound ==
    ASSUME ScopesInv, Ends("include"), NEW cs, Sound(stack, cs)
    PROVE  /\ Sound(NextName, cs) /\ Len(NextName) = Len(stack)
           /\ Last(NextName).ctx = Top.ctx /\ Last(NextName).end.op = "include"
           /\ \A n \in 1..Len(stack) : /\ NextName[n].ctx = stack[n].ctx
                                       /\ NextName[n].base = stack[n].base
<1>1. /\ IsSeq(stack) /\ Len(stack) \in Nat /\ Len(stack) > 0 /\ Len(stack) \in 1..Len(stack)
      /\ Top = stack[Len(stack)] /\ IsFrame(Top) /\ Top.end.op = "include" /\ Top.todo = <<>>
  BY TopIs DEF Ends
<1>2. PICK names : names = Tail(Top.end.names)
  OBVIOUS
<1>3. PICK t : t = Top.end
  OBVIOUS
<1>4. PICK end : end = [t EXCEPT !.names = names]
  OBVIOUS
<1>5. "op" \in DOMAIN end /\ end.op = "include"
  BY <1>1, <1>3, <1>4 DEF IsFrame
<1>6. PICK f : f = [Top EXCEPT !.end = end]
  OBVIOUS
<1>7. /\ IsFrame(f) /\ f.ctx = Top.ctx /\ f.base = Top.base /\ f.depth = Top.depth
      /\ f.before = Top.before /\ f.end = end /\ f.todo = Top.todo
  BY <1>1, <1>5, <1>6 DEF IsFrame
<1>8. PICK st2 : st2 = NextName
  OBVIOUS
<1>9. st2 = [stack EXCEPT ![Len(stack)] = f]
  BY <1>1, <1>2, <1>3, <1>4, <1>6, <1>8 DEF NextName
<1>10. DOMAIN stack = 1..Len(stack)
  BY <1>1 DEF IsSeq
<1>11. st2 = [i \in 1..Len(stack) |-> st2[i]]
       /\ \A i \in 1..Len(stack) : st2[i] = IF i = Len(stack) THEN f ELSE stack[i]
  BY <1>9, <1>10
<1>12. IsSeq(st2) /\ Len(st2) = Len(stack)
  BY <1>1, <1>11, AsLong
<1>13. Last(st2) = f /\ Last(stack) = Top
  BY <1>1, <1>11, <1>12 DEF Last
<1>14. \A n \in 1..Len(stack) : n # Len(stack) => st2[n] = stack[n]
  BY <1>11
<1>15. Sound(st2, cs)
  BY <1>1, <1>5, <1>7, <1>12, <1>13, <1>14, TodoSound
<1>16. \A n \in 1..Len(stack) : st2[n].ctx = stack[n].ctx /\ st2[n].base = stack[n].base
  BY <1>1, <1>7, <1>11
<1> QED BY <1>5, <1>7, <1>8, <1>12, <1>13, <1>15, <1>16

\* An included file gets a context of its own.
LEMMA TryFileSound ==
    ASSUME ScopesInv, TryFile
    PROVE  ScopesInv'
<1>1. Ends("include")
  BY DEF TryFile
<1>2. /\ Contexts(ctxs) /\ Len(ctxs) \in Nat /\ IsContext(Context) /\ Context = ctxs[Top.ctx]
      /\ Top.ctx \in 1..Len(ctxs)
      /\ \A n \in 1..Len(stack) : stack[n].ctx <= Len(ctxs) /\ stack[n].base <= Len(ctxs)
  BY TopIs
<1>3. PICK with : with = Top.end.node.withContext
  OBVIOUS
<1>4. PICK x : x = IF with THEN EnterScope(Clone(Context, with), Empty) ELSE Clone(Context, with)
  OBVIOUS
<1>5. IsContext(x)
  BY <1>2, <1>4, CloneIs, EnterScopeIs
<1>6. PICK cs : cs = Append(ctxs, x)
  OBVIOUS
<1>7. PICK end : end = [op |-> "included", withContext |-> with]
  OBVIOUS
<1>8. "op" \in DOMAIN end /\ end.op = "included"
  BY <1>7
<1>9. PICK ctx : ctx = Len(cs)
  OBVIOUS
<1>10. PICK f : f = Frame(cs, files[Head(Top.end.names)], ctx, Top.os, end)
  OBVIOUS
<1>11. PICK st : st = NextName
  OBVIOUS
<1>12. stack' = Append(st, f) /\ ctxs' = cs
  BY <1>3, <1>4, <1>6, <1>7, <1>9, <1>10, <1>11 DEF TryFile
<1>13. Grows(ctxs, cs) /\ Len(cs) = Len(ctxs) + 1
  BY <1>2, <1>5, <1>6, OneMore
<1>14. Contexts(cs) /\ ctx \in 1..Len(cs) /\ ctx > Len(ctxs) /\ Len(ctxs) <= Len(cs)
  BY <1>2, <1>9, <1>13 DEF Grows
<1>15. /\ IsFrame(f) /\ f.ctx = ctx /\ f.end = end /\ f.base = Len(ctxs)
       /\ f.depth = Len(cs[ctx].scopes) /\ f.before = ctxs[Top.ctx].scopes
  BY <1>8, <1>10, <1>14, FrameIs
<1>16. Sound(stack, cs)
  BY <1>13, GrowsSound DEF ScopesInv
<1>17. /\ Sound(st, cs) /\ Len(st) = Len(stack)
       /\ Last(st).ctx = Top.ctx /\ Last(st).end.op = "include"
       /\ \A n \in 1..Len(stack) : st[n].ctx = stack[n].ctx /\ st[n].base = stack[n].base
  BY <1>1, <1>11, <1>16, NextNameSound
<1>18. Stands(f, Last(st))
  BY <1>8, <1>14, <1>15, <1>17 DEF Stands
<1>19. \A n \in 1..Len(st) : st[n].ctx <= f.base /\ st[n].base <= f.base
  BY <1>2, <1>15, <1>17
<1>20. /\ f.ctx \in 1..Len(cs) /\ f.base <= Len(cs) /\ f.depth = Len(cs[f.ctx].scopes)
       /\ f.end.op # "macro" /\ f.ctx > f.base
       /\ f.before = cs[Last(st).ctx].scopes
  BY <1>2, <1>8, <1>13, <1>14, <1>15, <1>17 DEF Grows
<1>21. Sound(Append(st, f), cs)
  BY <1>15, <1>17, <1>18, <1>19, <1>20, PutOn
<1> QED BY <1>12, <1>21 DEF ScopesInv

\* What it has set goes into the includer's scope on top.
LEMMA EndIncludedSound ==
    ASSUME ScopesInv, EndIncluded
    PROVE  ScopesInv'
<1>1. Top.end.op = "included"
  BY DEF EndIncluded, Ends
<1>2. /\ Contexts(ctxs) /\ IsSeq(ctxs) /\ Len(ctxs) \in Nat /\ Top = stack[Len(stack)]
      /\ Len(stack) \in Nat /\ IsSeq(stack) /\ Len(stack) \in 1..Len(stack)
  BY TopIs
<1>3. PICK scope : scope = IF Top.end.withContext THEN CurrentScope(Context) ELSE Empty
  OBVIOUS
<1>4. PICK cs : cs = [ctxs EXCEPT ![Caller.ctx] = PutAll(@, scope)]
  OBVIOUS
<1>5. ReturnFrom(Len(stack) - 1, cs, out)
  BY <1>3, <1>4 DEF EndIncluded
<1>6. /\ Len(stack) > 1 /\ Caller = stack[Len(stack) - 1] /\ Len(stack) - 1 \in 1..Len(stack)
      /\ Caller.ctx \in 1..Len(ctxs) /\ Caller.end.op = "include"
  BY <1>1, CallerIs
<1>7. /\ Sound(stack, ctxs) /\ Frames(stack) /\ Ordered(stack) /\ Nested(stack, ctxs)
      /\ Deep(stack, ctxs)
  BY DEF ScopesInv, Sound
<1>8. PICK n : n = Len(stack) - 1
  OBVIOUS
<1>9. n \in 1..Len(stack) /\ n + 1 = Len(stack) /\ Caller = stack[n] /\ n \in Nat /\ n # Len(stack)
  BY <1>2, <1>6, <1>8
<1>10. n > 1 /\ stack[n].ctx = stack[n - 1].ctx
  BY <1>6, <1>7, <1>9 DEF Ordered
<1>11. PICK k : k = n - 1
  OBVIOUS
<1>12. k \in 1..Len(stack) /\ k \in 1..(n - 1) /\ k \in 0..Len(stack) /\ k + 1 = n /\ k \in 1..k
  BY <1>9, <1>10, <1>11
<1>13. stack[k].end.op # "include"
  BY <1>6, <1>7, <1>9, <1>10, <1>11 DEF Ordered
<1>14. PICK b : b = stack[n].base
  OBVIOUS
<1>15. b \in 0..Len(ctxs) /\ stack[k].ctx <= b /\ stack[k].base <= b /\ stack[k].ctx \in 1..b
       /\ stack[k].ctx = Caller.ctx
  <2>1. b \in Nat
    BY <1>7, <1>9, <1>14 DEF Frames, IsFrame
  <2>2. stack[k].ctx <= b /\ stack[k].base <= b /\ b <= Len(ctxs)
    BY <1>7, <1>9, <1>12, <1>14 DEF Nested
  <2>3. stack[k].ctx = Caller.ctx
    BY <1>9, <1>10, <1>11
  <2>4. Caller.ctx > 0 /\ Caller.ctx \in Nat
    BY <1>2, <1>6
  <2> QED BY <1>2, <2>1, <2>2, <2>3, <2>4
<1>16. Len(ctxs[stack[k].ctx].scopes) = stack[k].depth
  <2>1. stack[n + 1].ctx > stack[n + 1].base
    BY <1>1, <1>2, <1>6, <1>7, <1>9 DEF Ordered
  <2>2. OnTop(stack, n)
    BY <2>1 DEF OnTop
  <2>3. Len(ctxs[stack[n].ctx].scopes) = stack[n].depth
    BY <1>7, <1>9, <2>2 DEF Deep
  <2>4. stack[n].depth = stack[k].depth + 0
    BY <1>6, <1>7, <1>9, <1>10, <1>11 DEF Deep
  <2>5. stack[k].depth \in Nat
    BY <1>7, <1>12 DEF Frames, IsFrame
  <2> QED BY <1>10, <1>11, <2>3, <2>4, <2>5
<1>17. PICK st : st = SubSeq(stack, 1, k)
  OBVIOUS
<1>18. PICK d : d = SubSeq(ctxs, 1, b)
  OBVIOUS
<1>19. Sound(st, d)
  BY <1>7, <1>12, <1>15, <1>16, <1>17, <1>18, UnwoundSound
<1>20. Len(st) = k /\ st[k] = stack[k]
  BY <1>2, <1>12, <1>17, Cuts
<1>21. Writes(ctxs, cs, Caller.ctx)
  BY <1>2, <1>4, <1>6, PutsAll
<1>22. Writes(d, SubSeq(cs, 1, b), Caller.ctx)
  BY <1>2, <1>15, <1>18, <1>21, CutWrites
<1>23. Sound(st, SubSeq(cs, 1, b))
  BY <1>13, <1>15, <1>19, <1>20, <1>22, WritesSound
<1>24. stack' = st /\ ctxs' = SubSeq(cs, 1, b)
  BY <1>5, <1>8, <1>11, <1>14, <1>17 DEF ReturnFrom
<1> QED BY <1>23, <1>24 DEF ScopesInv

\* An imported template gets two contexts of its own.
LEMMA ImportSound ==
    ASSUME ScopesInv, Import
    PROVE  ScopesInv'
<1>1. Top.todo # <<>>
  BY DEF Import, IsNext
<1>2. Contexts(ctxs) /\ IsSeq(ctxs) /\ Len(ctxs) \in Nat /\ IsContext(Context)
  BY TopIs
<1>3. PICK x : x = EnterScope(Clone(Context, Node.withContext), Empty)
  OBVIOUS
<1>4. PICK y : y = EnterScope(x, Empty)
  OBVIOUS
<1>5. IsContext(x) /\ IsContext(y)
  BY <1>2, <1>3, <1>4, CloneIs, EnterScopeIs
<1>6. PICK cs1 : cs1 = Append(ctxs, x)
  OBVIOUS
<1>7. PICK cs : cs = Append(cs1, y)
  OBVIOUS
<1>8. Grows(ctxs, cs1) /\ Len(cs1) = Len(ctxs) + 1
  BY <1>2, <1>5, <1>6, OneMore
<1>9. Grows(cs1, cs) /\ Len(cs) = Len(cs1) + 1
  BY <1>5, <1>7, <1>8, OneMore DEF Grows
<1>10. Grows(ctxs, cs) /\ Len(cs) > Len(ctxs)
  <2>1. \A i \in 1..Len(ctxs) : i \in 1..Len(cs1)
    BY <1>2, <1>8
  <2> QED BY <1>2, <1>8, <1>9, <2>1 DEF Grows
<1>11. cs = ctxs \o <<x, y>>
  BY <1>2, <1>6, <1>7, ConcatsTwo
<1>12. PICK outs : outs = Append(out, <<>>)
  OBVIOUS
<1>13. PICK end : end = [op |-> "import", node |-> Node, scope |-> NameOf(Context, Node.file)]
  OBVIOUS
<1>14. "op" \in DOMAIN end /\ end.op = "import"
  BY <1>13
<1>15. PICK todo : todo = files[kept'[Node.id]]
  OBVIOUS
<1>16. Run(cs, outs, <<Frame(cs, todo, Len(cs), Len(outs), end)>>)
  BY <1>3, <1>4, <1>11, <1>12, <1>13, <1>15, Zenon DEF Import
<1> QED BY <1>1, <1>10, <1>14, <1>16, RunNew

\* What is imported goes into the importer's scope on top.
LEMMA EndImportSound ==
    ASSUME ScopesInv, EndImport
    PROVE  ScopesInv'
<1>1. Top.end.op = "import"
  BY DEF EndImport, Ends
<1>2. Contexts(ctxs) /\ Caller.ctx \in 1..Len(ctxs)
  BY <1>1, TopIs, CallerIs
<1>3. ASSUME NEW scope, Return([ctxs EXCEPT ![Caller.ctx] = PutAll(@, scope)], out)
      PROVE  ScopesInv'
  <2>1. PICK cs : cs = [ctxs EXCEPT ![Caller.ctx] = PutAll(@, scope)]
    OBVIOUS
  <2>2. Writes(ctxs, cs, Caller.ctx)
    BY <1>2, <2>1, PutsAll
  <2>3. Return(cs, out)
    BY <1>3, <2>1
  <2> QED BY <1>1, <2>2, <2>3, ReturnWrites
<1> QED BY <1>3, Zenon DEF EndImport
-----------------------------------------------------------------------------
(* The theorems. *)

\* The rendering begins with one frame in one context of one scope.
LEMMA InitSound ==
    ASSUME Init
    PROVE  ScopesInv
<1>1. PICK f : f = [todo |-> files[Main], ctx |-> 1, os |-> 1, end |-> [op |-> "main"],
                    base |-> 1, streams |-> 1, depth |-> 1, before |-> <<>>]
  OBVIOUS
<1>2. stack = <<f>>
  BY <1>1 DEF Init
<1>3. /\ f.ctx = 1 /\ f.base = 1 /\ f.depth = 1 /\ f.before = <<>> /\ f.end = [op |-> "main"]
      /\ f = [todo |-> f.todo, ctx |-> f.ctx, os |-> f.os, end |-> f.end, base |-> f.base,
              streams |-> f.streams, depth |-> f.depth, before |-> f.before]
  BY <1>1
<1>4. f.end.op = "main" /\ "op" \in DOMAIN f.end
  BY <1>3
<1>5. IsSeq(f.before)
  BY <1>3 DEF IsSeq
<1>6. IsFrame(f)
  BY <1>3, <1>4, <1>5 DEF IsFrame
<1>7. /\ IsSeq(stack) /\ Len(stack) = 1 /\ stack[1] = f
  BY <1>2 DEF IsSeq
<1>8. \A n \in 1..Len(stack) : n = 1 /\ ~(n > 1) /\ stack[n] = f
  BY <1>7
<1>9. PICK s : s = <<Single("self", MapOf(Empty))>>
  OBVIOUS
<1>10. IsSeq(s) /\ Len(s) = 1
  BY <1>9 DEF IsSeq
<1>11. PICK c : c = [bound |-> <<>>, scopes |-> s, ext |-> Params]
  OBVIOUS
<1>12. IsContext(c) /\ c.scopes = s
  BY <1>10, <1>11 DEF IsContext
<1>13. ctxs = <<c>>
  BY <1>9, <1>11 DEF Init, NewContext
<1>14. IsSeq(ctxs) /\ Len(ctxs) = 1 /\ ctxs[1] = c
  BY <1>13 DEF IsSeq
<1>15. Contexts(ctxs)
  BY <1>12, <1>14 DEF Contexts
<1>16. Frames(stack)
  BY <1>6, <1>7, <1>8 DEF Frames
<1>17. Ordered(stack)
  BY <1>4, <1>8 DEF Ordered
<1>18. Nested(stack, ctxs)
  <2>1. f.ctx \in 1..Len(ctxs) /\ f.base <= Len(ctxs)
    BY <1>3, <1>14
  <2>2. 1..(1 - 1) = {}
    OBVIOUS
  <2> QED BY <1>8, <2>1, <2>2 DEF Nested
<1>19. Deep(stack, ctxs)
  BY <1>3, <1>4, <1>8, <1>10, <1>12, <1>14 DEF Deep
<1>20. Guarded(stack) /\ Kept(stack, ctxs)
  BY <1>4, <1>8 DEF Guarded, Kept, OwnScopes
<1> QED BY <1>15, <1>16, <1>17, <1>18, <1>19, <1>20 DEF ScopesInv, Sound

\* Every step of the rendering keeps the frames in their scopes.
LEMMA NextSound ==
    ASSUME ScopesInv, [Next]_vars
    PROVE  ScopesInv'
<1>1. CASE Text
  BY <1>1, SkipSound DEF Text, IsNext
<1>2. CASE Show
  BY <1>2, SkipSound DEF Show, IsNext
<1>3. CASE Set
  BY <1>3, SetSound
<1>4. CASE If
  BY <1>4, IfSound
<1>5. CASE EndPlain
  BY <1>5, ReturnNothing DEF EndPlain, Ends
<1>6. CASE Capture
  BY <1>6, CaptureSound
<1>7. CASE EndSet
  BY <1>7, EndSetSound
<1>8. CASE EndFilter
  BY <1>8, ReturnNothing DEF EndFilter, Ends
<1>9. CASE With
  BY <1>9, WithSound
<1>10. CASE EndWith
  BY <1>10, ReturnNothing DEF EndWith, Ends
<1>11. CASE DefineMacro
  BY <1>11, DefineMacroSound
<1>12. CASE Invoke
  BY <1>12, InvokeSound
<1>13. CASE Call
  BY <1>13, CallSound
<1>14. CASE EndCall
  BY <1>14, EndCallSound
<1>15. CASE CallEmpty
  BY <1>15, RaiseSound DEF CallEmpty
<1>16. CASE EnterMacro
  BY <1>16, EnterMacroSound
<1>17. CASE EndMacro
  BY <1>17, EndMacroSound
<1>18. CASE EnterImported
  BY <1>18, EnterImportedSound
<1>19. CASE EnterSuper
  BY <1>19, BecomePlain DEF EnterSuper, Calls, Ends
<1>20. CASE Block
  BY <1>20, BlockSound
<1>21. CASE RenderOwnBody
  BY <1>21, BecomePlain DEF RenderOwnBody, Calls, Ends
<1>22. CASE RenderOverride
  BY <1>22, RenderOverrideSound
<1>23. CASE EndOverride
  BY <1>23, EndOverrideSound
<1>24. CASE AskDead
  BY <1>24, StopSound DEF AskDead
<1>25. CASE ExtendsName
  BY <1>25, SkipSound DEF ExtendsName, IsNext, Skip
<1>26. CASE ExtendsMissing
  BY <1>26, RaiseSound DEF ExtendsMissing
<1>27. CASE Extends
  BY <1>27, ExtendsSound
<1>28. CASE EndExtends
  BY <1>28, ReturnNothing DEF EndExtends, Ends
<1>29. CASE Include
  BY <1>29, IncludeSound
<1>30. CASE TryMissing
  BY <1>30, NextNameSound DEF TryMissing, ScopesInv
<1>31. CASE TryFile
  BY <1>31, TryFileSound
<1>32. CASE EndIncluded
  BY <1>32, EndIncludedSound
<1>33. CASE NoneRendered
  BY <1>33, ReturnNothing, RaiseSound DEF NoneRendered, Ends
<1>34. CASE ImportMissing
  BY <1>34, RaiseSound DEF ImportMissing
<1>35. CASE Import
  BY <1>35, ImportSound
<1>36. CASE EndImport
  BY <1>36, EndImportSound
<1>37. CASE Finish
  BY <1>37, StopSound DEF Finish
<1>38. CASE Overflow
  BY <1>38, StopSound DEF Overflow
<1>39. CASE UNCHANGED vars
  BY <1>39 DEF vars, ScopesInv
<1>40. CASE Next
  <2>1. \/ Text \/ Show \/ Set \/ If \/ EndPlain
        \/ Capture \/ EndSet \/ EndFilter \/ With \/ EndWith
        \/ DefineMacro \/ Invoke \/ Call \/ EndCall \/ CallEmpty \/ EnterMacro \/ EndMacro
        \/ EnterImported \/ EnterSuper
        \/ Block \/ RenderOwnBody \/ RenderOverride \/ EndOverride \/ AskDead
        \/ ExtendsName \/ ExtendsMissing \/ Extends \/ EndExtends
        \/ Include \/ TryMissing \/ TryFile \/ EndIncluded \/ NoneRendered
        \/ ImportMissing \/ Import \/ EndImport
        \/ Finish \/ Overflow
    BY <1>40 DEF Next
  <2> QED BY <2>1, <1>1, <1>2, <1>3, <1>4, <1>5, <1>6, <1>7, <1>8, <1>9, <1>10, <1>11, <1>12,
             <1>13, <1>14, <1>15, <1>16, <1>17, <1>18, <1>19, <1>20, <1>21, <1>22, <1>23,
             <1>24, <1>25, <1>26, <1>27, <1>28, <1>29, <1>30, <1>31, <1>32, <1>33, <1>34,
             <1>35, <1>36, <1>37, <1>38
<1> QED BY <1>39, <1>40

\* The frames stand in contexts of their own or in those of the frame below, and have
\* scopes of their own in them, whatever the templates and however deep they call.
THEOREM ScopesInvariant == Spec => []ScopesInv
<1>1. Init => ScopesInv
  BY InitSound
<1>2. ScopesInv /\ [Next]_vars => ScopesInv'
  BY NextSound
<1> QED BY <1>1, <1>2, PTL DEF Spec

\* What a body sets, calls or throws is not seen in the scopes of the statement that
\* runs it before that statement hands it out, and every body goes on in as many scopes
\* as it began with.
THEOREM BodiesDisturbNothing == Spec => []Undisturbed
<1>1. ScopesInv => Undisturbed
  <2> SUFFICES ASSUME ScopesInv
               PROVE  Undisturbed
    OBVIOUS
  <2>1. Len(Context.scopes) = Top.depth /\ DOMAIN stack = 1..Len(stack)
    BY TopIs DEF IsSeq
  <2>2. Kept(stack, ctxs)
    BY DEF ScopesInv, Sound
  <2> QED BY <2>1, <2>2 DEF Undisturbed, Kept, Agree
<1> QED BY <1>1, ScopesInvariant, PTL
-----------------------------------------------------------------------------
(* What blocks ask.  The lists of renderers are values like others; all values a  *)
(* rendering meets are in a set that is closed under what values are made of, and *)
(* the bodies in them hold no extends.  A renderer that no include or import has  *)
(* copied is then only in contexts that its extends statement has made, or in the *)
(* scope that it put it in; and when the statement has returned, the template     *)
(* that extends is over, too.                                                     *)

TemplateOps == {"main", "included", "import", "extends"}

Ids(v) == IF v.k = "renderers" THEN {r.id : r \in Range(v.list)} ELSE {}
Has(scope, x) == \E v \in DOMAIN scope : x \in Ids(scope[v])

\* What is known of a value, if those it is made of are in G.
Proper(G, cp, v) ==
    /\ v.k \in {"macro", "super", "block"} => v.node.body \in Bodies
    /\ v.k = "macro" => v = [k |-> "macro", node |-> v.node, live |-> v.live]
    /\ v.k = "imported" =>
          /\ v = [k |-> "imported", fn |-> v.fn, scope |-> v.scope, live |-> v.live]
          /\ v.fn \in G
    /\ v.k = "map" =>
          v = [k |-> "map", vals |-> v.vals] /\ \A x \in DOMAIN v.vals : v.vals[x] \in G
    /\ v.k = "renderers" =>
          /\ v = [k |-> "renderers", list |-> v.list]
          /\ IsSeq(v.list)
          /\ \A i \in 1..Len(v.list) : Range(v.list[i].blocks) \subseteq Bodies
    /\ v.k = "module" =>
          \A x \in DOMAIN v.vars : v.vars[x] \in G /\ Ids(v.vars[x]) \subseteq cp
OfValues(G, scope) == \A v \in DOMAIN scope : scope[v] \in G
Closed(G, cp) ==
    /\ NoValue \in G /\ MapOf(Empty) \in G /\ OfValues(G, Globals)
    /\ \A v \in G : Proper(G, cp, v)

ContextFine(G, cp, c) ==
    /\ IsSeq(c.bound)
    /\ \A b \in 1..Len(c.bound) :
         OfValues(G, c.bound[b]) /\ \A x : Has(c.bound[b], x) => x \in cp
    /\ \A j \in 1..Len(c.scopes) : OfValues(G, c.scopes[j])
    /\ OfValues(G, c.ext) /\ \A x : ~Has(c.ext, x)

\* So is what a frame has to run, and what its end keeps.
Runs(G, todo, end) ==
    /\ IsSeq(todo)
    /\ IF end.op \in TemplateOps THEN IsTemplate(todo) ELSE IsBody(todo)
    /\ end.op = "callee" =>
          /\ end = [op |-> "callee", fn |-> end.fn, args |-> end.args]
          /\ end.fn \in G
          /\ \A i \in DOMAIN end.args : end.args[i] \in G
    /\ end.op = "call" => end.prev \in G
    /\ end.op = "override" => end.node.body \in Bodies
FrameFine(G, f) == Runs(G, f.todo, f.end) /\ f.depth > 0

\* Up to frame m there is one that waits for the parent template, with renderer x.
Lives(st, m, x) == \E n \in 1..m : st[n].end.op = "extends" /\ st[n].end.id = x

\* The renderers a frame will hand on are there as long as the frame.
HandsOn(end, x) ==
    \/ end.op = "callee" /\ \E i \in DOMAIN end.args : x \in Ids(end.args[i])
    \/ end.op = "call" /\ x \in Ids(end.prev)
Handed(st, cp, n) == \A x : HandsOn(st[n].end, x) => x \in cp \/ Lives(st, n, x)

\* Only a template that is over waits for its parent.
Extending(st, n) ==
    st[n].end.op = "extends" =>
        /\ n > 1 /\ st[n - 1].todo = <<>> /\ st[n - 1].end.op \in TemplateOps
        /\ st[n - 1].ctx = st[n].ctx

\* Scope j of context i is one that an extends statement with renderer x has put it
\* in, or that has been made since.
Held(st, x, i, j) ==
    \E n \in 1..Len(st) :
        /\ st[n].end.op = "extends" /\ st[n].end.id = x
        /\ i > st[n].base \/ (i = st[n].ctx /\ j >= st[n].depth)

\* The template in whose scope this is is over.
Over(st, i, j) ==
    /\ Last(st).todo = <<>> /\ Last(st).end.op \in TemplateOps
    /\ i = Last(st).ctx /\ j = Last(st).depth

Sourced(st, cs, cp) ==
    \A i \in 1..Len(cs) : \A j \in 1..Len(cs[i].scopes) : \A x :
        Has(cs[i].scopes[j], x) => x \in cp \/ Held(st, x, i, j) \/ Over(st, i, j)

Fine(G, st, cs, cp) ==
    /\ Closed(G, cp)
    /\ \A i \in 1..Len(cs) : ContextFine(G, cp, cs[i])
    /\ \A n \in 1..Len(st) : FrameFine(G, st[n]) /\ Handed(st, cp, n) /\ Extending(st, n)
    /\ Sourced(st, cs, cp)

\* Inductive, with ScopesInv.
RenderersInv ==
    /\ files \in Programs
    /\ \A id \in DOMAIN kept : kept[id] \in DOMAIN files
    /\ \E G : Fine(G, stack, ctxs, copied)
-----------------------------------------------------------------------------
(* Values. *)

\* The renderers of a scope, as EndIncluded and EndImport count them.
LEMMA RenderersAre ==
    ASSUME NEW scope, NEW x
    PROVE  x \in RenderersIn(scope) <=> Has(scope, x)
BY DEF RenderersIn, Has, Ids

\* With more values, and more copied, a value stays proper.
LEMMA ProperStays ==
    ASSUME NEW G, NEW H, G \subseteq H, NEW cp, NEW cq, cp \subseteq cq, NEW v, Proper(G, cp, v)
    PROVE  Proper(H, cq, v)
BY DEF Proper

\* So does the set.
LEMMA ClosedStays ==
    ASSUME NEW G, NEW cp, Closed(G, cp), NEW cq, cp \subseteq cq
    PROVE  Closed(G, cq)
BY ProperStays DEF Closed

\* Values may be added that are made of what is there.
LEMMA ClosedAdds ==
    ASSUME NEW G, NEW cp, Closed(G, cp), NEW S, \A v \in S : Proper(G, cp, v)
    PROVE  Closed(G \union S, cp)
BY ProperStays DEF Closed, OfValues

\* One value may be added.
LEMMA ClosedAddsOne ==
    ASSUME NEW G, NEW cp, Closed(G, cp), NEW v, Proper(G, cp, v)
    PROVE  Closed(G \union {v}, cp) /\ G \subseteq G \union {v} /\ v \in G \union {v}
<1>1. PICK S : S = {v}
  OBVIOUS
<1>2. \A u \in S : Proper(G, cp, u)
  BY <1>1
<1>3. Closed(G \union S, cp)
  BY <1>2, ClosedAdds
<1> QED BY <1>1, <1>3

\* Contexts stay fine, too.
LEMMA ContextStays ==
    ASSUME NEW G, NEW H, G \subseteq H, NEW cp, NEW cq, cp \subseteq cq, NEW c,
           ContextFine(G, cp, c)
    PROVE  ContextFine(H, cq, c)
BY DEF ContextFine, OfValues

\* Frames stay fine.
LEMMA FrameStays ==
    ASSUME NEW G, NEW H, G \subseteq H, NEW f, FrameFine(G, f)
    PROVE  FrameFine(H, f)
BY DEF FrameFine, Runs

\* Words.
LEMMA DataProper ==
    ASSUME NEW G, NEW cp, NEW words
    PROVE  Proper(G, cp, Data(words)) /\ Ids(Data(words)) = {}
BY DEF Proper, Data, Ids

\* What is not there.
LEMMA NoValueProper ==
    ASSUME NEW G, NEW cp
    PROVE  Proper(G, cp, NoValue) /\ Ids(NoValue) = {}
BY DEF Proper, NoValue, Ids

\* A macro, the block that super renders and a block of self.
LEMMA BodyProper ==
    ASSUME NEW G, NEW cp, NEW node, node.body \in Bodies
    PROVE  /\ Proper(G, cp, MacroOf(node)) /\ Ids(MacroOf(node)) = {}
           /\ \A kind \in {"super", "block"} :
                 Proper(G, cp, [k |-> kind, node |-> node]) /\ Ids([k |-> kind, node |-> node]) = {}
BY DEF Proper, MacroOf, Ids

\* A map.
LEMMA MapProper ==
    ASSUME NEW G, NEW cp, NEW vals, \A x \in DOMAIN vals : vals[x] \in G
    PROVE  Proper(G, cp, MapOf(vals)) /\ Ids(MapOf(vals)) = {}
BY DEF Proper, MapOf, Ids

\* Scopes put together.
LEMMA MergeIs ==
    ASSUME NEW G, NEW f, OfValues(G, f), NEW g, OfValues(G, g)
    PROVE  OfValues(G, Merge(f, g)) /\ \A x : Has(Merge(f, g), x) => Has(f, x) \/ Has(g, x)
BY DEF OfValues, Has, Merge

\* A scope with one value.
LEMMA SingleIs ==
    ASSUME NEW G, NEW v, NEW x, x \in G
    PROVE  OfValues(G, Single(v, x)) /\ \A y : Has(Single(v, x), y) => y \in Ids(x)
BY DEF OfValues, Has, Single

\* None.
LEMMA EmptyIs ==
    ASSUME NEW G
    PROVE  OfValues(G, Empty) /\ \A x : ~Has(Empty, x)
BY DEF OfValues, Has, Empty
-----------------------------------------------------------------------------
(* FindValue. *)

\* The least element of a set of places is one.
LEMMA MinIs ==
    ASSUME NEW n \in Nat, NEW S, S \subseteq 1..n, S # {}
    PROVE  Min(S) \in S /\ \A x \in S : Min(S) <= x
<1>1. S \subseteq Nat
  OBVIOUS
<1>2. PICK m \in S : \A k \in S : ~(k < m)
  <2>1. IsWellFoundedOn({ss \in Nat \X Nat : ss[1] < ss[2]}, Nat)
    BY NatLessThanWellFounded DEF OpToRel
  <2>2. PICK m \in S : \A k \in S : ~(<<k, m>> \in {ss \in Nat \X Nat : ss[1] < ss[2]})
    BY <1>1, <2>1, WFMin
  <2>3. \A k \in S : ~(k < m)
    BY <1>1, <2>2
  <2> QED BY <2>3
<1>3. \A k \in S : m <= k
  BY <1>1, <1>2
<1>4. \E x \in S : \A y \in S : x =< y
  BY <1>3
<1> QED BY <1>4 DEF Min

\* x is in s.
In(s, x) == \E k \in 1..Len(s) : x = s[k]

\* What is in two sequences put together is in one of them.
LEMMA Concats ==
    ASSUME NEW s, IsSeq(s), NEW t, IsSeq(t), NEW u, u = s \o t
    PROVE  /\ IsSeq(u)
           /\ \A i \in 1..Len(u) : In(s, u[i]) \/ In(t, u[i])
<1>1. PICK S : S = {s[i] : i \in 1..Len(s)} \union {t[i] : i \in 1..Len(t)}
  OBVIOUS
<1>2. Len(s) \in Nat /\ s = [i \in 1..Len(s) |-> s[i]] /\ \A i \in 1..Len(s) : s[i] \in S
  BY <1>1 DEF IsSeq
<1>3. Len(t) \in Nat /\ t = [i \in 1..Len(t) |-> t[i]] /\ \A i \in 1..Len(t) : t[i] \in S
  BY <1>1 DEF IsSeq
<1>4. s \in Seq(S) /\ t \in Seq(S)
  <2>1. s \in [1..Len(s) -> S] /\ t \in [1..Len(t) -> S]
    BY <1>2, <1>3
  <2>2. \A n \in Nat : \A r \in [1..n -> S] : r \in Seq(S)
    OBVIOUS
  <2> QED BY <1>2, <1>3, <2>1, <2>2
<1>5. /\ u \in Seq(S) /\ Len(u) = Len(s) + Len(t)
      /\ \A i \in 1..(Len(s) + Len(t)) :
           u[i] = IF i <= Len(s) THEN s[i] ELSE t[i - Len(s)]
  BY <1>4, ConcatProperties
<1>6. IsSeq(u)
  BY <1>5, InSeq
<1>7. ASSUME NEW i \in 1..Len(u)
      PROVE  In(s, u[i]) \/ In(t, u[i])
  <2>1. CASE i <= Len(s)
    <3>1. i \in 1..Len(s) /\ u[i] = s[i]
      BY <1>2, <1>3, <1>5, <2>1
    <3> QED BY <3>1 DEF In
  <2>2. CASE ~(i <= Len(s))
    <3>1. i - Len(s) \in 1..Len(t) /\ u[i] = t[i - Len(s)]
      BY <1>2, <1>3, <1>5, <2>2
    <3> QED BY <3>1 DEF In
  <2> QED BY <2>1, <2>2
<1> QED BY <1>6, <1>7

\* Where FindValue finds a value.
LEMMA FindIs ==
    ASSUME NEW c, IsContext(c), IsSeq(c.bound), NEW v
    PROVE  \/ FindValue(c, v) = NoValue
           \/ \E m : /\ v \in DOMAIN m /\ FindValue(c, v) = m[v]
                     /\ \/ \E b \in 1..Len(c.bound) : m = c.bound[b]
                        \/ \E j \in 1..Len(c.scopes) : m = c.scopes[j]
                        \/ m = c.ext \/ m = Globals
<1>1. PICK s : s = Reverse(c.scopes)
  OBVIOUS
<1>2. IsSeq(s) /\ \A i \in 1..Len(s) : \E j \in 1..Len(c.scopes) : s[i] = c.scopes[j]
  <2>1. IsSeq(c.scopes) /\ Len(c.scopes) \in Nat
    BY DEF IsContext, IsSeq
  <2>2. s = [i \in 1..Len(c.scopes) |-> s[i]]
        /\ \A i \in 1..Len(c.scopes) : s[i] = c.scopes[Len(c.scopes) - i + 1]
    BY <1>1 DEF Reverse
  <2>3. IsSeq(s) /\ Len(s) = Len(c.scopes)
    BY <2>1, <2>2, AsLong
  <2>4. \A i \in 1..Len(c.scopes) : Len(c.scopes) - i + 1 \in 1..Len(c.scopes)
    BY <2>1
  <2> QED BY <2>2, <2>3, <2>4
<1>3. PICK t : t = <<c.ext, Globals>>
  OBVIOUS
<1>4. IsSeq(t) /\ \A i \in 1..Len(t) : t[i] = c.ext \/ t[i] = Globals
  <2>1. Len(t) = 2 /\ t = [i \in 1..2 |-> t[i]] /\ t[1] = c.ext /\ t[2] = Globals
    BY <1>3
  <2> QED BY <2>1 DEF IsSeq
<1>5. PICK q, u : q = c.bound /\ u = q \o s
  OBVIOUS
<1>6. PICK w : w = u \o t
  OBVIOUS
<1>7. IsSeq(u) /\ \A i \in 1..Len(u) : In(q, u[i]) \/ In(s, u[i])
  <2>1. IsSeq(q) /\ IsSeq(s) /\ u = q \o s
    BY <1>2, <1>5
  <2> QED BY <2>1, Concats, Zenon
<1>8. IsSeq(w) /\ \A i \in 1..Len(w) : In(u, w[i]) \/ In(t, w[i])
  <2>1. IsSeq(u) /\ IsSeq(t) /\ w = u \o t
    BY <1>4, <1>6, <1>7
  <2> QED BY <2>1, Concats, Zenon
<1>9. Chain(c) = w
  BY <1>1, <1>3, <1>5, <1>6 DEF Chain
<1>10. PICK found : found = {i \in DOMAIN w : v \in DOMAIN w[i]}
  OBVIOUS
<1>11. FindValue(c, v) = IF found = {} THEN NoValue ELSE w[Min(found)][v]
  BY <1>9, <1>10 DEF FindValue
<1>12. CASE found # {}
  <2>1. DOMAIN w = 1..Len(w) /\ Len(w) \in Nat
    BY <1>8 DEF IsSeq
  <2>2. found \subseteq 1..Len(w)
    BY <1>10, <2>1
  <2>3. PICK i : i = Min(found)
    OBVIOUS
  <2>4. i \in found
    BY <1>12, <2>1, <2>2, <2>3, MinIs
  <2>5. i \in 1..Len(w) /\ v \in DOMAIN w[i] /\ FindValue(c, v) = w[i][v]
    BY <1>10, <1>11, <1>12, <2>1, <2>3, <2>4
  <2>6. \/ \E b \in 1..Len(c.bound) : w[i] = c.bound[b]
        \/ \E j \in 1..Len(c.scopes) : w[i] = c.scopes[j]
        \/ w[i] = c.ext \/ w[i] = Globals
    <3>1. CASE In(t, w[i])
      BY <1>4, <3>1 DEF In
    <3>2. CASE In(u, w[i])
      BY <1>2, <1>5, <1>7, <3>2 DEF In
    <3> QED BY <1>8, <2>5, <3>1, <3>2
  <2> QED BY <2>5, <2>6
<1> QED BY <1>11, <1>12
-----------------------------------------------------------------------------
(* Where renderers are. *)

\* Every frame above frame n has a context made since, or goes on in that of n.
LEMMA AboveIs ==
    ASSUME NEW st, NEW cs, Sound(st, cs), NEW n \in 1..Len(st), NEW m \in n..Len(st)
    PROVE  st[m].ctx > st[n].base \/ (st[m].ctx = st[n].ctx /\ st[m].depth >= st[n].depth)
<1>1. /\ Frames(st) /\ Nested(st, cs) /\ Deep(st, cs) /\ Len(st) \in Nat
      /\ n \in Nat /\ m \in Nat /\ m \in 1..Len(st)
  BY DEF Sound, Frames, IsSeq
<1>2. \A l \in 1..Len(st) : st[l].ctx \in Nat /\ st[l].base \in Nat /\ st[l].depth \in Nat
  BY <1>1 DEF Frames, IsFrame
<1> DEFINE Above(l) == st[l].ctx > st[n].base \/ (st[l].ctx = st[n].ctx /\ st[l].depth >= st[n].depth)
           Bad == {l \in n..Len(st) : ~Above(l)}
<1>3. Above(n)
  BY <1>2
<1>4. ASSUME NEW l \in n..Len(st), l # n, Above(l - 1)
      PROVE  Above(l)
  <2>1. l \in 1..Len(st) /\ l - 1 \in 1..Len(st) /\ l > 1 /\ n \in 1..(l - 1)
    BY <1>1, <1>4
  <2>2. st[l].ctx > st[l].base \/ st[l].ctx = st[l - 1].ctx
    BY <1>1, <2>1 DEF Nested
  <2>3. st[n].base <= st[l].base
    BY <1>1, <2>1 DEF Nested
  <2>4. st[l].ctx = st[l - 1].ctx =>
           st[l].depth = st[l - 1].depth + (IF st[l].end.op = "macro" THEN 1 ELSE 0)
    BY <1>1, <2>1 DEF Deep
  <2>5. CASE st[l].ctx > st[l].base
    BY <1>2, <2>1, <2>3, <2>5
  <2>6. CASE st[l].ctx = st[l - 1].ctx
    <3>1. st[l].depth >= st[l - 1].depth
      BY <1>2, <2>1, <2>4, <2>6
    <3> QED BY <1>2, <1>4, <2>1, <2>6, <3>1
  <2> QED BY <2>2, <2>5, <2>6
<1> HIDE DEF Above
<1>5. Bad = {}
  <2>1. SUFFICES ASSUME Bad # {}
                 PROVE  FALSE
    OBVIOUS
  <2>2. PICK l : l = Min(Bad)
    OBVIOUS
  <2>3. Bad \subseteq 1..Len(st)
    BY <1>1
  <2>4. l \in Bad /\ \A k \in Bad : l <= k
    <3>1. PICK S : S = Bad
      OBVIOUS
    <3>2. Min(S) \in S /\ \A x \in S : Min(S) <= x
      BY <1>1, <2>1, <2>3, <3>1, MinIs
    <3> QED BY <2>2, <3>1, <3>2
  <2>5. l # n /\ l \in n..Len(st)
    BY <1>3, <2>4
  <2>6. l - 1 \in n..Len(st) /\ ~(l <= l - 1)
    BY <1>1, <2>5
  <2>7. Above(l - 1)
    BY <2>4, <2>6
  <2> QED BY <1>4, <2>4, <2>5, <2>7
<1>6. Above(m)
  BY <1>5
<1> QED BY <1>6 DEF Above

\* What frame m may hand on may be in its scope, and in contexts made later.
LEMMA HeldHere ==
    ASSUME NEW st, NEW cs, Sound(st, cs), NEW x, Lives(st, Len(st), x), NEW j \in Nat,
           j >= Last(st).depth
    PROVE  Held(st, x, Last(st).ctx, j)
<1>1. PICK n \in 1..Len(st) : st[n].end.op = "extends" /\ st[n].end.id = x
  BY DEF Lives
<1>2. PICK m : m = Len(st)
  OBVIOUS
<1>3. m \in n..Len(st) /\ m \in 1..Len(st) /\ Frames(st)
  BY <1>1, <1>2 DEF Sound, Frames, IsSeq
<1>4. st[m].ctx > st[n].base \/ (st[m].ctx = st[n].ctx /\ st[m].depth >= st[n].depth)
  BY <1>1, <1>3, AboveIs
<1>5. st[m].depth \in Nat /\ st[n].depth \in Nat /\ j >= st[m].depth /\ Last(st) = st[m]
  BY <1>1, <1>2, <1>3 DEF Frames, IsFrame, Last
<1> QED BY <1>1, <1>4, <1>5 DEF Held

\* What is held is there.
LEMMA HeldLives ==
    ASSUME NEW st, NEW x, NEW i, NEW j, Held(st, x, i, j)
    PROVE  Lives(st, Len(st), x)
BY DEF Held, Lives

\* The frame on top is not that of a template that is over.
Busy == Top.todo # <<>> \/ Top.end.op \notin TemplateOps

\* The renderers in a context are there.
Knows(st, cp, y) ==
    \A j \in 1..Len(y.scopes) : \A v :
        Has(y.scopes[j], v) => v \in cp \/ Lives(st, Len(st), v)

\* So are those in the values that are found in it.
LEMMA KnownIn ==
    ASSUME NEW G, NEW cp, Closed(G, cp), NEW c, IsContext(c), ContextFine(G, cp, c),
           NEW st, Knows(st, cp, c), NEW v
    PROVE  /\ FindValue(c, v) \in G
           /\ \A x \in Ids(FindValue(c, v)) : x \in cp \/ Lives(st, Len(st), x)
<1>1. CASE FindValue(c, v) = NoValue
  BY <1>1 DEF Closed, NoValue, Ids
<1>2. ASSUME NEW m, v \in DOMAIN m, FindValue(c, v) = m[v], OfValues(G, m),
             \A x : Has(m, x) => x \in cp \/ Lives(st, Len(st), x)
      PROVE  /\ FindValue(c, v) \in G
             /\ \A x \in Ids(FindValue(c, v)) : x \in cp \/ Lives(st, Len(st), x)
  BY <1>2 DEF OfValues, Has
<1>3. ASSUME NEW b \in 1..Len(c.bound)
      PROVE  OfValues(G, c.bound[b]) /\ \A x : Has(c.bound[b], x) => x \in cp
  BY DEF ContextFine
<1>4. ASSUME NEW j \in 1..Len(c.scopes)
      PROVE  /\ OfValues(G, c.scopes[j])
             /\ \A x : Has(c.scopes[j], x) => x \in cp \/ Lives(st, Len(st), x)
  BY DEF ContextFine, Knows
<1>5. OfValues(G, c.ext) /\ \A x : ~Has(c.ext, x)
  BY DEF ContextFine
<1>6. OfValues(G, Globals) /\ \A x : ~Has(Globals, x)
  BY ValuesAssumption DEF Closed, Has, Ids
<1>7. CASE FindValue(c, v) # NoValue
  <2>1. PICK m : /\ v \in DOMAIN m /\ FindValue(c, v) = m[v]
                 /\ \/ \E b \in 1..Len(c.bound) : m = c.bound[b]
                    \/ \E j \in 1..Len(c.scopes) : m = c.scopes[j]
                    \/ m = c.ext \/ m = Globals
    <3>1. IsSeq(c.bound)
      BY DEF ContextFine
    <3> QED BY <1>7, <3>1, FindIs
  <2>2. OfValues(G, m)
    BY <1>3, <1>4, <1>5, <1>6, <2>1
  <2>3. \A x : Has(m, x) => x \in cp \/ Lives(st, Len(st), x)
    BY <1>3, <1>4, <1>5, <1>6, <2>1
  <2> QED BY <1>2, <2>1, <2>2, <2>3
<1> QED BY <1>1, <1>7

\* What is known of the frame on top while no template is over.
LEMMA Known ==
    ASSUME ScopesInv, NEW G, Fine(G, stack, ctxs, copied), Busy
    PROVE  /\ ContextFine(G, copied, Context) /\ Knows(stack, copied, Context)
           /\ \A v : /\ FindValue(Context, v) \in G
                     /\ \A x \in Ids(FindValue(Context, v)) :
                           x \in copied \/ Lives(stack, Len(stack), x)
<1>1. /\ Top = stack[Len(stack)] /\ Top = Last(stack) /\ Top.ctx \in 1..Len(ctxs)
      /\ Context = ctxs[Top.ctx] /\ IsContext(Context)
  BY TopIs DEF Last
<1>2. ContextFine(G, copied, Context) /\ Closed(G, copied)
  BY <1>1 DEF Fine
<1>3. ASSUME NEW j \in 1..Len(Context.scopes), NEW x, Has(Context.scopes[j], x)
      PROVE  x \in copied \/ Lives(stack, Len(stack), x)
  <2>1. x \in copied \/ Held(stack, x, Top.ctx, j) \/ Over(stack, Top.ctx, j)
    BY <1>1, <1>3 DEF Fine, Sourced
  <2>2. ~Over(stack, Top.ctx, j)
    BY <1>1 DEF Over, Busy
  <2> QED BY <2>1, <2>2, HeldLives
<1>4. Knows(stack, copied, Context)
  BY <1>3 DEF Knows
<1>5. ASSUME NEW v
      PROVE  /\ FindValue(Context, v) \in G
             /\ \A x \in Ids(FindValue(Context, v)) : x \in copied \/ Lives(stack, Len(stack), x)
  BY <1>1, <1>2, <1>4, KnownIn
<1> QED BY <1>2, <1>4, <1>5

\* The frame on top, and its body.
LEMMA TopFine ==
    ASSUME ScopesInv, NEW G, Fine(G, stack, ctxs, copied)
    PROVE  /\ Runs(G, Top.todo, Top.end) /\ Closed(G, copied)
           /\ Top.depth \in Nat /\ Top.depth > 0 /\ Len(Context.scopes) > 0
           /\ \A x : HandsOn(Top.end, x) => x \in copied \/ Lives(stack, Len(stack), x)
<1>1. /\ Top = stack[Len(stack)] /\ Len(stack) \in 1..Len(stack) /\ IsFrame(Top)
      /\ Len(Context.scopes) = Top.depth
  BY TopIs
<1> QED BY <1>1 DEF Fine, FrameFine, Handed, IsFrame
-----------------------------------------------------------------------------
(* Steps. *)

\* What follows the first statement.
LEMMA TailIs ==
    ASSUME NEW s, IsSeq(s), s # <<>>
    PROVE  /\ IsSeq(Tail(s)) /\ DOMAIN s = 1..Len(s) /\ DOMAIN Tail(s) = 1..Len(Tail(s))
           /\ Len(s) \in Nat /\ Len(s) > 0 /\ Len(Tail(s)) = Len(s) - 1
           /\ 1 \in 1..Len(s) /\ Head(s) = s[1]
           /\ \A i \in 1..Len(Tail(s)) : i + 1 \in 1..Len(s) /\ Tail(s)[i] = s[i + 1]
<1>0. PICK t : t = Tail(s)
  OBVIOUS
<1>1. PICK S : s \in Seq(S)
  BY SeqIn
<1>2. /\ Head(s) = s[1] /\ t \in Seq(S) /\ Len(t) = Len(s) - 1
      /\ \A i \in 1..Len(t) : t[i] = s[i + 1]
  BY <1>0, <1>1, HeadTailProperties
<1>3. Len(s) \in Nat /\ DOMAIN s = 1..Len(s)
  BY DEF IsSeq
<1>4. Len(s) # 0
  BY <1>1, EmptySeq
<1>5. IsSeq(t)
  BY <1>2, InSeq
<1>6. DOMAIN t = 1..Len(t)
  BY <1>5 DEF IsSeq
<1> QED BY <1>0, <1>2, <1>3, <1>4, <1>5, <1>6

\* Frame f is g, which may have gone on.
Same(f, g) ==
    /\ f.end = g.end /\ f.ctx = g.ctx /\ f.base = g.base /\ f.depth = g.depth
    /\ f.todo = g.todo \/ (g.todo # <<>> /\ f.todo = Tail(g.todo))

\* Another frame.
Another(G, cp, st, n) == FrameFine(G, st[n]) /\ Handed(st, cp, n) /\ Extending(st, n)

\* In place of context x of the frame on top there is y, with other values in its last scope.
Small(st, cp, x, y) ==
    \A j \in 1..Len(y.scopes) : \A v : Has(y.scopes[j], v) =>
        \/ j \in 1..Len(x.scopes) /\ Has(x.scopes[j], v)
        \/ v \in cp
        \/ Lives(st, Len(st), v) /\ j >= Last(st).depth

\* A context that is later than all that wait.
Recent(st, cp, i, y) ==
    /\ \A n \in 1..Len(st) : st[n].end.op = "extends" => i > st[n].base
    /\ \A j \in 1..Len(y.scopes) : \A v :
         Has(y.scopes[j], v) => v \in cp \/ Lives(st, Len(st), v)

\* If a template is over, it is not its scope, or nothing is in it that is not copied.
Left(cp, i) ==
    Busy \/ i # Top.ctx \/ \A v : Has(ctxs[i].scopes[Top.depth], v) => v \in cp

\* The contexts after a step.
Became(G, cp, st, cs, d, i) ==
    \/ i \in 1..Len(cs) /\ d[i] = cs[i] /\ Left(cp, i)
    \/ /\ i \in 1..Len(cs) /\ i = Last(st).ctx /\ Left(cp, i)
       /\ ContextFine(G, cp, d[i]) /\ Small(st, cp, cs[i], d[i])
    \/ ContextFine(G, cp, d[i]) /\ Recent(st, cp, i, d[i])

\* The frames and the contexts that were fine are fine, if those that are new are, and
\* whoever waited for a parent template still waits or takes all its renderer was in along.
LEMMA Steps ==
    ASSUME NEW G, Fine(G, stack, ctxs, copied),
           NEW H, NEW cp, G \subseteq H, copied \subseteq cp, Closed(H, cp),
           NEW st, NEW d, Sound(st, d), Frames(stack),
           NEW k \in 0..Len(stack), k <= Len(st), \A n \in 1..k : Same(st[n], stack[n]),
           \A n \in (k + 1)..Len(st) : Another(H, cp, st, n),
           \A n \in (k + 1)..Len(stack) : stack[n].end.op = "extends" =>
               \A i \in 1..Len(d) : i <= stack[n].base /\ i # stack[n].ctx,
           \A i \in 1..Len(d) : Became(H, cp, st, ctxs, d, i)
    PROVE  Fine(H, st, d, cp)
<1>1. /\ Len(st) \in Nat /\ Len(stack) \in Nat /\ k \in Nat
      /\ Closed(G, copied) /\ \A i \in 1..Len(ctxs) : ContextFine(G, copied, ctxs[i])
      /\ \A n \in 1..Len(stack) : /\ FrameFine(G, stack[n]) /\ Handed(stack, copied, n)
                                 /\ Extending(stack, n)
      /\ Sourced(stack, ctxs, copied) /\ Contexts(d)
  BY DEF Fine, Sound, Frames, IsSeq
<1>2. \A n \in 1..k : n \in 1..Len(stack) /\ n \in 1..Len(st)
  BY <1>1
<1>3. \A i \in 1..Len(d) : ContextFine(H, cp, d[i])
  <2>1. ASSUME NEW i \in 1..Len(ctxs)
        PROVE  ContextFine(H, cp, ctxs[i])
    BY <1>1, ContextStays
  <2> QED BY <2>1 DEF Became
<1>4. ASSUME NEW x, NEW n \in 1..k, NEW m \in n..Len(st), Lives(stack, n, x)
      PROVE  Lives(st, m, x)
  <2>1. PICK l \in 1..n : stack[l].end.op = "extends" /\ stack[l].end.id = x
    BY <1>4 DEF Lives
  <2>2. l \in 1..k /\ l \in 1..m
    BY <1>1
  <2>3. st[l].end = stack[l].end
    BY <2>2 DEF Same
  <2> QED BY <2>1, <2>2, <2>3 DEF Lives
<1>5. ASSUME NEW n \in 1..k
      PROVE  FrameFine(H, st[n])
  <2>1. FrameFine(H, stack[n])
    BY <1>1, <1>2, FrameStays
  <2>2. CASE st[n].todo = stack[n].todo
    BY <2>1, <2>2 DEF FrameFine, Runs, Same
  <2>3. CASE stack[n].todo # <<>> /\ st[n].todo = Tail(stack[n].todo)
    <3>1. PICK s, t : s = stack[n].todo /\ t = st[n].todo
      OBVIOUS
    <3>2. /\ IsSeq(t) /\ DOMAIN s = 1..Len(s) /\ DOMAIN t = 1..Len(t) /\ Len(s) \in Nat
          /\ Len(s) > 0 /\ Len(t) = Len(s) - 1
          /\ \A i \in 1..Len(t) : i + 1 \in 1..Len(s) /\ t[i] = s[i + 1]
      <4>1. IsSeq(s) /\ s # <<>> /\ t = Tail(s)
        BY <2>1, <2>3, <3>1 DEF FrameFine, Runs
      <4> QED BY <4>1, TailIs
    <3>3. IsTemplate(s) => IsTemplate(t)
      <4>1. ASSUME IsTemplate(s), NEW i \in 1..Len(t)
            PROVE  (t[i].op = "extends" => i = Len(t)) /\ IsStatement(t[i])
        <5>1. i + 1 \in 1..Len(s) /\ t[i] = s[i + 1] /\ Len(t) \in Nat /\ i \in Nat
          BY <3>2
        <5>2. (s[i + 1].op = "extends" => i + 1 = Len(s)) /\ IsStatement(s[i + 1])
          BY <3>2, <4>1, <5>1 DEF IsTemplate
        <5>3. i + 1 = Len(s) => i = Len(t)
          <6>1. PICK a, b : a = Len(s) /\ b = Len(t)
            OBVIOUS
          <6>2. a \in Nat /\ b \in Nat /\ b = a - 1 /\ i \in Nat
            BY <3>2, <5>1, <6>1
          <6> QED BY <6>1, <6>2
        <5>4. t[i].op = s[i + 1].op /\ (IsStatement(t[i]) <=> IsStatement(s[i + 1]))
          BY <5>1
        <5> QED BY <5>2, <5>3, <5>4
      <4> QED BY <3>2, <4>1 DEF IsTemplate
    <3>4. IsBody(s) => IsBody(t)
      BY <3>2 DEF IsBody
    <3>5. st[n].end = stack[n].end /\ st[n].depth = stack[n].depth
      BY DEF Same
    <3>6. PICK f, g : f = st[n] /\ g = stack[n]
      OBVIOUS
    <3> QED BY <2>1, <3>1, <3>2, <3>3, <3>4, <3>5, <3>6 DEF FrameFine, Runs
  <2> QED BY <2>2, <2>3 DEF Same
<1>6. ASSUME NEW n \in 1..k
      PROVE  Handed(st, cp, n)
  <2>1. Handed(stack, copied, n) /\ st[n].end = stack[n].end
    BY <1>1, <1>2 DEF Same
  <2>2. \A x : Lives(stack, n, x) => Lives(st, n, x)
    BY <1>1, <1>4
  <2> QED BY <2>1, <2>2 DEF Handed
<1>7. ASSUME NEW n \in 1..k
      PROVE  Extending(st, n)
  <2>1. Extending(stack, n) /\ st[n].end = stack[n].end /\ st[n].ctx = stack[n].ctx
    BY <1>1, <1>2 DEF Same
  <2>2. CASE st[n].end.op = "extends"
    <3>1. /\ n > 1 /\ stack[n - 1].todo = <<>> /\ stack[n - 1].end.op \in TemplateOps
          /\ stack[n - 1].ctx = stack[n].ctx
      BY <2>1, <2>2 DEF Extending
    <3>2. n - 1 \in 1..k
      BY <1>1, <3>1
    <3>3. Same(st[n - 1], stack[n - 1])
      BY <3>2
    <3> QED BY <2>1, <3>1, <3>3 DEF Extending, Same
  <2> QED BY <2>2 DEF Extending
<1>8. \A n \in 1..Len(st) : n \in 1..k \/ n \in (k + 1)..Len(st)
  BY <1>1
<1>9. \A n \in 1..Len(st) : FrameFine(H, st[n]) /\ Handed(st, cp, n) /\ Extending(st, n)
  BY <1>5, <1>6, <1>7, <1>8 DEF Another
<1>10. ASSUME NEW i \in 1..Len(d), i \in 1..Len(ctxs), Left(cp, i),
              NEW j \in 1..Len(ctxs[i].scopes), NEW x, Has(ctxs[i].scopes[j], x)
       PROVE  x \in cp \/ Held(st, x, i, j)
  <2>1. x \in copied \/ Held(stack, x, i, j) \/ Over(stack, i, j)
    BY <1>1, <1>10 DEF Sourced
  <2>2. Over(stack, i, j) => x \in cp
    BY <1>10 DEF Over, Left, Busy, Top
  <2>3. CASE Held(stack, x, i, j)
    <3>1. PICK n \in 1..Len(stack) :
             /\ stack[n].end.op = "extends" /\ stack[n].end.id = x
             /\ i > stack[n].base \/ (i = stack[n].ctx /\ j >= stack[n].depth)
      BY <2>3 DEF Held
    <3>2. n \in 1..k
      <4>1. CASE n \in (k + 1)..Len(stack)
        <5>1. i <= stack[n].base /\ i # stack[n].ctx
          BY <3>1, <4>1
        <5>2. stack[n].base \in Nat /\ i \in Nat
          <6>1. IsFrame(stack[n]) /\ i \in 1..Len(ctxs)
            BY <1>10, <3>1 DEF Frames
          <6> QED BY <6>1 DEF IsFrame
        <5> QED BY <3>1, <5>1, <5>2
      <4> QED BY <1>1, <4>1
    <3>3. Same(st[n], stack[n]) /\ n \in 1..Len(st)
      BY <1>2, <3>2
    <3>4. Held(st, x, i, j)
      BY <3>1, <3>3 DEF Held, Same
    <3> QED BY <3>4
  <2> QED BY <2>1, <2>2, <2>3
<1>11. Sourced(st, d, cp)
  <2>1. ASSUME NEW i \in 1..Len(d), NEW j \in 1..Len(d[i].scopes), NEW x, Has(d[i].scopes[j], x)
        PROVE  x \in cp \/ Held(st, x, i, j)
    <3>1. Became(H, cp, st, ctxs, d, i)
      OBVIOUS
    <3>2. CASE i \in 1..Len(ctxs) /\ d[i] = ctxs[i] /\ Left(cp, i)
      BY <1>10, <2>1, <3>2
    <3>3. CASE /\ i \in 1..Len(ctxs) /\ i = Last(st).ctx /\ Left(cp, i)
               /\ Small(st, cp, ctxs[i], d[i])
      <4>1. \/ j \in 1..Len(ctxs[i].scopes) /\ Has(ctxs[i].scopes[j], x)
            \/ x \in cp
            \/ Lives(st, Len(st), x) /\ j >= Last(st).depth
        BY <2>1, <3>3 DEF Small
      <4>2. CASE j \in 1..Len(ctxs[i].scopes) /\ Has(ctxs[i].scopes[j], x)
        BY <1>10, <3>3, <4>2
      <4>3. CASE Lives(st, Len(st), x) /\ j >= Last(st).depth
        BY <3>3, <4>3, HeldHere
      <4> QED BY <4>1, <4>2, <4>3
    <3>4. CASE Recent(st, cp, i, d[i])
      BY <2>1, <3>4 DEF Recent, Lives, Held
    <3> QED BY <3>1, <3>2, <3>3, <3>4 DEF Became
  <2> QED BY <2>1 DEF Sourced
<1> QED BY <1>3, <1>9, <1>11 DEF Fine
\* A statement without a frame.
LEMMA AdvanceIs ==
    ASSUME ScopesInv, Top.todo # <<>>
    PROVE  /\ IsSeq(Advance) /\ Len(Advance) = Len(stack)
           /\ Last(Advance).ctx = Top.ctx /\ Last(Advance).depth = Top.depth
           /\ Last(Advance).todo = Tail(Top.todo) /\ Last(Advance).end = Top.end
           /\ \A n \in 1..Len(stack) : Same(Advance[n], stack[n])
<1>1. /\ IsSeq(stack) /\ Len(stack) \in Nat /\ Len(stack) > 0 /\ Len(stack) \in 1..Len(stack)
      /\ Top = stack[Len(stack)] /\ IsFrame(Top)
  BY TopIs
<1>2. PICK t : t = Tail(Top.todo)
  OBVIOUS
<1>3. PICK f : f = [Top EXCEPT !.todo = t]
  OBVIOUS
<1>4. /\ f.ctx = Top.ctx /\ f.base = Top.base /\ f.depth = Top.depth
      /\ f.end = Top.end /\ f.todo = t
  BY <1>1, <1>3 DEF IsFrame
<1>5. PICK st : st = Advance
  OBVIOUS
<1>6. st = [stack EXCEPT ![Len(stack)] = f]
  BY <1>1, <1>2, <1>3, <1>5 DEF Advance
<1>7. DOMAIN stack = 1..Len(stack)
  BY <1>1 DEF IsSeq
<1>8. st = [i \in 1..Len(stack) |-> st[i]]
      /\ \A i \in 1..Len(stack) : st[i] = IF i = Len(stack) THEN f ELSE stack[i]
  BY <1>6, <1>7
<1>9. IsSeq(st) /\ Len(st) = Len(stack)
  BY <1>1, <1>8, AsLong
<1>10. Last(st) = f
  BY <1>1, <1>8, <1>9 DEF Last
<1>11. \A n \in 1..Len(stack) : Same(st[n], stack[n])
  BY <1>1, <1>2, <1>4, <1>8 DEF Same
<1> QED BY <1>2, <1>4, <1>5, <1>9, <1>10, <1>11

\* As long as no frame that waits for a parent goes.
LEMMA LivesOn ==
    ASSUME Len(stack) \in Nat, NEW st, Len(st) \in Nat, NEW k \in 0..Len(stack), k <= Len(st),
           \A n \in 1..k : Same(st[n], stack[n]),
           \A n \in (k + 1)..Len(stack) : stack[n].end.op # "extends",
           NEW x, Lives(stack, Len(stack), x), NEW m \in k..Len(st)
    PROVE  Lives(st, m, x)
<1>1. PICK n \in 1..Len(stack) : stack[n].end.op = "extends" /\ stack[n].end.id = x
  BY DEF Lives
<1>2. n \in 1..k /\ n \in 1..m
  BY <1>1
<1> QED BY <1>1, <1>2 DEF Lives, Same

\* A context as it was.
LEMMA BecameSame ==
    ASSUME NEW G, NEW cp, NEW st, NEW d, NEW i \in 1..Len(ctxs), d[i] = ctxs[i],
           Busy \/ i # Top.ctx
    PROVE  Became(G, cp, st, ctxs, d, i)
BY DEF Became, Left

\* A context that is new.
LEMMA BecameNew ==
    ASSUME ScopesInv, NEW G, NEW cp, NEW st, NEW d, NEW i \in Nat, i > Len(ctxs),
           NEW k \in 0..Len(stack), k <= Len(st), Len(st) \in Nat,
           \A n \in 1..k : Same(st[n], stack[n]),
           \A n \in (k + 1)..Len(st) : st[n].end.op # "extends",
           ContextFine(G, cp, d[i]), Knows(st, cp, d[i])
    PROVE  Became(G, cp, st, ctxs, d, i)
<1>1. Len(stack) \in Nat /\ Len(ctxs) \in Nat /\ Frames(stack)
      /\ \A n \in 1..Len(stack) : stack[n].base <= Len(ctxs)
  BY TopIs DEF ScopesInv, Sound
<1>2. ASSUME NEW n \in 1..Len(st), st[n].end.op = "extends"
      PROVE  i > st[n].base
  <2>1. n \in 1..k /\ n \in 1..Len(stack)
    BY <1>1, <1>2
  <2>2. stack[n].base \in Nat /\ stack[n].base <= Len(ctxs) /\ st[n].base = stack[n].base
    BY <1>1, <2>1 DEF Frames, IsFrame, Same
  <2> QED BY <1>1, <2>2
<1> QED BY <1>2 DEF Became, Recent, Knows

\* What PutAll does to a context that is fine.
LEMMA PutAllFine ==
    ASSUME NEW G, NEW cp, NEW x, IsContext(x), ContextFine(G, cp, x),
           NEW scope, OfValues(G, scope), NEW y, y = PutAll(x, scope)
    PROVE  /\ ContextFine(G, cp, y) /\ Len(y.scopes) = Len(x.scopes)
           /\ \A j \in 1..Len(x.scopes) : \A v : Has(y.scopes[j], v) =>
                 Has(x.scopes[j], v) \/ (j = Len(x.scopes) /\ Has(scope, v))
<1>1. IsSeq(x.scopes) /\ Len(x.scopes) \in Nat
  BY DEF IsContext, IsSeq
<1>2. PICK e : e = Merge(scope, x.scopes[Len(x.scopes)])
  OBVIOUS
<1>3. PICK s : s = [x.scopes EXCEPT ![Len(x.scopes)] = e]
  OBVIOUS
<1>4. IsSeq(s) /\ Len(s) = Len(x.scopes)
      /\ \A i \in 1..Len(x.scopes) : s[i] = IF i = Len(x.scopes) THEN e ELSE x.scopes[i]
  <2>1. DOMAIN x.scopes = 1..Len(x.scopes)
    BY <1>1 DEF IsSeq
  <2>2. s = [i \in 1..Len(x.scopes) |-> s[i]]
    BY <1>3, <2>1
  <2>3. \A i \in 1..Len(x.scopes) : s[i] = IF i = Len(x.scopes) THEN e ELSE x.scopes[i]
    BY <1>3, <2>1
  <2> QED BY <1>1, <2>2, <2>3, AsLong
<1>5. y.bound = x.bound /\ y.scopes = s /\ y.ext = x.ext
  BY <1>2, <1>3 DEF PutAll, IsContext
<1>6. \A v \in DOMAIN e : /\ v \in DOMAIN scope \/ v \in DOMAIN x.scopes[Len(x.scopes)]
                          /\ e[v] = IF v \in DOMAIN scope THEN scope[v]
                                    ELSE x.scopes[Len(x.scopes)][v]
  BY <1>2 DEF Merge
<1>7. \A j \in 1..Len(x.scopes) : OfValues(G, x.scopes[j])
  BY DEF ContextFine
<1>8. \A j \in 1..Len(x.scopes) : OfValues(G, s[j])
  BY <1>4, <1>6, <1>7 DEF OfValues
<1>9. ASSUME NEW j \in 1..Len(x.scopes), NEW v, Has(s[j], v)
      PROVE  Has(x.scopes[j], v) \/ (j = Len(x.scopes) /\ Has(scope, v))
  BY <1>4, <1>6, <1>9 DEF Has
<1>10. ContextFine(G, cp, y)
  BY <1>4, <1>5, <1>8 DEF ContextFine
<1> QED BY <1>4, <1>5, <1>9, <1>10

\* Values put in the scope of the frame on top.
LEMMA BecamePut ==
    ASSUME ScopesInv, NEW G, Fine(G, stack, ctxs, copied),
           NEW H, NEW cp, G \subseteq H, copied \subseteq cp,
           NEW st, NEW d, Sound(st, d), Len(d) <= Len(ctxs),
           NEW scope, OfValues(H, scope),
           \A x : Has(scope, x) => x \in cp \/ Lives(st, Len(st), x),
           \A i \in 1..Len(d) :
               d[i] = IF i = Last(st).ctx THEN PutAll(ctxs[i], scope) ELSE ctxs[i],
           NEW i \in 1..Len(d), Left(cp, i)
    PROVE  Became(H, cp, st, ctxs, d, i)
<1>1. Len(ctxs) \in Nat /\ Contexts(ctxs) /\ Len(d) \in Nat /\ i \in 1..Len(ctxs)
  BY TopIs DEF Sound, Contexts, IsSeq
<1>2. CASE i # Last(st).ctx
  BY <1>1, <1>2 DEF Became
<1>3. CASE i = Last(st).ctx
  <2>1. PICK x, y : x = ctxs[i] /\ y = d[i]
    OBVIOUS
  <2>2. IsContext(x) /\ y = PutAll(x, scope)
    BY <1>1, <1>3, <2>1 DEF Contexts
  <2>3. ContextFine(H, cp, x)
    BY <1>1, <2>1, ContextStays DEF Fine
  <2>4. /\ ContextFine(H, cp, y) /\ Len(y.scopes) = Len(x.scopes)
        /\ \A j \in 1..Len(x.scopes) : \A v : Has(y.scopes[j], v) =>
              Has(x.scopes[j], v) \/ (j = Len(x.scopes) /\ Has(scope, v))
    BY <2>2, <2>3, PutAllFine
  <2>5. Len(y.scopes) = Last(st).depth /\ Last(st).depth \in Nat
    <3>1. Len(st) \in 1..Len(st) /\ Frames(st) /\ Deep(st, d)
      BY DEF Sound, Frames, IsSeq
    <3> QED BY <1>3, <2>1, <3>1 DEF Deep, OnTop, Last, Frames, IsFrame
  <2>6. Small(st, cp, x, y)
    <3>1. ASSUME NEW j \in 1..Len(y.scopes), NEW v, Has(y.scopes[j], v)
          PROVE  \/ j \in 1..Len(x.scopes) /\ Has(x.scopes[j], v)
                 \/ v \in cp
                 \/ Lives(st, Len(st), v) /\ j >= Last(st).depth
      BY <2>4, <2>5, <3>1
    <3> QED BY <3>1 DEF Small
  <2> QED BY <1>1, <1>3, <2>1, <2>4, <2>6 DEF Became
<1> QED BY <1>2, <1>3
-----------------------------------------------------------------------------
(* The forms of steps. *)

\* The frame on top goes on.
LEMMA AdvanceFine ==
    ASSUME ScopesInv, NEW G, Fine(G, stack, ctxs, copied), Top.todo # <<>>,
           NEW H, NEW cp, G \subseteq H, copied \subseteq cp, Closed(H, cp),
           NEW d, Sound(Advance, d),
           \A i \in 1..Len(d) : Became(H, cp, Advance, ctxs, d, i)
    PROVE  Fine(H, Advance, d, cp)
<1>1. PICK st : st = Advance
  OBVIOUS
<1>2. /\ Len(st) = Len(stack) /\ Len(stack) \in Nat /\ Frames(stack)
      /\ \A n \in 1..Len(stack) : Same(st[n], stack[n])
  BY <1>1, TopIs, AdvanceIs DEF ScopesInv, Sound
<1>3. PICK k : k = Len(stack)
  OBVIOUS
<1>4. k \in 0..Len(stack) /\ k <= Len(st) /\ (k + 1)..Len(st) = {} /\ (k + 1)..Len(stack) = {}
  BY <1>2, <1>3
<1>5. Sound(st, d) /\ \A i \in 1..Len(d) : Became(H, cp, st, ctxs, d, i)
  BY <1>1
<1>6. Fine(H, st, d, cp)
  BY <1>2, <1>3, <1>4, <1>5, Steps
<1> QED BY <1>1, <1>6

\* It pushes a frame.
LEMMA PushedIs ==
    ASSUME ScopesInv, Top.todo # <<>>, NEW f, NEW st, st = Append(Advance, f)
    PROVE  /\ IsSeq(st) /\ Len(st) = Len(stack) + 1 /\ st[Len(st)] = f /\ Last(st) = f
           /\ \A n \in 1..Len(stack) : Same(st[n], stack[n])
           /\ st[Len(stack)].todo = Tail(Top.todo) /\ st[Len(stack)].end = Top.end
           /\ st[Len(stack)].ctx = Top.ctx
<1>1. PICK a : a = Advance
  OBVIOUS
<1>2. /\ IsSeq(a) /\ Len(a) = Len(stack) /\ Len(stack) \in Nat /\ Len(stack) \in 1..Len(stack)
      /\ \A n \in 1..Len(stack) : Same(a[n], stack[n])
      /\ Last(a).todo = Tail(Top.todo) /\ Last(a).end = Top.end /\ Last(a).ctx = Top.ctx
  BY <1>1, TopIs, AdvanceIs
<1>3. /\ IsSeq(st) /\ Len(st) = Len(a) + 1 /\ st[Len(a) + 1] = f
      /\ \A n \in 1..Len(a) : st[n] = a[n]
  BY <1>1, <1>2, Appends
<1>4. Last(st) = f
  BY <1>3 DEF Last
<1> QED BY <1>2, <1>3, <1>4 DEF Last

\* Then it pushes a frame that is fine.
LEMMA PushFine ==
    ASSUME ScopesInv, NEW G, Fine(G, stack, ctxs, copied), Top.todo # <<>>,
           NEW H, NEW cp, G \subseteq H, copied \subseteq cp, Closed(H, cp),
           NEW f, NEW st, st = Append(Advance, f), NEW d, Sound(st, d), FrameFine(H, f),
           f.end.op = "extends" =>
               Tail(Top.todo) = <<>> /\ Top.end.op \in TemplateOps /\ f.ctx = Top.ctx,
           \A x : HandsOn(f.end, x) => x \in cp \/ Lives(stack, Len(stack), x),
           \A i \in 1..Len(d) : Became(H, cp, st, ctxs, d, i)
    PROVE  Fine(H, st, d, cp)
<1>1. Len(stack) \in Nat /\ Len(stack) > 0 /\ Frames(stack) /\ Len(stack) \in 1..Len(stack)
  BY TopIs DEF ScopesInv, Sound
<1>2. /\ Len(st) = Len(stack) + 1 /\ st[Len(st)] = f
      /\ \A n \in 1..Len(stack) : Same(st[n], stack[n])
      /\ st[Len(stack)].todo = Tail(Top.todo) /\ st[Len(stack)].end = Top.end
      /\ st[Len(stack)].ctx = Top.ctx
  BY PushedIs
<1>3. PICK k, m : k = Len(stack) /\ m = Len(st)
  OBVIOUS
<1>4. /\ k \in 0..Len(stack) /\ k <= Len(st) /\ (k + 1)..Len(st) = {m}
      /\ (k + 1)..Len(stack) = {} /\ m \in k..Len(st) /\ m - 1 = k /\ m > 1 /\ Len(st) \in Nat
  BY <1>1, <1>2, <1>3
<1>5. Extending(st, m)
  BY <1>2, <1>3, <1>4 DEF Extending
<1>6. Handed(st, cp, m)
  <2>1. ASSUME NEW x, Lives(stack, Len(stack), x)
        PROVE  Lives(st, m, x)
    BY <1>1, <1>2, <1>3, <1>4, <2>1, LivesOn
  <2> QED BY <1>2, <1>3, <2>1 DEF Handed
<1>7. \A n \in (k + 1)..Len(st) : Another(H, cp, st, n)
  BY <1>2, <1>3, <1>4, <1>5, <1>6 DEF Another
<1> QED BY <1>1, <1>2, <1>3, <1>4, <1>7, Steps

\* The contexts with values put in one of them.
Puts(cs, d, c, scope) ==
    /\ Contexts(d) /\ Len(d) = Len(cs)
    /\ \A i \in 1..Len(cs) : d[i] = IF i = c THEN PutAll(cs[i], scope) ELSE cs[i]

\* An update of a context is one.
LEMMA PutIs ==
    ASSUME ScopesInv, NEW c \in 1..Len(ctxs), NEW scope
    PROVE  Puts(ctxs, [ctxs EXCEPT ![c] = PutAll(@, scope)], c, scope)
<1>1. Contexts(ctxs) /\ Len(ctxs) \in Nat
  BY TopIs
<1>2. PICK y : y = PutAll(ctxs[c], scope)
  OBVIOUS
<1>3. IsContext(y)
  BY <1>1, <1>2, PutAllIs DEF Contexts
<1>4. PICK d : d = [ctxs EXCEPT ![c] = y]
  OBVIOUS
<1>5. Replaces(ctxs, d, c, y)
  BY <1>1, <1>3, <1>4, ReplacesIt
<1>6. Puts(ctxs, d, c, scope)
  BY <1>2, <1>5 DEF Replaces, Puts
<1> QED BY <1>2, <1>4, <1>6

\* The stack is cut, as it is when a handler returns or an error is caught.
LEMMA CutFine ==
    ASSUME ScopesInv, NEW G, Fine(G, stack, ctxs, copied),
           NEW H, NEW cp, G \subseteq H, copied \subseteq cp, Closed(H, cp),
           NEW k \in 1..Len(stack), NEW st, st = SubSeq(stack, 1, k), NEW d, Sound(st, d),
           \A n \in (k + 1)..Len(stack) : stack[n].end.op = "extends" =>
               \A i \in 1..Len(d) : i <= stack[n].base /\ i # stack[n].ctx,
           \A i \in 1..Len(d) : Became(H, cp, st, ctxs, d, i)
    PROVE  Fine(H, st, d, cp)
<1>1. Len(stack) \in Nat /\ IsSeq(stack) /\ Frames(stack)
  BY TopIs DEF ScopesInv, Sound
<1>2. k \in 0..Len(stack) /\ k \in Nat
  BY <1>1
<1>3. Len(st) = k /\ \A n \in 1..k : st[n] = stack[n]
  BY <1>1, <1>2, Cuts
<1>4. (k + 1)..Len(st) = {} /\ k <= Len(st)
  BY <1>2, <1>3
<1>5. \A n \in 1..k : Same(st[n], stack[n])
  BY <1>3 DEF Same
<1> QED BY <1>1, <1>2, <1>4, <1>5, Steps

\* What is left when a handler returns.
LEMMA ReturnedIs ==
    ASSUME ScopesInv, Top.end.op # "main",
           NEW cs, Contexts(cs), Len(cs) = Len(ctxs), NEW outs, Return(cs, outs)
    PROVE  /\ stack' = SubSeq(stack, 1, Len(stack) - 1) /\ Len(stack') = Len(stack) - 1
           /\ \A n \in 1..Len(stack') : stack'[n] = stack[n]
           /\ Last(stack') = Caller /\ Len(stack) - 1 \in 1..Len(stack)
           /\ Len(ctxs') = Top.base /\ \A i \in 1..Top.base : ctxs'[i] = cs[i]
           /\ \A i \in 1..Top.base : i \in 1..Len(ctxs)
<1>1. /\ Len(stack) \in Nat /\ IsSeq(stack) /\ Len(ctxs) \in Nat /\ IsSeq(cs)
      /\ Top = stack[Len(stack)]
  BY TopIs DEF Contexts
<1>2. Caller = stack[Len(stack) - 1] /\ Len(stack) - 1 \in 1..Len(stack) /\ Top.base \in 0..Len(ctxs)
  BY CallerIs
<1>3. PICK k, b : k = Len(stack) - 1 /\ b = Top.base
  OBVIOUS
<1>4. k \in 0..Len(stack) /\ b \in 0..Len(cs)
  BY <1>1, <1>2, <1>3
<1>5. PICK st, d : st = SubSeq(stack, 1, k) /\ d = SubSeq(cs, 1, b)
  OBVIOUS
<1>6. Len(st) = k /\ \A n \in 1..k : st[n] = stack[n]
  BY <1>1, <1>4, <1>5, Cuts
<1>7. Len(d) = b /\ \A n \in 1..b : d[n] = cs[n]
  BY <1>1, <1>4, <1>5, Cuts
<1>8. stack' = st /\ ctxs' = d
  BY <1>1, <1>3, <1>5 DEF Return, ReturnFrom
<1>9. Last(st) = Caller
  BY <1>2, <1>3, <1>6 DEF Last
<1>10. \A i \in 1..Top.base : i \in 1..Len(ctxs)
  BY <1>1, <1>2
<1> QED BY <1>2, <1>3, <1>5, <1>6, <1>7, <1>8, <1>9, <1>10

\* A handler returns.
LEMMA ReturnFine ==
    ASSUME ScopesInv, ScopesInv', NEW G, Fine(G, stack, ctxs, copied),
           NEW H, NEW cp, G \subseteq H, copied \subseteq cp, Closed(H, cp),
           Top.end.op \notin {"main", "extends"},
           NEW cs, Contexts(cs), Len(cs) = Len(ctxs), NEW outs, Return(cs, outs),
           \A i \in 1..Top.base : Became(H, cp, stack', ctxs, ctxs', i)
    PROVE  Fine(H, stack', ctxs', cp)
<1>1. PICK k : k = Len(stack) - 1
  OBVIOUS
<1>2. /\ stack' = SubSeq(stack, 1, k) /\ k \in 1..Len(stack) /\ Len(ctxs') = Top.base
  BY <1>1, ReturnedIs
<1>3. Top = stack[Len(stack)] /\ Len(stack) \in Nat
  BY TopIs
<1>4. \A n \in (k + 1)..Len(stack) : stack[n].end.op # "extends"
  BY <1>1, <1>3
<1>5. PICK st, d : st = stack' /\ d = ctxs'
  OBVIOUS
<1>6. Sound(st, d) /\ \A i \in 1..Len(d) : Became(H, cp, st, ctxs, d, i)
  BY <1>2, <1>5 DEF ScopesInv
<1>7. Fine(H, st, d, cp)
  BY <1>2, <1>4, <1>5, <1>6, CutFine
<1> QED BY <1>5, <1>7

\* A handler that made its context, or is not a template's, returns and leaves nothing.
LEMMA ReturnSame ==
    ASSUME ScopesInv, ScopesInv', NEW G, Fine(G, stack, ctxs, copied),
           Top.end.op \notin {"main", "extends"}, Busy, NEW outs, Return(ctxs, outs)
    PROVE  Fine(G, stack', ctxs', copied)
<1>1. Contexts(ctxs)
  BY TopIs
<1>2. /\ \A i \in 1..Top.base : ctxs'[i] = ctxs[i] /\ i \in 1..Len(ctxs)
  BY <1>1, ReturnedIs
<1>3. \A i \in 1..Top.base : Became(G, copied, stack', ctxs, ctxs', i)
  BY <1>2 DEF Became, Left
<1> QED BY <1>1, <1>3, ReturnFine DEF Fine

\* One that puts values in its caller's scope.
LEMMA ReturnPut ==
    ASSUME ScopesInv, ScopesInv', NEW G, Fine(G, stack, ctxs, copied),
           NEW H, NEW cp, G \subseteq H, copied \subseteq cp, Closed(H, cp),
           Top.end.op \notin {"main", "extends"}, Left(cp, Top.ctx),
           NEW scope, OfValues(H, scope),
           \A x : Has(scope, x) => x \in cp \/ Lives(stack, Len(stack), x),
           NEW outs, Return([ctxs EXCEPT ![Caller.ctx] = PutAll(@, scope)], outs)
    PROVE  Fine(H, stack', ctxs', cp)
<1>1. PICK cs : cs = [ctxs EXCEPT ![Caller.ctx] = PutAll(@, scope)]
  OBVIOUS
<1>2. Caller.ctx \in 1..Len(ctxs) /\ Top.base \in 0..Len(ctxs)
  BY CallerIs
<1>3. /\ Contexts(cs) /\ Len(cs) = Len(ctxs) /\ Return(cs, outs)
      /\ \A i \in 1..Len(ctxs) : cs[i] = IF i = Caller.ctx THEN PutAll(ctxs[i], scope) ELSE ctxs[i]
  <2>1. Puts(ctxs, cs, Caller.ctx, scope)
    BY <1>1, <1>2, PutIs
  <2>2. Return(cs, outs)
    BY <1>1
  <2> QED BY <2>1, <2>2 DEF Puts
<1>4. /\ Len(stack') = Len(stack) - 1 /\ \A n \in 1..Len(stack') : stack'[n] = stack[n]
      /\ Last(stack') = Caller /\ Len(stack) - 1 \in 1..Len(stack)
      /\ Len(ctxs') = Top.base /\ \A i \in 1..Top.base : ctxs'[i] = cs[i]
      /\ \A i \in 1..Top.base : i \in 1..Len(ctxs)
  BY <1>3, ReturnedIs
<1>5. Len(stack) \in Nat /\ Top = stack[Len(stack)] /\ IsFrame(Top) /\ Len(ctxs) \in Nat
  BY TopIs
<1>6. ASSUME NEW x, Lives(stack, Len(stack), x)
      PROVE  Lives(stack', Len(stack'), x)
  <2>1. PICK n \in 1..Len(stack) : stack[n].end.op = "extends" /\ stack[n].end.id = x
    BY <1>6 DEF Lives
  <2>2. n \in 1..Len(stack')
    BY <1>4, <1>5, <2>1
  <2> QED BY <1>4, <2>1, <2>2 DEF Lives
<1>7. PICK st, d : st = stack' /\ d = ctxs'
  OBVIOUS
<1>8. /\ Sound(st, d) /\ Len(d) <= Len(ctxs) /\ Len(d) = Top.base
      /\ \A x : Has(scope, x) => x \in cp \/ Lives(st, Len(st), x)
      /\ \A i \in 1..Len(d) :
            d[i] = IF i = Last(st).ctx THEN PutAll(ctxs[i], scope) ELSE ctxs[i]
  BY <1>2, <1>3, <1>4, <1>5, <1>6, <1>7 DEF ScopesInv
<1>9. ASSUME NEW i \in 1..Len(d)
      PROVE  Became(H, cp, st, ctxs, d, i)
  <2>1. Left(cp, i)
    BY DEF Left
  <2> QED BY <1>8, <2>1, BecamePut
<1>10. \A i \in 1..Top.base : Became(H, cp, stack', ctxs, ctxs', i)
  BY <1>7, <1>8, <1>9
<1> QED BY <1>3, <1>10, ReturnFine

\* A context's clone.
LEMMA CloneFine ==
    ASSUME NEW G, NEW cp, Closed(G, cp), NEW x, ContextFine(G, cp, x), NEW all,
           NEW y, y = Clone(x, all)
    PROVE  /\ ContextFine(G, cp, y) /\ (Len(x.scopes) > 0 => Len(y.scopes) > 0)
           /\ \A j \in 1..Len(y.scopes) : \A v :
                 Has(y.scopes[j], v) => j \in 1..Len(x.scopes) /\ Has(x.scopes[j], v)
<1>1. CASE all
  BY <1>1 DEF Clone
<1>2. CASE ~all
  <2>1. PICK m : m = MapOf(Empty)
    OBVIOUS
  <2>2. PICK s : s = Single("self", m)
    OBVIOUS
  <2>3. PICK ss, b : ss = <<s>> /\ b = <<>>
    OBVIOUS
  <2>4. Len(ss) = 1 /\ ss[1] = s /\ IsSeq(b) /\ Len(b) = 0
    BY <2>3 DEF IsSeq
  <2>5. y = [bound |-> b, scopes |-> ss, ext |-> Empty]
    BY <1>2, <2>1, <2>2, <2>3 DEF Clone, NewContext
  <2>6. y.bound = b /\ y.scopes = ss /\ y.ext = Empty
    BY <2>5
  <2>7. m \in G /\ Ids(m) = {}
    BY <2>1 DEF Closed, MapOf, Ids
  <2>8. OfValues(G, s) /\ \A v : ~Has(s, v)
    BY <2>2, <2>7, SingleIs
  <2>9. OfValues(G, Empty) /\ \A v : ~Has(Empty, v)
    BY EmptyIs
  <2>10. \A j \in 1..Len(y.scopes) : y.scopes[j] = s
    <3>1. \A j \in 1..1 : j = 1
      OBVIOUS
    <3> QED BY <2>4, <2>6, <3>1
  <2>11. 1..0 = {}
    OBVIOUS
  <2>12. ContextFine(G, cp, y)
    BY <2>4, <2>6, <2>8, <2>9, <2>10, <2>11 DEF ContextFine
  <2>13. Len(y.scopes) > 0
    BY <2>4, <2>6
  <2> QED BY <2>8, <2>10, <2>12, <2>13
<1> QED BY <1>1, <1>2

\* With one scope more.
LEMMA EnterScopeFine ==
    ASSUME NEW G, NEW cp, NEW x, IsContext(x), ContextFine(G, cp, x),
           NEW scope, OfValues(G, scope), NEW y, y = EnterScope(x, scope)
    PROVE  /\ ContextFine(G, cp, y) /\ Len(y.scopes) = Len(x.scopes) + 1
           /\ \A j \in 1..Len(y.scopes) : \A v : Has(y.scopes[j], v) =>
                 \/ j \in 1..Len(x.scopes) /\ Has(x.scopes[j], v)
                 \/ j = Len(y.scopes) /\ Has(scope, v)
<1>1. PICK s, t : s = x.scopes /\ t = Append(s, scope)
  OBVIOUS
<1>2. IsSeq(s) /\ Len(s) \in Nat
  BY <1>1 DEF IsContext, IsSeq
<1>3. Len(t) = Len(s) + 1 /\ t[Len(s) + 1] = scope /\ \A j \in 1..Len(s) : t[j] = s[j]
  BY <1>1, <1>2, Appends
<1>4. y.bound = x.bound /\ y.scopes = t /\ y.ext = x.ext
  BY <1>1 DEF EnterScope, IsContext
<1>5. \A j \in 1..Len(t) : j \in 1..Len(s) \/ j = Len(s) + 1
  BY <1>2, <1>3
<1>6. \A j \in 1..Len(t) : OfValues(G, t[j])
  BY <1>1, <1>3, <1>5 DEF ContextFine
<1>7. ContextFine(G, cp, y)
  BY <1>4, <1>6 DEF ContextFine
<1> QED BY <1>1, <1>3, <1>4, <1>5, <1>7

\* With one less.
LEMMA ExitScopeFine ==
    ASSUME NEW G, NEW cp, NEW x, IsContext(x), Len(x.scopes) > 0, ContextFine(G, cp, x),
           NEW y, y = ExitScope(x)
    PROVE  /\ ContextFine(G, cp, y)
           /\ \A j \in 1..Len(y.scopes) : \A v :
                 Has(y.scopes[j], v) => j \in 1..Len(x.scopes) /\ Has(x.scopes[j], v)
<1>1. PICK s, n : s = x.scopes /\ n = Len(x.scopes) - 1
  OBVIOUS
<1>2. IsSeq(s) /\ Len(s) \in Nat /\ n \in 0..Len(s) /\ n \in Nat
  BY <1>1 DEF IsContext, IsSeq
<1>3. PICK t : t = SubSeq(s, 1, n)
  OBVIOUS
<1>4. Len(t) = n /\ \A j \in 1..n : t[j] = s[j] /\ j \in 1..Len(s)
  BY <1>2, <1>3, Cuts
<1>5. y.bound = x.bound /\ y.scopes = t /\ y.ext = x.ext
  BY <1>1, <1>3 DEF ExitScope, IsContext, Front
<1>6. ContextFine(G, cp, y)
  BY <1>1, <1>4, <1>5 DEF ContextFine
<1> QED BY <1>1, <1>4, <1>5, <1>6

\* With another last scope, whose values are fine.
LEMMA LastFine ==
    ASSUME NEW G, NEW cp, NEW x, IsContext(x), ContextFine(G, cp, x), NEW c \in 1..Len(x.scopes),
           NEW e, OfValues(G, e), NEW y, y = [x EXCEPT !.scopes[c] = e]
    PROVE  /\ ContextFine(G, cp, y) /\ Len(y.scopes) = Len(x.scopes)
           /\ \A j \in 1..Len(x.scopes) : y.scopes[j] = IF j = c THEN e ELSE x.scopes[j]
<1>1. IsSeq(x.scopes) /\ Len(x.scopes) \in Nat
  BY DEF IsContext, IsSeq
<1>2. PICK s : s = [x.scopes EXCEPT ![c] = e]
  OBVIOUS
<1>3. IsSeq(s) /\ Len(s) = Len(x.scopes)
      /\ \A i \in 1..Len(x.scopes) : s[i] = IF i = c THEN e ELSE x.scopes[i]
  <2>1. DOMAIN x.scopes = 1..Len(x.scopes)
    BY <1>1 DEF IsSeq
  <2>2. s = [i \in 1..Len(x.scopes) |-> s[i]]
    BY <1>2, <2>1
  <2>3. \A i \in 1..Len(x.scopes) : s[i] = IF i = c THEN e ELSE x.scopes[i]
    BY <1>2, <2>1
  <2> QED BY <1>1, <2>2, <2>3, AsLong
<1>4. y.bound = x.bound /\ y.scopes = s /\ y.ext = x.ext
  BY <1>2 DEF IsContext
<1>5. ContextFine(G, cp, y)
  BY <1>3, <1>4 DEF ContextFine
<1> QED BY <1>3, <1>4, <1>5

\* With contexts more.
LEMMA GrownFine ==
    ASSUME ScopesInv, Busy, NEW H, NEW cp, NEW st, Len(st) \in Nat, NEW d, Grows(ctxs, d),
           NEW k \in 0..Len(stack), k <= Len(st),
           \A n \in 1..k : Same(st[n], stack[n]),
           \A n \in (k + 1)..Len(st) : st[n].end.op # "extends",
           \A i \in (Len(ctxs) + 1)..Len(d) : ContextFine(H, cp, d[i]) /\ Knows(st, cp, d[i])
    PROVE  \A i \in 1..Len(d) : Became(H, cp, st, ctxs, d, i)
<1>1. Len(ctxs) \in Nat /\ Len(d) \in Nat /\ \A i \in 1..Len(ctxs) : d[i] = ctxs[i]
  BY TopIs DEF Grows, Contexts, IsSeq
<1>2. ASSUME NEW i \in 1..Len(d)
      PROVE  Became(H, cp, st, ctxs, d, i)
  <2>1. CASE i \in 1..Len(ctxs)
    BY <1>1, <2>1, BecameSame
  <2>2. CASE i \notin 1..Len(ctxs)
    <3>1. i \in Nat /\ i > Len(ctxs) /\ i \in (Len(ctxs) + 1)..Len(d)
      BY <1>1, <2>2
    <3> QED BY <3>1, BecameNew
  <2> QED BY <2>1, <2>2
<1> QED BY <1>2

\* One more.
LEMMA GrownOne ==
    ASSUME ScopesInv, Busy, NEW H, NEW cp, NEW st, Len(st) \in Nat,
           NEW x, IsContext(x), NEW d, d = Append(ctxs, x),
           NEW k \in 0..Len(stack), k <= Len(st),
           \A n \in 1..k : Same(st[n], stack[n]),
           \A n \in (k + 1)..Len(st) : st[n].end.op # "extends",
           ContextFine(H, cp, x), Knows(st, cp, x)
    PROVE  \A i \in 1..Len(d) : Became(H, cp, st, ctxs, d, i)
<1>1. Contexts(ctxs) /\ Len(ctxs) \in Nat
  BY TopIs
<1>2. Grows(ctxs, d) /\ Len(d) = Len(ctxs) + 1 /\ d[Len(ctxs) + 1] = x
  BY <1>1, OneMore
<1>3. \A i \in (Len(ctxs) + 1)..Len(d) : d[i] = x
  BY <1>1, <1>2
<1>4. \A i \in (Len(ctxs) + 1)..Len(d) : ContextFine(H, cp, d[i]) /\ Knows(st, cp, d[i])
  BY <1>3
<1> QED BY <1>2, <1>4, GrownFine

\* The stack when the callee goes on with a body.
LEMMA BecameIs ==
    ASSUME ScopesInv, Top.end.op = "callee", NEW cs, Contexts(cs), NEW ctx \in 1..Len(cs),
           NEW todo, NEW end, "op" \in DOMAIN end, Become(cs, todo, ctx, end)
    PROVE  /\ Len(stack') = Len(stack) /\ ctxs' = cs /\ Len(stack) \in Nat /\ Len(stack) > 1
           /\ \A n \in 1..(Len(stack) - 1) : stack'[n] = stack[n]
           /\ Last(stack') = stack'[Len(stack)]
           /\ Last(stack').todo = todo /\ Last(stack').ctx = ctx /\ Last(stack').end = end
           /\ Last(stack').depth = Len(cs[ctx].scopes)
<1>1. PICK f : f = Becoming(cs, todo, ctx, end)
  OBVIOUS
<1>2. f.todo = todo /\ f.ctx = ctx /\ f.end = end /\ f.depth = Len(cs[ctx].scopes)
  <2>1. IsFrame(Top)
    BY TopIs
  <2> QED BY <1>1, <2>1 DEF Becoming, IsFrame
<1>3. /\ Len(stack) \in Nat /\ IsSeq(stack) /\ Len(stack) > 1
  BY TopIs, CallerIs
<1>4. PICK k : k = Len(stack) - 1
  OBVIOUS
<1>5. k \in 0..Len(stack) /\ k + 1 = Len(stack)
  BY <1>3, <1>4
<1>6. PICK s : s = SubSeq(stack, 1, k)
  OBVIOUS
<1>7. IsSeq(s) /\ Len(s) = k /\ \A n \in 1..k : s[n] = stack[n]
  BY <1>3, <1>5, <1>6, Cuts
<1>8. stack' = Append(s, f) /\ ctxs' = cs
  BY <1>1, <1>4, <1>6 DEF Become, Becoming, Front
<1>9. PICK st : st = Append(s, f)
  OBVIOUS
<1>10. Len(st) = k + 1 /\ st[k + 1] = f /\ \A n \in 1..k : st[n] = s[n]
  BY <1>7, <1>9, Appends
<1>11. Last(st) = f
  BY <1>10 DEF Last
<1> QED BY <1>2, <1>3, <1>4, <1>5, <1>7, <1>8, <1>9, <1>10, <1>11

\* The callee goes on with a body.
LEMMA BecomeFine ==
    ASSUME ScopesInv, ScopesInv', NEW G, Fine(G, stack, ctxs, copied),
           NEW H, NEW cp, G \subseteq H, copied \subseteq cp, Closed(H, cp), Top.end.op = "callee",
           NEW cs, Contexts(cs), NEW ctx \in 1..Len(cs), Len(cs[ctx].scopes) > 0,
           NEW todo, NEW end, "op" \in DOMAIN end, Become(cs, todo, ctx, end),
           end.op # "extends", Runs(H, todo, end),
           \A x : HandsOn(end, x) => x \in cp \/ Lives(stack, Len(stack), x),
           \A i \in 1..Len(cs) : Became(H, cp, stack', ctxs, cs, i)
    PROVE  Fine(H, stack', ctxs', cp)
<1>1. /\ Len(stack') = Len(stack) /\ ctxs' = cs /\ Len(stack) \in Nat /\ Len(stack) > 1
      /\ \A n \in 1..(Len(stack) - 1) : stack'[n] = stack[n]
      /\ Last(stack') = stack'[Len(stack)]
      /\ Last(stack').todo = todo /\ Last(stack').end = end
      /\ Last(stack').depth = Len(cs[ctx].scopes)
  BY BecameIs
<1>2. PICK k, m : k = Len(stack) - 1 /\ m = Len(stack)
  OBVIOUS
<1>3. /\ k \in 0..Len(stack) /\ (k + 1)..Len(stack) = {m} /\ m \in k..Len(stack) /\ k <= m
      /\ m \in Nat
  BY <1>1, <1>2
<1>4. PICK st, d : st = stack' /\ d = ctxs'
  OBVIOUS
<1>5. /\ Len(st) = m /\ d = cs /\ Sound(st, d) /\ Frames(stack) /\ FrameFine(H, st[m])
      /\ \A n \in 1..k : Same(st[n], stack[n])
      /\ st[m].end = end /\ Top = stack[m]
  BY <1>1, <1>2, <1>4, TopIs DEF ScopesInv, Sound, Same, FrameFine
<1>6. \A n \in (k + 1)..Len(stack) : stack[n].end.op # "extends"
  BY <1>3, <1>5
<1>7. Handed(st, cp, m)
  <2>1. ASSUME NEW x, Lives(stack, Len(stack), x)
        PROVE  Lives(st, m, x)
    BY <1>1, <1>2, <1>3, <1>5, <1>6, <2>1, LivesOn
  <2> QED BY <1>5, <2>1 DEF Handed
<1>8. Extending(st, m)
  BY <1>5 DEF Extending
<1>9. \A n \in (k + 1)..Len(st) : Another(H, cp, st, n)
  BY <1>2, <1>3, <1>5, <1>7, <1>8 DEF Another
<1>10. \A i \in 1..Len(d) : Became(H, cp, st, ctxs, d, i)
  BY <1>4, <1>5
<1>11. Fine(H, st, d, cp)
  BY <1>2, <1>3, <1>5, <1>6, <1>9, <1>10, Steps
<1> QED BY <1>4, <1>11

\* With no change of the contexts.
LEMMA BecomeSame ==
    ASSUME ScopesInv, ScopesInv', NEW G, Fine(G, stack, ctxs, copied), Top.end.op = "callee",
           NEW todo, IsSeq(todo), IsBody(todo), Become(ctxs, todo, Top.ctx, [op |-> "plain"])
    PROVE  Fine(G, stack', ctxs', copied)
<1>1. PICK end : end = [op |-> "plain"]
  OBVIOUS
<1>2. "op" \in DOMAIN end /\ end.op = "plain" /\ \A x : ~HandsOn(end, x)
  BY <1>1 DEF HandsOn
<1>3. Become(ctxs, todo, Top.ctx, end)
  BY <1>1
<1>4. Contexts(ctxs) /\ Top.ctx \in 1..Len(ctxs) /\ Len(ctxs[Top.ctx].scopes) > 0 /\ Busy
  BY TopIs, TopFine DEF Busy, TemplateOps
<1>5. PICK cs, ctx : cs = ctxs /\ ctx = Top.ctx
  OBVIOUS
<1>6. Contexts(cs) /\ ctx \in 1..Len(cs) /\ Len(cs[ctx].scopes) > 0 /\ Become(cs, todo, ctx, end)
  BY <1>3, <1>4, <1>5
<1>7. Runs(G, todo, end)
  BY <1>2 DEF Runs, TemplateOps
<1>8. \A i \in 1..Len(cs) : Became(G, copied, stack', ctxs, cs, i)
  BY <1>4, <1>5, BecameSame
<1>9. Closed(G, copied)
  BY DEF Fine
<1> QED BY <1>2, <1>6, <1>7, <1>8, <1>9, BecomeFine

\* A statement that pushes no frame.
LEMMA SkipFine ==
    ASSUME ScopesInv, ScopesInv', NEW G, Fine(G, stack, ctxs, copied), Top.todo # <<>>,
           NEW outs, Step(ctxs, outs)
    PROVE  Fine(G, stack', ctxs', copied)
<1>1. stack' = Advance /\ ctxs' = ctxs
  BY DEF Step
<1>2. Sound(Advance, ctxs)
  BY <1>1 DEF ScopesInv
<1>3. \A i \in 1..Len(ctxs) : Became(G, copied, Advance, ctxs, ctxs, i)
  BY DEF Became, Left, Busy
<1>4. Fine(G, Advance, ctxs, copied)
  BY <1>2, <1>3, AdvanceFine DEF Fine
<1> QED BY <1>1, <1>4

\* One that puts values in its scope.
LEMMA StepPut ==
    ASSUME ScopesInv, ScopesInv', NEW G, Fine(G, stack, ctxs, copied), Top.todo # <<>>,
           NEW H, G \subseteq H, Closed(H, copied), NEW scope, OfValues(H, scope),
           \A x : Has(scope, x) => x \in copied \/ Lives(stack, Len(stack), x),
           NEW outs, Step([ctxs EXCEPT ![Top.ctx] = PutAll(@, scope)], outs)
    PROVE  Fine(H, stack', ctxs', copied)
<1>1. PICK d : d = [ctxs EXCEPT ![Top.ctx] = PutAll(@, scope)]
  OBVIOUS
<1>2. PICK st : st = Advance
  OBVIOUS
<1>3. stack' = st /\ ctxs' = d
  BY <1>1, <1>2 DEF Step
<1>4. Sound(st, d)
  BY <1>3 DEF ScopesInv
<1>5. Top.ctx \in 1..Len(ctxs) /\ Len(ctxs) \in Nat /\ Len(stack) \in Nat
  BY TopIs
<1>6. Puts(ctxs, d, Top.ctx, scope)
  BY <1>1, <1>5, PutIs
<1>7. /\ Len(st) = Len(stack) /\ Last(st).ctx = Top.ctx
      /\ \A n \in 1..Len(stack) : Same(st[n], stack[n])
  BY <1>2, AdvanceIs
<1>8. \A x : Lives(stack, Len(stack), x) => Lives(st, Len(st), x)
  BY <1>7 DEF Lives, Same
<1>9. /\ Len(d) <= Len(ctxs) /\ Len(d) = Len(ctxs)
      /\ \A x : Has(scope, x) => x \in copied \/ Lives(st, Len(st), x)
      /\ \A i \in 1..Len(d) : d[i] = IF i = Last(st).ctx THEN PutAll(ctxs[i], scope) ELSE ctxs[i]
      /\ Busy
  BY <1>5, <1>6, <1>7, <1>8 DEF Puts, Busy
<1>10. \A i \in 1..Len(d) : Became(H, copied, st, ctxs, d, i)
  BY <1>4, <1>9, BecamePut DEF Left
<1>11. Fine(H, st, d, copied)
  BY <1>2, <1>4, <1>10, AdvanceFine
<1> QED BY <1>3, <1>11

\* The stack when a statement runs a body.
LEMMA RanIs ==
    ASSUME ScopesInv, Top.todo # <<>>, NEW cs, Contexts(cs), NEW ctx \in 1..Len(cs),
           NEW todo, NEW os, NEW end, "op" \in DOMAIN end, NEW outs,
           Run(cs, outs, <<Frame(cs, todo, ctx, os, end)>>)
    PROVE  /\ Len(stack') = Len(stack) + 1 /\ Len(stack) \in Nat /\ ctxs' = cs
           /\ \A n \in 1..Len(stack) : Same(stack'[n], stack[n])
           /\ \A n \in (Len(stack) + 1)..Len(stack') : stack'[n] = Last(stack')
           /\ Last(stack').todo = todo /\ Last(stack').ctx = ctx /\ Last(stack').end = end
           /\ Last(stack').depth = Len(cs[ctx].scopes)
           /\ stack' = Append(Advance, Last(stack'))
<1>1. PICK f : f = Frame(cs, todo, ctx, os, end)
  OBVIOUS
<1>2. f.todo = todo /\ f.ctx = ctx /\ f.end = end /\ f.depth = Len(cs[ctx].scopes)
  BY <1>1 DEF Frame
<1>3. PICK a : a = Advance
  OBVIOUS
<1>4. IsSeq(a) /\ Len(stack) \in Nat
  BY <1>3, TopIs, AdvanceIs
<1>5. PICK st : st = Append(a, f)
  OBVIOUS
<1>6. stack' = st /\ ctxs' = cs
  <2>1. stack' = a \o <<f>> /\ ctxs' = cs
    BY <1>1, <1>3 DEF Run
  <2> QED BY <1>4, <1>5, <2>1, ConcatsOne
<1>7. /\ Len(st) = Len(stack) + 1 /\ st[Len(st)] = f /\ Last(st) = f
      /\ \A n \in 1..Len(stack) : Same(st[n], stack[n])
  BY <1>3, <1>5, PushedIs
<1>8. \A n \in (Len(stack) + 1)..Len(st) : n = Len(st)
  BY <1>4, <1>7
<1> QED BY <1>2, <1>3, <1>4, <1>5, <1>6, <1>7, <1>8

\* A statement runs a body.
LEMMA RunFine ==
    ASSUME ScopesInv, ScopesInv', NEW G, Fine(G, stack, ctxs, copied), Top.todo # <<>>,
           NEW H, NEW cp, G \subseteq H, copied \subseteq cp, Closed(H, cp),
           NEW cs, Contexts(cs), NEW ctx \in 1..Len(cs), Len(cs[ctx].scopes) > 0,
           NEW todo, NEW os, NEW end, "op" \in DOMAIN end, Runs(H, todo, end),
           end.op = "extends" =>
               Tail(Top.todo) = <<>> /\ Top.end.op \in TemplateOps /\ ctx = Top.ctx,
           \A x : HandsOn(end, x) => x \in cp \/ Lives(stack, Len(stack), x),
           NEW outs, Run(cs, outs, <<Frame(cs, todo, ctx, os, end)>>),
           \A i \in 1..Len(cs) : Became(H, cp, stack', ctxs, cs, i)
    PROVE  Fine(H, stack', ctxs', cp)
<1>1. /\ ctxs' = cs /\ stack' = Append(Advance, Last(stack'))
      /\ Last(stack').todo = todo /\ Last(stack').ctx = ctx /\ Last(stack').end = end
      /\ Last(stack').depth = Len(cs[ctx].scopes)
  BY RanIs
<1>2. PICK st, f : st = stack' /\ f = Last(stack')
  OBVIOUS
<1>3. st = Append(Advance, f) /\ f.todo = todo /\ f.ctx = ctx /\ f.end = end
  BY <1>1, <1>2
<1>4. Sound(st, cs) /\ FrameFine(H, f) /\ \A i \in 1..Len(cs) : Became(H, cp, st, ctxs, cs, i)
  BY <1>1, <1>2, <1>3 DEF ScopesInv, FrameFine
<1>5. Fine(H, st, cs, cp)
  BY <1>3, <1>4, PushFine
<1> QED BY <1>1, <1>2, <1>5

\* In its context as it is.
LEMMA RunSame ==
    ASSUME ScopesInv, ScopesInv', NEW G, Fine(G, stack, ctxs, copied), Top.todo # <<>>,
           NEW H, G \subseteq H, Closed(H, copied),
           NEW todo, NEW os, NEW end, "op" \in DOMAIN end, Runs(H, todo, end), end.op # "extends",
           \A x : HandsOn(end, x) => x \in copied \/ Lives(stack, Len(stack), x),
           NEW outs, Run(ctxs, outs, <<Frame(ctxs, todo, Top.ctx, os, end)>>)
    PROVE  Fine(H, stack', ctxs', copied)
<1>1. PICK cs, ctx : cs = ctxs /\ ctx = Top.ctx
  OBVIOUS
<1>2. /\ Contexts(cs) /\ ctx \in 1..Len(cs) /\ Len(cs[ctx].scopes) > 0
      /\ Run(cs, outs, <<Frame(cs, todo, ctx, os, end)>>)
  BY <1>1, TopIs, TopFine
<1>3. \A i \in 1..Len(cs) : Became(H, copied, stack', ctxs, cs, i)
  BY <1>1 DEF Became, Left, Busy
<1> QED BY <1>2, <1>3, RunFine

\* In a new one.
LEMMA RunInNew ==
    ASSUME ScopesInv, ScopesInv', NEW G, Fine(G, stack, ctxs, copied), Top.todo # <<>>,
           NEW x, IsContext(x), ContextFine(G, copied, x), Len(x.scopes) > 0,
           \A j \in 1..Len(x.scopes) : \A v :
               Has(x.scopes[j], v) => v \in copied \/ Lives(stack, Len(stack), v),
           NEW cs, cs = Append(ctxs, x), NEW todo, NEW os, NEW end, "op" \in DOMAIN end,
           Runs(G, todo, end), end.op # "extends", \A v : ~HandsOn(end, v),
           NEW outs, Run(cs, outs, <<Frame(cs, todo, Len(cs), os, end)>>)
    PROVE  Fine(G, stack', ctxs', copied)
<1>1. Contexts(ctxs) /\ Len(ctxs) \in Nat /\ Len(stack) \in Nat
  BY TopIs
<1>2. Contexts(cs) /\ Len(cs) = Len(ctxs) + 1 /\ cs[Len(cs)] = x
  BY <1>1, OneMore DEF Grows
<1>3. PICK ctx : ctx = Len(cs)
  OBVIOUS
<1>4. /\ ctx \in 1..Len(cs) /\ Len(cs[ctx].scopes) > 0
      /\ Run(cs, outs, <<Frame(cs, todo, ctx, os, end)>>)
  BY <1>1, <1>2, <1>3
<1>5. /\ Len(stack') = Len(stack) + 1
      /\ \A n \in 1..Len(stack) : Same(stack'[n], stack[n])
      /\ \A n \in (Len(stack) + 1)..Len(stack') : stack'[n].end.op # "extends"
  <2>1. /\ Len(stack') = Len(stack) + 1 /\ Last(stack').end = end
        /\ \A n \in 1..Len(stack) : Same(stack'[n], stack[n])
        /\ \A n \in (Len(stack) + 1)..Len(stack') : stack'[n] = Last(stack')
    BY <1>2, <1>4, RanIs
  <2> QED BY <2>1
<1>6. PICK st, k : st = stack' /\ k = Len(stack)
  OBVIOUS
<1>7. /\ Len(st) \in Nat /\ k \in 0..Len(stack) /\ k <= Len(st) /\ Len(st) \in k..Len(st) /\ Busy
      /\ \A n \in 1..k : Same(st[n], stack[n])
      /\ \A n \in (k + 1)..Len(st) : st[n].end.op # "extends"
      /\ (k + 1)..Len(stack) = {}
  BY <1>1, <1>5, <1>6 DEF Busy
<1>8. Knows(st, copied, x)
  <2>1. ASSUME NEW v, Lives(stack, Len(stack), v)
        PROVE  Lives(st, Len(st), v)
    BY <1>1, <1>7, <2>1, LivesOn
  <2> QED BY <2>1 DEF Knows
<1>9. \A i \in 1..Len(cs) : Became(G, copied, st, ctxs, cs, i)
  BY <1>7, <1>8, GrownOne
<1> QED BY <1>2, <1>4, <1>6, <1>9, RunFine DEF Fine
-----------------------------------------------------------------------------
(* The statements. *)

\* A body that a statement or a value holds.
LEMMA BodyIs ==
    ASSUME NEW body \in Bodies
    PROVE  IsSeq(body) /\ IsBody(body)
BY ProgramsAssumption, InSeq

\* The statement that is next.
LEMMA NodeIs ==
    ASSUME ScopesInv, NEW G, Fine(G, stack, ctxs, copied), Top.todo # <<>>
    PROVE  /\ Busy /\ IsStatement(Node)
           /\ Node.op = "extends" => Tail(Top.todo) = <<>> /\ Top.end.op \in TemplateOps
<1>1. PICK s : s = Top.todo
  OBVIOUS
<1>2. IsSeq(s) /\ s # <<>> /\ IF Top.end.op \in TemplateOps THEN IsTemplate(s) ELSE IsBody(s)
  BY <1>1, TopFine DEF Runs
<1>3. /\ DOMAIN s = 1..Len(s) /\ Len(s) \in Nat /\ 1 \in 1..Len(s) /\ Head(s) = s[1]
      /\ IsSeq(Tail(s)) /\ Len(Tail(s)) = Len(s) - 1
  BY <1>2, TailIs
<1>4. Node = s[1]
  BY <1>1, <1>3 DEF Node
<1>5. IsStatement(Node)
  BY <1>2, <1>3, <1>4 DEF IsTemplate, IsBody
<1>6. ASSUME Node.op = "extends"
      PROVE  Tail(s) = <<>> /\ Top.end.op \in TemplateOps
  <2>1. Top.end.op \in TemplateOps /\ Len(s) = 1
    BY <1>2, <1>3, <1>4, <1>6 DEF IsTemplate, IsBody
  <2>2. PICK t : t = Tail(s)
    OBVIOUS
  <2>3. IsSeq(t) /\ Len(t) = 0
    BY <1>3, <2>1, <2>2
  <2>4. t = <<>>
    <3>1. PICK S : t \in Seq(S)
      BY <2>3, SeqIn
    <3> QED BY <2>3, <3>1, EmptySeq
  <2> QED BY <2>1, <2>2, <2>4
<1> QED BY <1>1, <1>5, <1>6 DEF Busy

\* set.
LEMMA SetFine ==
    ASSUME ScopesInv, ScopesInv', NEW G, Fine(G, stack, ctxs, copied), Set
    PROVE  \E H : Fine(H, stack', ctxs', copied')
<1>1. Top.todo # <<>> /\ copied' = copied
  BY DEF Set, IsNext, Quiet
<1>2. PICK x : x = Data(Node.words)
  OBVIOUS
<1>3. Proper(G, copied, x) /\ Ids(x) = {}
  BY <1>2, DataProper
<1>4. PICK H : H = G \union {x}
  OBVIOUS
<1>5. Closed(H, copied) /\ G \subseteq H /\ x \in H
  BY <1>3, <1>4, TopFine, ClosedAddsOne
<1>6. PICK scope : scope = Single(Node.var, x)
  OBVIOUS
<1>7. OfValues(H, scope) /\ \A y : ~Has(scope, y)
  BY <1>3, <1>5, <1>6, SingleIs
<1>8. Step([ctxs EXCEPT ![Top.ctx] = PutAll(@, scope)], out)
  BY <1>2, <1>6 DEF Set, Put
<1>9. Fine(H, stack', ctxs', copied)
  BY <1>1, <1>5, <1>7, <1>8, StepPut
<1> QED BY <1>1, <1>9

\* The definition of a macro.
LEMMA DefineMacroFine ==
    ASSUME ScopesInv, ScopesInv', NEW G, Fine(G, stack, ctxs, copied), DefineMacro
    PROVE  \E H : Fine(H, stack', ctxs', copied')
<1>1. Top.todo # <<>> /\ copied' = copied /\ Node.op = "macro"
  BY DEF DefineMacro, IsNext, Quiet
<1>2. Node.body \in Bodies
  BY <1>1, NodeIs DEF IsStatement, Parts
<1>3. PICK x : x = MacroOf(Node)
  OBVIOUS
<1>4. Proper(G, copied, x) /\ Ids(x) = {}
  BY <1>2, <1>3, BodyProper
<1>5. PICK H : H = G \union {x}
  OBVIOUS
<1>6. Closed(H, copied) /\ G \subseteq H /\ x \in H
  BY <1>4, <1>5, TopFine, ClosedAddsOne
<1>7. PICK scope : scope = Single(Node.name, x)
  OBVIOUS
<1>8. OfValues(H, scope) /\ \A y : ~Has(scope, y)
  BY <1>4, <1>6, <1>7, SingleIs
<1>9. Step([ctxs EXCEPT ![Top.ctx] = PutAll(@, scope)], out)
  BY <1>3, <1>7 DEF DefineMacro, Put
<1>10. Fine(H, stack', ctxs', copied)
  BY <1>1, <1>6, <1>8, <1>9, StepPut
<1> QED BY <1>1, <1>10

\* if: the branch that is chosen is one of them.
LEMMA IfFine ==
    ASSUME ScopesInv, ScopesInv', NEW G, Fine(G, stack, ctxs, copied), If
    PROVE  \E H : Fine(H, stack', ctxs', copied')
<1>1. Top.todo # <<>> /\ copied' = copied /\ Node.op = "if"
  BY DEF If, IsNext, Quiet
<1>2. PICK branches : branches = Node.branches
  OBVIOUS
<1>3. /\ branches \in Seq(Range(branches)) /\ \A i \in DOMAIN branches : branches[i].body \in Bodies
  BY <1>1, <1>2, NodeIs DEF IsStatement, Parts
<1>4. DOMAIN branches = 1..Len(branches) /\ Len(branches) \in Nat
  BY <1>3
<1>5. PICK chosen : chosen = {i \in DOMAIN branches :
                                LET c == branches[i].cond
                                IN c = "else" \/ IsTrue(FindValue(Context, c))}
  OBVIOUS
<1>6. IF chosen = {} THEN Skip
      ELSE Run(ctxs, out, <<Frame(ctxs, branches[Min(chosen)].body, Top.ctx, Top.os,
                                  [op |-> "plain"])>>)
  BY <1>2, <1>5 DEF If
<1>7. CASE chosen = {}
  BY <1>1, <1>6, <1>7, SkipFine DEF Skip
<1>8. CASE chosen # {}
  <2>1. chosen \subseteq 1..Len(branches)
    BY <1>4, <1>5
  <2>2. Min(chosen) \in DOMAIN branches
    BY <1>4, <1>8, <2>1, MinIs
  <2>3. PICK todo, end : todo = branches[Min(chosen)].body /\ end = [op |-> "plain"]
    OBVIOUS
  <2>4. "op" \in DOMAIN end /\ end.op = "plain" /\ \A x : ~HandsOn(end, x)
    BY <2>3 DEF HandsOn
  <2>5. Runs(G, todo, end)
    <3>1. todo \in Bodies
      BY <1>3, <2>2, <2>3
    <3> QED BY <2>4, <3>1, BodyIs DEF Runs, TemplateOps
  <2>6. Run(ctxs, out, <<Frame(ctxs, todo, Top.ctx, Top.os, end)>>)
    BY <1>6, <1>8, <2>3
  <2>7. Closed(G, copied)
    BY TopFine
  <2>8. Fine(G, stack', ctxs', copied)
    BY <1>1, <2>4, <2>5, <2>6, <2>7, RunSame
  <2> QED BY <1>1, <2>8
<1> QED BY <1>7, <1>8

\* set with a body, and filter.
LEMMA CaptureFine ==
    ASSUME ScopesInv, ScopesInv', NEW G, Fine(G, stack, ctxs, copied), Capture
    PROVE  \E H : Fine(H, stack', ctxs', copied')
<1>1. Top.todo # <<>> /\ copied' = copied /\ Node.op = "capture"
  BY DEF Capture, IsNext, Quiet
<1>2. Node.body \in Bodies /\ Busy
  BY <1>1, NodeIs DEF IsStatement, Parts
<1>3. PICK x : x = Context
  OBVIOUS
<1>4. IsContext(x) /\ ContextFine(G, copied, x) /\ Len(x.scopes) > 0
      /\ \A j \in 1..Len(x.scopes) : \A v :
            Has(x.scopes[j], v) => v \in copied \/ Lives(stack, Len(stack), v)
  BY <1>2, <1>3, TopIs, TopFine, Known DEF Knows
<1>5. PICK cs, outs, todo : cs = Append(ctxs, x) /\ outs = Append(out, <<>>) /\ todo = Node.body
  OBVIOUS
<1>6. PICK end : end = [op |-> "capture", node |-> Node]
  OBVIOUS
<1>7. "op" \in DOMAIN end /\ end.op = "capture" /\ \A v : ~HandsOn(end, v)
  BY <1>6 DEF HandsOn
<1>8. Runs(G, todo, end)
  BY <1>2, <1>5, <1>7, BodyIs DEF Runs, TemplateOps
<1>9. Run(cs, outs, <<Frame(cs, todo, Len(cs), Len(outs), end)>>)
  <2>1. Clone(Context, TRUE) = x
    BY <1>3 DEF Clone
  <2> QED BY <1>5, <1>6, <2>1, Zenon DEF Capture
<1>10. Fine(G, stack', ctxs', copied)
  BY <1>1, <1>4, <1>5, <1>7, <1>8, <1>9, RunInNew
<1> QED BY <1>1, <1>10

\* with: its scope has values that are found.
LEMMA WithFine ==
    ASSUME ScopesInv, ScopesInv', NEW G, Fine(G, stack, ctxs, copied), With
    PROVE  \E H : Fine(H, stack', ctxs', copied')
<1>1. Top.todo # <<>> /\ copied' = copied /\ Node.op = "with"
  BY DEF With, IsNext, Quiet
<1>2. Node.body \in Bodies /\ Busy
  BY <1>1, NodeIs DEF IsStatement, Parts
<1>3. PICK c, scope : c = Context /\ scope = [v \in DOMAIN Node.vars |-> FindValue(c, Node.vars[v])]
  OBVIOUS
<1>4. IsContext(c) /\ ContextFine(G, copied, c) /\ Knows(stack, copied, c)
      /\ \A v : /\ FindValue(c, v) \in G
                /\ \A x \in Ids(FindValue(c, v)) : x \in copied \/ Lives(stack, Len(stack), x)
  BY <1>2, <1>3, TopIs, Known
<1>5. OfValues(G, scope) /\ \A x : Has(scope, x) => x \in copied \/ Lives(stack, Len(stack), x)
  BY <1>3, <1>4 DEF OfValues, Has
<1>6. PICK x : x = EnterScope(c, scope)
  OBVIOUS
<1>7. /\ ContextFine(G, copied, x) /\ Len(x.scopes) = Len(c.scopes) + 1
      /\ \A j \in 1..Len(x.scopes) : \A v : Has(x.scopes[j], v) =>
            \/ j \in 1..Len(c.scopes) /\ Has(c.scopes[j], v)
            \/ j = Len(x.scopes) /\ Has(scope, v)
  BY <1>4, <1>5, <1>6, EnterScopeFine
<1>8. /\ IsContext(x) /\ Len(x.scopes) > 0
      /\ \A j \in 1..Len(x.scopes) : \A v :
            Has(x.scopes[j], v) => v \in copied \/ Lives(stack, Len(stack), v)
  <2>1. IsContext(x) /\ Len(c.scopes) \in Nat
    BY <1>4, <1>6, EnterScopeIs DEF IsContext, IsSeq
  <2> QED BY <1>4, <1>5, <1>7, <2>1 DEF Knows
<1>9. PICK cs, todo : cs = Append(ctxs, x) /\ todo = Node.body
  OBVIOUS
<1>10. PICK end : end = [op |-> "with"]
  OBVIOUS
<1>11. "op" \in DOMAIN end /\ end.op = "with" /\ \A v : ~HandsOn(end, v)
  BY <1>10 DEF HandsOn
<1>12. Runs(G, todo, end)
  BY <1>2, <1>9, <1>11, BodyIs DEF Runs, TemplateOps
<1>13. Run(cs, out, <<Frame(cs, todo, Len(cs), Top.os, end)>>)
  <2>1. Clone(Context, TRUE) = c
    BY <1>3 DEF Clone
  <2> QED BY <1>3, <1>6, <1>9, <1>10, <2>1, Zenon DEF With
<1>14. Fine(G, stack', ctxs', copied)
  BY <1>1, <1>7, <1>8, <1>9, <1>11, <1>12, <1>13, RunInNew
<1> QED BY <1>1, <1>14

\* The end of a set with a body.
LEMMA EndSetFine ==
    ASSUME ScopesInv, ScopesInv', NEW G, Fine(G, stack, ctxs, copied), EndSet
    PROVE  \E H : Fine(H, stack', ctxs', copied')
<1>1. Top.end.op = "capture" /\ copied' = copied /\ Busy
  BY DEF EndSet, Ends, Quiet, Busy, TemplateOps
<1>2. PICK x : x = Data(Captured)
  OBVIOUS
<1>3. Proper(G, copied, x) /\ Ids(x) = {}
  BY <1>2, DataProper
<1>4. PICK H : H = G \union {x}
  OBVIOUS
<1>5. Closed(H, copied) /\ G \subseteq H /\ x \in H
  BY <1>3, <1>4, TopFine, ClosedAddsOne
<1>6. PICK scope : scope = Single(Top.end.node.target, x)
  OBVIOUS
<1>7. OfValues(H, scope) /\ \A y : ~Has(scope, y)
  BY <1>3, <1>5, <1>6, SingleIs
<1>8. Return([ctxs EXCEPT ![Caller.ctx] = PutAll(@, scope)], out)
  BY <1>2, <1>6 DEF EndSet, Put
<1>9. Fine(H, stack', ctxs', copied)
  BY <1>1, <1>5, <1>7, <1>8, ReturnPut DEF Left
<1> QED BY <1>1, <1>9

\* include, which puts its frame and looks for a file then.
LEMMA IncludeFine ==
    ASSUME ScopesInv, ScopesInv', NEW G, Fine(G, stack, ctxs, copied), Include
    PROVE  \E H : Fine(H, stack', ctxs', copied')
<1>1. Top.todo # <<>> /\ copied' = copied
  BY DEF Include, IsNext, Quiet
<1>2. PICK names : names = [i \in DOMAIN Node.files |-> NameOf(Context, Node.files[i])]
  OBVIOUS
<1>3. PICK end, none : end = [op |-> "include", node |-> Node, names |-> names] /\ none = <<>>
  OBVIOUS
<1>4. "op" \in DOMAIN end /\ end.op = "include" /\ \A x : ~HandsOn(end, x)
  BY <1>3 DEF HandsOn
<1>5. IsSeq(none) /\ DOMAIN none = {}
  BY <1>3 DEF IsSeq
<1>6. Runs(G, none, end)
  BY <1>4, <1>5 DEF Runs, TemplateOps, IsBody
<1>7. Run(ctxs, out, <<Frame(ctxs, none, Top.ctx, Top.os, end)>>)
  BY <1>2, <1>3 DEF Include
<1>8. Fine(G, stack', ctxs', copied)
  BY <1>1, <1>4, <1>6, <1>7, TopFine, RunSame
<1> QED BY <1>1, <1>8

\* Statements that change nothing that matters here.
LEMMA SkipsFine ==
    ASSUME ScopesInv, ScopesInv', NEW G, Fine(G, stack, ctxs, copied), Text \/ Show \/ ExtendsName
    PROVE  \E H : Fine(H, stack', ctxs', copied')
<1>1. Top.todo # <<>> /\ copied' = copied
  BY DEF Text, Show, ExtendsName, IsNext, Quiet
<1>2. PICK outs : Step(ctxs, outs)
  BY DEF Text, Show, ExtendsName, Skip
<1>3. Fine(G, stack', ctxs', copied)
  BY <1>1, <1>2, SkipFine
<1> QED BY <1>1, <1>3

\* And ends.
LEMMA EndsFine ==
    ASSUME ScopesInv, ScopesInv', NEW G, Fine(G, stack, ctxs, copied),
           EndPlain \/ EndFilter \/ EndWith
    PROVE  \E H : Fine(H, stack', ctxs', copied')
<1>1. Top.end.op \in {"plain", "capture", "with"} /\ copied' = copied
  BY DEF EndPlain, EndFilter, EndWith, Ends, Quiet
<1>2. PICK outs : Return(ctxs, outs)
  BY DEF EndPlain, EndFilter, EndWith
<1>3. Top.end.op \notin {"main", "extends"} /\ Busy
  BY <1>1 DEF Busy, TemplateOps
<1>4. Fine(G, stack', ctxs', copied)
  BY <1>2, <1>3, ReturnSame
<1> QED BY <1>1, <1>4

\* The end of the rendering.
LEMMA StopFine ==
    ASSUME NEW G, Fine(G, stack, ctxs, copied), NEW s, Stop(s)
    PROVE  \E H : Fine(H, stack', ctxs', copied')
<1>1. stack' = stack /\ ctxs' = ctxs /\ copied' = copied
  BY DEF Stop
<1> QED BY <1>1

\* What is called is a value, too.
LEMMA EvaluateIs ==
    ASSUME ScopesInv, NEW G, Fine(G, stack, ctxs, copied), Busy, NEW path
    PROVE  Evaluate(Context, path) \in G
<1>1. PICK v : v = FindValue(Context, Head(path))
  OBVIOUS
<1>2. v \in G /\ NoValue \in G /\ Proper(G, copied, v)
  BY <1>1, Known DEF Fine, Closed
<1>3. Evaluate(Context, path) =
         CASE Len(path) = 1 -> v
           [] v.k = "map" /\ path[2] \in DOMAIN v.vals -> v.vals[path[2]]
           [] OTHER -> NoValue
  BY <1>1 DEF Evaluate
<1>4. v.k = "map" /\ path[2] \in DOMAIN v.vals => v.vals[path[2]] \in G
  BY <1>2 DEF Proper
<1> QED BY <1>2, <1>3, <1>4

\* So are the arguments, whose renderers are there.
LEMMA ArgumentsAre ==
    ASSUME NEW G, NEW cp, Closed(G, cp), NEW c, IsContext(c), ContextFine(G, cp, c),
           NEW st, Knows(st, cp, c), NEW names, NEW args, args = Arguments(c, names)
    PROVE  \A i \in DOMAIN args :
              args[i] \in G /\ \A x \in Ids(args[i]) : x \in cp \/ Lives(st, Len(st), x)
<1>1. DOMAIN args = DOMAIN names /\ \A i \in DOMAIN names : args[i] = FindValue(c, names[i])
  BY DEF Arguments
<1> QED BY <1>1, KnownIn

\* The frame of a call.
LEMMA CalleeIs ==
    ASSUME NEW G, NEW fn \in G, NEW args, \A i \in DOMAIN args : args[i] \in G,
           NEW none, none = <<>>, NEW end, end = [op |-> "callee", fn |-> fn, args |-> args]
    PROVE  /\ Runs(G, none, end) /\ "op" \in DOMAIN end /\ end.op = "callee"
           /\ \A x : HandsOn(end, x) <=> \E i \in DOMAIN args : x \in Ids(args[i])
<1>1. end.op = "callee" /\ end.fn = fn /\ end.args = args /\ "op" \in DOMAIN end
  OBVIOUS
<1>2. IsSeq(none) /\ DOMAIN none = {}
  BY DEF IsSeq
<1>3. Runs(G, none, end)
  BY <1>1, <1>2 DEF Runs, TemplateOps, IsBody
<1> QED BY <1>1, <1>3 DEF HandsOn

\* A call in an expression.
LEMMA InvokeFine ==
    ASSUME ScopesInv, ScopesInv', NEW G, Fine(G, stack, ctxs, copied), Invoke
    PROVE  \E H : Fine(H, stack', ctxs', copied')
<1>1. Top.todo # <<>> /\ copied' = copied /\ Busy
  BY DEF Invoke, IsNext, Quiet, Busy
<1>2. PICK fn, args : fn = Evaluate(Context, Node.path) /\ args = Arguments(Context, Node.args)
  OBVIOUS
<1>3. IF IsCallable(fn) THEN Run(ctxs, out, <<Callee(ctxs, fn, args)>>) ELSE Skip
  BY <1>2, Zenon DEF Invoke
<1>4. CASE ~IsCallable(fn)
  BY <1>1, <1>3, <1>4, SkipFine DEF Skip
<1>5. CASE IsCallable(fn)
  <2>1. fn \in G
    BY <1>1, <1>2, EvaluateIs
  <2>2. \A i \in DOMAIN args :
           args[i] \in G /\ \A x \in Ids(args[i]) : x \in copied \/ Lives(stack, Len(stack), x)
    <3>1. PICK c : c = Context
      OBVIOUS
    <3>2. IsContext(c) /\ ContextFine(G, copied, c) /\ Knows(stack, copied, c) /\ Closed(G, copied)
      BY <1>1, <3>1, TopIs, TopFine, Known
    <3> QED BY <1>2, <3>1, <3>2, ArgumentsAre
  <2>3. PICK none, end : none = <<>> /\ end = [op |-> "callee", fn |-> fn, args |-> args]
    OBVIOUS
  <2>4. /\ Runs(G, none, end) /\ "op" \in DOMAIN end /\ end.op = "callee"
        /\ \A x : HandsOn(end, x) <=> \E i \in DOMAIN args : x \in Ids(args[i])
    BY <2>1, <2>2, <2>3, CalleeIs
  <2>5. Run(ctxs, out, <<Frame(ctxs, none, Top.ctx, Top.os, end)>>)
    BY <1>3, <1>5, <2>3 DEF Callee
  <2>6. Fine(G, stack', ctxs', copied)
    BY <1>1, <2>2, <2>4, <2>5, TopFine, RunSame
  <2> QED BY <1>1, <2>6
<1> QED BY <1>4, <1>5

\* A block: what is called is the block.
LEMMA BlockFine ==
    ASSUME ScopesInv, ScopesInv', NEW G, Fine(G, stack, ctxs, copied), Block
    PROVE  \E H : Fine(H, stack', ctxs', copied')
<1>1. Top.todo # <<>> /\ copied' = copied /\ Node.op = "block"
  BY DEF Block, IsNext, Quiet
<1>2. Node.body \in Bodies
  BY <1>1, NodeIs DEF IsStatement, Parts
<1>3. PICK fn, args : fn = [k |-> "block", node |-> Node] /\ args = <<>>
  OBVIOUS
<1>4. Proper(G, copied, fn) /\ DOMAIN args = {}
  <2>1. DOMAIN args = {}
    BY <1>3
  <2>2. Proper(G, copied, fn)
    BY <1>2, <1>3, "block" \in {"super", "block"}, BodyProper
  <2> QED BY <2>1, <2>2
<1>5. PICK H : H = G \union {fn}
  OBVIOUS
<1>6. Closed(H, copied) /\ G \subseteq H /\ fn \in H
  BY <1>4, <1>5, TopFine, ClosedAddsOne
<1>7. PICK none, end : none = <<>> /\ end = [op |-> "callee", fn |-> fn, args |-> args]
  OBVIOUS
<1>8. /\ Runs(H, none, end) /\ "op" \in DOMAIN end /\ end.op = "callee"
      /\ \A x : ~HandsOn(end, x)
  BY <1>4, <1>6, <1>7, CalleeIs
<1>9. Run(ctxs, out, <<Frame(ctxs, none, Top.ctx, Top.os, end)>>)
  BY <1>3, <1>7 DEF Callee, Block
<1>10. Fine(H, stack', ctxs', copied)
  BY <1>1, <1>6, <1>8, <1>9, RunSame
<1> QED BY <1>1, <1>10

\* super: the block's own body.
LEMMA PlainFine ==
    ASSUME ScopesInv, ScopesInv', NEW G, Fine(G, stack, ctxs, copied),
           EnterSuper \/ RenderOwnBody
    PROVE  \E H : Fine(H, stack', ctxs', copied')
<1>1. Top.end.op = "callee" /\ Top.end.fn.k \in {"super", "block"} /\ copied' = copied
  BY DEF EnterSuper, RenderOwnBody, Calls, Ends, Quiet
<1>2. Top.end.fn.node.body \in Bodies
  BY <1>1, TopFine DEF Runs, Closed, Proper
<1>3. PICK todo : todo = Top.end.fn.node.body
  OBVIOUS
<1>4. IsSeq(todo) /\ IsBody(todo)
  BY <1>2, <1>3, BodyIs
<1>5. Become(ctxs, todo, Top.ctx, [op |-> "plain"])
  BY <1>3 DEF EnterSuper, RenderOwnBody
<1>6. Fine(G, stack', ctxs', copied)
  BY <1>1, <1>4, <1>5, BecomeSame
<1> QED BY <1>1, <1>6

\* An error unwinds the stack to the include that catches it; all that waited above go.
LEMMA RaiseFine ==
    ASSUME ScopesInv, ScopesInv', NEW G, Fine(G, stack, ctxs, copied), Busy, NEW code, Raise(code)
    PROVE  \E H : Fine(H, stack', ctxs', copied')
<1>1. /\ IsSeq(stack) /\ Len(stack) \in Nat /\ IsSeq(ctxs) /\ Len(ctxs) \in Nat
      /\ DOMAIN stack = 1..Len(stack)
  BY TopIs DEF IsSeq
<1>2. /\ Sound(stack, ctxs) /\ Frames(stack) /\ Ordered(stack) /\ Nested(stack, ctxs)
  BY DEF ScopesInv, Sound
<1> DEFINE catching == {n \in DOMAIN stack : stack[n].end.op = "include"}
<1>3. CASE code = "FileNotFound" /\ catching # {}
  <2>1. PICK n : n = Max(catching)
    OBVIOUS
  <2>2. n \in catching
    BY <1>1, <1>3, <2>1, MaxIs
  <2>3. n \in 1..Len(stack) /\ stack[n].end.op = "include" /\ n \in Nat
    BY <1>1, <2>2
  <2>4. PICK b : b = stack[n].base
    OBVIOUS
  <2>5. b \in 0..Len(ctxs)
    <3>1. b \in Nat /\ b <= Len(ctxs)
      BY <1>2, <2>3, <2>4 DEF Nested, Frames, IsFrame
    <3> QED BY <1>1, <3>1
  <2>6. PICK st, d : st = SubSeq(stack, 1, n) /\ d = SubSeq(ctxs, 1, b)
    OBVIOUS
  <2>7. stack' = st /\ ctxs' = d /\ copied' = copied
    BY <1>3, <2>1, <2>4, <2>6 DEF Raise, Quiet
  <2>8. Len(d) = b /\ \A i \in 1..b : d[i] = ctxs[i] /\ i \in 1..Len(ctxs)
    BY <1>1, <2>5, <2>6, Cuts
  <2>9. ASSUME NEW m \in (n + 1)..Len(stack), NEW i \in 1..Len(d)
        PROVE  i <= stack[m].base /\ i # stack[m].ctx
    <3>1. PICK l : l = n + 1
      OBVIOUS
    <3>2. /\ l \in 1..Len(stack) /\ m \in l..Len(stack) /\ m \in 1..Len(stack)
          /\ l > 1 /\ l - 1 = n /\ n \in 1..(l - 1) /\ n \in 1..(m - 1) /\ i \in 1..b
      <4>1. PICK L \in Nat : L = Len(stack)
        BY <1>1
      <4>2. n \in Nat /\ n > 0 /\ m \in (n + 1)..L
        BY <2>3, <2>9, <4>1
      <4> QED BY <2>8, <3>1, <4>1, <4>2
    <3>3. stack[l].ctx > stack[l].base /\ b <= stack[l].base /\ b <= stack[m].base
      BY <1>2, <2>3, <2>4, <3>2 DEF Ordered, Nested
    <3>4. stack[m].ctx > stack[l].base \/ stack[m].ctx = stack[l].ctx
      BY <1>2, <3>2, AboveIs
    <3>5. /\ stack[l].ctx \in Nat /\ stack[l].base \in Nat /\ stack[m].ctx \in Nat
          /\ stack[m].base \in Nat /\ b \in Nat /\ i \in Nat /\ i <= b
      BY <1>1, <1>2, <2>5, <3>2 DEF Frames, IsFrame
    <3> QED BY <3>3, <3>4, <3>5
  <2>10. \A i \in 1..Len(d) : Became(G, copied, st, ctxs, d, i)
    BY <2>8, BecameSame
  <2>11. Sound(st, d)
    BY <2>7 DEF ScopesInv
  <2>12. Fine(G, st, d, copied)
    BY <2>3, <2>6, <2>9, <2>10, <2>11, TopFine, CutFine
  <2> QED BY <2>7, <2>12
<1>4. CASE ~(code = "FileNotFound" /\ catching # {})
  BY <1>4, StopFine DEF Raise
<1> QED BY <1>3, <1>4

\* The errors.
LEMMA RaisesFine ==
    ASSUME ScopesInv, ScopesInv', NEW G, Fine(G, stack, ctxs, copied),
           CallEmpty \/ ExtendsMissing \/ ImportMissing \/ NoneRendered
    PROVE  \E H : Fine(H, stack', ctxs', copied')
<1>1. Busy
  BY DEF CallEmpty, ExtendsMissing, ImportMissing, NoneRendered, Ends, IsNext, Busy, TemplateOps
<1>2. CASE \E code : Raise(code)
  BY <1>1, <1>2, RaiseFine
<1>3. CASE NoneRendered /\ Return(ctxs, out) /\ Quiet
  <2>1. Top.end.op \notin {"main", "extends"} /\ copied' = copied
    BY <1>3 DEF NoneRendered, Ends, Quiet
  <2>2. Fine(G, stack', ctxs', copied)
    BY <1>1, <1>3, <2>1, ReturnSame
  <2> QED BY <2>1, <2>2
<1> QED BY <1>2, <1>3 DEF CallEmpty, ExtendsMissing, ImportMissing, NoneRendered

\* A handler returns and has changed a context: one of its own, or its caller's, in which
\* there are no other renderers.
LEMMA ReturnSmall ==
    ASSUME ScopesInv, ScopesInv', NEW G, Fine(G, stack, ctxs, copied),
           NEW H, G \subseteq H, Closed(H, copied),
           Top.end.op \notin {"main", "extends"}, Busy,
           NEW c \in 1..Len(ctxs), NEW y, IsContext(y),
           \/ c > Top.base
           \/ /\ c = Caller.ctx /\ ContextFine(H, copied, y)
              /\ \A j \in 1..Len(y.scopes) : \A v : Has(y.scopes[j], v) =>
                    j \in 1..Len(ctxs[c].scopes) /\ Has(ctxs[c].scopes[j], v),
           NEW outs, Return([ctxs EXCEPT ![c] = y], outs)
    PROVE  Fine(H, stack', ctxs', copied)
<1>1. PICK cs : cs = [ctxs EXCEPT ![c] = y]
  OBVIOUS
<1>2. Contexts(ctxs) /\ Len(ctxs) \in Nat /\ IsFrame(Top)
  BY TopIs
<1>3. /\ Contexts(cs) /\ Len(cs) = Len(ctxs) /\ Return(cs, outs)
      /\ \A i \in 1..Len(ctxs) : cs[i] = IF i = c THEN y ELSE ctxs[i]
  <2>1. Replaces(ctxs, cs, c, y)
    BY <1>1, <1>2, ReplacesIt
  <2>2. Return(cs, outs)
    BY <1>1
  <2> QED BY <2>1, <2>2 DEF Replaces
<1>4. /\ Last(stack') = Caller /\ Len(ctxs') = Top.base
      /\ \A i \in 1..Top.base : ctxs'[i] = cs[i] /\ i \in 1..Len(ctxs)
  BY <1>3, ReturnedIs
<1>5. PICK st, d : st = stack' /\ d = ctxs'
  OBVIOUS
<1>6. ASSUME NEW i \in 1..Top.base
      PROVE  Became(H, copied, st, ctxs, d, i)
  <2>1. CASE i # c
    BY <1>3, <1>4, <1>5, <2>1, BecameSame
  <2>2. CASE i = c
    <3>1. ~(c > Top.base)
      BY <1>2, <2>2 DEF IsFrame
    <3>2. i = Last(st).ctx /\ d[i] = y /\ i \in 1..Len(ctxs)
      BY <1>3, <1>4, <1>5, <2>2, <3>1
    <3>3. Small(st, copied, ctxs[i], d[i])
      BY <2>2, <3>1, <3>2 DEF Small
    <3> QED BY <2>2, <3>1, <3>2, <3>3 DEF Became, Left
  <2> QED BY <2>1, <2>2
<1>7. \A i \in 1..Top.base : Became(H, copied, stack', ctxs, ctxs', i)
  BY <1>5, <1>6
<1> QED BY <1>3, <1>7, ReturnFine

\* What is taken out of a scope.
LEMMA EraseFine ==
    ASSUME NEW G, NEW cp, NEW x, IsContext(x), Len(x.scopes) > 0, ContextFine(G, cp, x), NEW v,
           NEW y, y = Erase(x, v)
    PROVE  /\ IsContext(y) /\ ContextFine(G, cp, y)
           /\ \A j \in 1..Len(y.scopes) : \A u :
                 Has(y.scopes[j], u) => j \in 1..Len(x.scopes) /\ Has(x.scopes[j], u)
<1>1. PICK c : c = Len(x.scopes)
  OBVIOUS
<1>2. c \in 1..Len(x.scopes)
  BY <1>1 DEF IsContext, IsSeq
<1>3. PICK s, e : s = x.scopes[c] /\ e = [w \in DOMAIN s \ {v} |-> s[w]]
  OBVIOUS
<1>4. OfValues(G, e) /\ \A u : Has(e, u) => Has(s, u)
  BY <1>2, <1>3 DEF ContextFine, OfValues, Has
<1>5. y = [x EXCEPT !.scopes[c] = e]
  BY <1>1, <1>3 DEF Erase
<1>6. /\ ContextFine(G, cp, y) /\ Len(y.scopes) = Len(x.scopes)
      /\ \A j \in 1..Len(x.scopes) : y.scopes[j] = IF j = c THEN e ELSE x.scopes[j]
  BY <1>2, <1>4, <1>5, LastFine
<1> QED BY <1>3, <1>4, <1>6, EraseIs

\* The caller's scope gets back the caller it had.
LEMMA EndCallFine ==
    ASSUME ScopesInv, ScopesInv', NEW G, Fine(G, stack, ctxs, copied), EndCall
    PROVE  \E H : Fine(H, stack', ctxs', copied')
<1>1. Top.end.op = "call" /\ copied' = copied /\ Busy
  BY DEF EndCall, Ends, Quiet, Busy, TemplateOps
<1>2. /\ Contexts(ctxs) /\ Top.ctx \in 1..Len(ctxs) /\ Context = ctxs[Top.ctx]
      /\ Top.ctx > Top.base \/ Top.ctx = Caller.ctx
  BY <1>1, TopIs, CallerIs
<1>3. PICK prev, x : prev = Top.end.prev /\ x = Context
  OBVIOUS
<1>4. /\ prev \in G /\ IsContext(x) /\ ContextFine(G, copied, x) /\ Len(x.scopes) > 0
      /\ Closed(G, copied) /\ \A v \in Ids(prev) : v \in copied \/ Lives(stack, Len(stack), v)
  BY <1>1, <1>3, TopIs, TopFine, Known DEF Runs, HandsOn
<1>5. CASE prev = NoValue
  <2>1. PICK y : y = Erase(x, "caller")
    OBVIOUS
  <2>2. /\ IsContext(y) /\ ContextFine(G, copied, y)
        /\ \A j \in 1..Len(y.scopes) : \A u :
              Has(y.scopes[j], u) => j \in 1..Len(x.scopes) /\ Has(x.scopes[j], u)
    BY <1>4, <2>1, EraseFine
  <2>3. Return([ctxs EXCEPT ![Top.ctx] = y], out)
    BY <1>2, <1>3, <1>5, <2>1 DEF EndCall
  <2>4. PICK c : c = Top.ctx
    OBVIOUS
  <2>5. Return([ctxs EXCEPT ![c] = y], out) /\ c \in 1..Len(ctxs) /\ ctxs[c] = x
        /\ (c > Top.base \/ c = Caller.ctx)
    BY <1>2, <1>3, <2>3, <2>4
  <2>6. Fine(G, stack', ctxs', copied)
    BY <1>1, <1>4, <2>2, <2>5, ReturnSmall
  <2> QED BY <1>1, <2>6
<1>6. CASE prev # NoValue
  <2>1. PICK scope : scope = Single("caller", prev)
    OBVIOUS
  <2>2. OfValues(G, scope) /\ \A v : Has(scope, v) => v \in copied \/ Lives(stack, Len(stack), v)
    BY <1>4, <2>1, SingleIs
  <2>3. Return([ctxs EXCEPT ![Top.ctx] = PutAll(@, scope)], out)
    BY <1>3, <1>6, <2>1 DEF EndCall, Put
  <2>4. CASE Top.ctx = Caller.ctx
    <3>1. Return([ctxs EXCEPT ![Caller.ctx] = PutAll(@, scope)], out)
      BY <2>3, <2>4
    <3>2. Fine(G, stack', ctxs', copied)
      BY <1>1, <1>4, <2>2, <3>1, ReturnPut DEF Left
    <3> QED BY <1>1, <3>2
  <2>5. CASE Top.ctx > Top.base
    <3>1. PICK c, y : c = Top.ctx /\ y = PutAll(x, scope)
      OBVIOUS
    <3>2. /\ c \in 1..Len(ctxs) /\ c > Top.base /\ IsContext(y)
          /\ Return([ctxs EXCEPT ![c] = y], out)
      BY <1>2, <1>3, <1>4, <2>3, <2>5, <3>1, PutAllIs
    <3>3. Fine(G, stack', ctxs', copied)
      BY <1>1, <1>4, <3>2, ReturnSmall
    <3> QED BY <1>1, <3>3
  <2> QED BY <1>2, <2>4, <2>5
<1> QED BY <1>5, <1>6

\* The end of a macro.
LEMMA EndMacroFine ==
    ASSUME ScopesInv, ScopesInv', NEW G, Fine(G, stack, ctxs, copied), EndMacro
    PROVE  \E H : Fine(H, stack', ctxs', copied')
<1>1. Top.end.op = "macro" /\ copied' = copied /\ Busy
  BY DEF EndMacro, Ends, Quiet, Busy, TemplateOps
<1>2. PICK c, x : c = Top.ctx /\ x = Context
  OBVIOUS
<1>3. /\ c \in 1..Len(ctxs) /\ x = ctxs[c] /\ (c > Top.base \/ c = Caller.ctx)
      /\ IsContext(x) /\ ContextFine(G, copied, x) /\ Len(x.scopes) > 0 /\ Closed(G, copied)
  BY <1>1, <1>2, TopIs, CallerIs, TopFine, Known
<1>4. PICK y : y = ExitScope(x)
  OBVIOUS
<1>5. /\ IsContext(y) /\ ContextFine(G, copied, y)
      /\ \A j \in 1..Len(y.scopes) : \A u :
            Has(y.scopes[j], u) => j \in 1..Len(x.scopes) /\ Has(x.scopes[j], u)
  BY <1>3, <1>4, ExitScopeIs, ExitScopeFine
<1>6. Return([ctxs EXCEPT ![c] = y], out)
  BY <1>2, <1>3, <1>4 DEF EndMacro
<1>7. Fine(G, stack', ctxs', copied)
  BY <1>1, <1>3, <1>5, <1>6, ReturnSmall
<1> QED BY <1>1, <1>7

\* The stack when a statement pushes two frames.
Pushes(st, f, g) ==
    /\ Len(st) = Len(stack) + 2 /\ Last(st) = g
    /\ st[Len(stack) + 1] = f /\ st[Len(stack) + 2] = g
    /\ \A n \in 1..Len(stack) : Same(st[n], stack[n])

\* Both stand on the frame that was on top.
LEMMA PushedTwo ==
    ASSUME ScopesInv, Top.todo # <<>>, NEW f, NEW g
    PROVE  Pushes(Append(Append(Advance, f), g), f, g)
<1>0. PICK st : st = Append(Append(Advance, f), g)
  OBVIOUS
<1>1. PICK s : s = Append(Advance, f)
  OBVIOUS
<1>2. /\ IsSeq(s) /\ Len(s) = Len(stack) + 1 /\ s[Len(s)] = f
      /\ \A n \in 1..Len(stack) : Same(s[n], stack[n])
  BY <1>1, PushedIs
<1>3. st = Append(s, g) /\ Len(stack) \in Nat
  BY <1>0, <1>1, TopIs
<1>4. Len(st) = Len(s) + 1 /\ (\A n \in 1..Len(s) : st[n] = s[n]) /\ st[Len(s) + 1] = g
  BY <1>2, <1>3, Appends
<1>5. PICK k : k = Len(stack)
  OBVIOUS
<1>6. /\ k \in Nat /\ Len(s) = k + 1 /\ Len(st) = k + 2 /\ st[k + 1] = f /\ st[k + 2] = g
  <2>1. k \in Nat /\ Len(s) = k + 1 /\ Len(st) = k + 1 + 1 /\ k + 1 + 1 = k + 2 /\ k + 1 \in 1..(k + 1)
    BY <1>2, <1>3, <1>4, <1>5
  <2> QED BY <1>2, <1>4, <2>1
<1>7. Last(st) = g
  BY <1>6 DEF Last
<1>8. \A n \in 1..k : n \in 1..Len(s)
  BY <1>6
<1> QED BY <1>0, <1>2, <1>4, <1>5, <1>6, <1>7, <1>8 DEF Pushes

\* A frame that has nothing to run.
LEMMA FrameIsFine ==
    ASSUME NEW G, NEW cs, NEW todo, NEW ctx, NEW os, NEW end, Runs(G, todo, end),
           Len(cs[ctx].scopes) > 0, NEW f, f = Frame(cs, todo, ctx, os, end)
    PROVE  FrameFine(G, f) /\ f.end = end /\ f.ctx = ctx /\ f.todo = todo
BY DEF Frame, FrameFine

\* call: the body is called caller then; the callee is looked for before, its arguments after.
LEMMA CallFine ==
    ASSUME ScopesInv, ScopesInv', NEW G, Fine(G, stack, ctxs, copied), Call
    PROVE  \E H : Fine(H, stack', ctxs', copied')
<1>1. Top.todo # <<>> /\ copied' = copied /\ Node.op = "call" /\ Busy
  BY DEF Call, IsNext, Quiet, Busy
<1>2. Node.body \in Bodies
  BY <1>1, NodeIs DEF IsStatement, Parts
<1>3. CASE Skip
  BY <1>1, <1>3, SkipFine DEF Skip
<1>4. PICK x, m, fn, prev : /\ x = Context /\ m = MacroOf(Node) /\ fn = FindValue(x, Node.callee)
                            /\ prev = IF "caller" \in DOMAIN CurrentScope(x)
                                      THEN CurrentScope(x)["caller"] ELSE NoValue
  OBVIOUS
<1>5. /\ IsContext(x) /\ ContextFine(G, copied, x) /\ Len(x.scopes) > 0 /\ Len(x.scopes) \in Nat
      /\ Knows(stack, copied, x) /\ Closed(G, copied) /\ fn \in G
      /\ Top.ctx \in 1..Len(ctxs) /\ x = ctxs[Top.ctx] /\ Contexts(ctxs) /\ Len(stack) \in Nat
  BY <1>1, <1>4, TopIs, TopFine, Known DEF IsContext, IsSeq
<1>6. prev \in G /\ \A v \in Ids(prev) : v \in copied \/ Lives(stack, Len(stack), v)
  <2>1. PICK s : s = x.scopes[Len(x.scopes)]
    OBVIOUS
  <2>2. Len(x.scopes) \in 1..Len(x.scopes) /\ CurrentScope(x) = s
    BY <1>5, <2>1 DEF CurrentScope, Last
  <2>3. OfValues(G, s) /\ \A v : Has(s, v) => v \in copied \/ Lives(stack, Len(stack), v)
    BY <1>5, <2>1, <2>2 DEF ContextFine, Knows
  <2>4. NoValue \in G /\ Ids(NoValue) = {}
    BY <1>5, NoValueProper DEF Closed
  <2> QED BY <1>4, <2>2, <2>3, <2>4 DEF OfValues, Has
<1>7. Proper(G, copied, m) /\ Ids(m) = {}
  BY <1>2, <1>4, BodyProper
<1>8. PICK H : H = G \union {m}
  OBVIOUS
<1>9. Closed(H, copied) /\ G \subseteq H /\ m \in H
  BY <1>5, <1>7, <1>8, ClosedAddsOne
<1>10. PICK scope : scope = Single("caller", m)
  OBVIOUS
<1>11. OfValues(H, scope) /\ \A v : ~Has(scope, v)
  BY <1>7, <1>9, <1>10, SingleIs
<1>12. PICK cs, y : cs = [ctxs EXCEPT ![Top.ctx] = PutAll(@, scope)] /\ y = PutAll(x, scope)
  OBVIOUS
<1>13. Puts(ctxs, cs, Top.ctx, scope)
  BY <1>5, <1>12, PutIs
<1>14. Len(cs) = Len(ctxs) /\ cs[Top.ctx] = y
  BY <1>5, <1>12, <1>13 DEF Puts
<1>15. /\ IsContext(y) /\ ContextFine(H, copied, y) /\ Len(y.scopes) > 0
       /\ Knows(stack, copied, y)
  <2>1. ContextFine(H, copied, x)
    BY <1>5, <1>9, ContextStays
  <2>2. /\ ContextFine(H, copied, y) /\ Len(y.scopes) = Len(x.scopes)
        /\ \A j \in 1..Len(x.scopes) : \A v : Has(y.scopes[j], v) =>
              Has(x.scopes[j], v) \/ (j = Len(x.scopes) /\ Has(scope, v))
    BY <1>5, <1>11, <1>12, <2>1, PutAllFine
  <2> QED BY <1>5, <1>11, <1>12, <2>2, PutAllIs DEF Knows
<1>16. PICK args : args = Arguments(y, Node.args)
  OBVIOUS
<1>17. \A i \in DOMAIN args :
          args[i] \in H /\ \A v \in Ids(args[i]) : v \in copied \/ Lives(stack, Len(stack), v)
  BY <1>9, <1>15, <1>16, ArgumentsAre
<1>18. PICK none, end1, end2 : /\ none = <<>> /\ end1 = [op |-> "call", prev |-> prev]
                               /\ end2 = [op |-> "callee", fn |-> fn, args |-> args]
  OBVIOUS
<1>19. /\ Runs(H, none, end2) /\ end2.op = "callee"
       /\ \A v : HandsOn(end2, v) => v \in copied \/ Lives(stack, Len(stack), v)
  <2>1. fn \in H
    BY <1>5, <1>9
  <2> QED BY <1>17, <1>18, <2>1, CalleeIs
<1>20. /\ Runs(H, none, end1) /\ end1.op = "call"
       /\ \A v : HandsOn(end1, v) => v \in copied \/ Lives(stack, Len(stack), v)
  <2>1. end1.op = "call" /\ end1.prev = prev /\ IsSeq(none) /\ DOMAIN none = {}
    BY <1>18 DEF IsSeq
  <2> QED BY <1>6, <1>9, <2>1 DEF Runs, HandsOn, TemplateOps, IsBody
<1>21. PICK f, g : f = Frame(cs, none, Top.ctx, Top.os, end1) /\ g = Frame(cs, none, Top.ctx, Top.os, end2)
  OBVIOUS
<1>22. FrameFine(H, f) /\ FrameFine(H, g) /\ f.end = end1 /\ g.end = end2 /\ g.ctx = Top.ctx
  BY <1>14, <1>15, <1>19, <1>20, <1>21, FrameIsFine
<1>23. CASE Run(cs, out, <<f, g>>)
  <2>1. PICK st : st = Append(Append(Advance, f), g)
    OBVIOUS
  <2>2. stack' = st /\ ctxs' = cs
    <3>1. IsSeq(Advance)
      BY <1>1, AdvanceIs
    <3>2. Advance \o <<f, g>> = st
      BY <2>1, <3>1, ConcatsTwo
    <3> QED BY <1>23, <3>2 DEF Run
  <2>3. PICK k : k = Len(stack)
    OBVIOUS
  <2>4. /\ Len(st) = k + 2 /\ k \in Nat /\ Last(st) = g /\ st[k + 1] = f /\ st[k + 2] = g
        /\ \A n \in 1..k : Same(st[n], stack[n])
    <3>1. Pushes(st, f, g)
      BY <1>1, <2>1, PushedTwo
    <3> QED BY <1>5, <2>3, <3>1 DEF Pushes
  <2>5. /\ k \in 0..Len(stack) /\ k <= Len(st) /\ (k + 1)..Len(st) = {k + 1, k + 2}
        /\ (k + 1)..Len(stack) = {} /\ Len(st) \in Nat
        /\ k + 1 \in k..Len(st) /\ k + 2 \in k..Len(st) /\ Len(st) \in k..Len(st)
    BY <2>3, <2>4
  <2>6. Sound(st, cs) /\ Frames(stack)
    BY <2>2 DEF ScopesInv, Sound
  <2>7. ASSUME NEW v, Lives(stack, Len(stack), v), NEW n \in k..Len(st)
        PROVE  Lives(st, n, v)
    BY <2>3, <2>4, <2>5, <2>7, LivesOn
  <2>8. \A n \in (k + 1)..Len(st) : Another(H, copied, st, n)
    <3>1. Another(H, copied, st, k + 1)
      BY <1>20, <1>22, <2>4, <2>5, <2>7 DEF Another, Handed, Extending
    <3>2. Another(H, copied, st, k + 2)
      BY <1>19, <1>22, <2>4, <2>5, <2>7 DEF Another, Handed, Extending
    <3> QED BY <2>5, <3>1, <3>2
  <2>9. /\ Len(cs) <= Len(ctxs) /\ \A v : Has(scope, v) => v \in copied \/ Lives(st, Len(st), v)
        /\ \A i \in 1..Len(cs) : cs[i] = IF i = Last(st).ctx THEN PutAll(ctxs[i], scope) ELSE ctxs[i]
    <3>1. Len(ctxs) \in Nat
      BY TopIs
    <3> QED BY <1>11, <1>13, <1>14, <1>22, <2>4, <3>1 DEF Puts
  <2>10. \A i \in 1..Len(cs) : Became(H, copied, st, ctxs, cs, i)
    BY <1>1, <1>9, <1>11, <2>6, <2>9, BecamePut DEF Left
  <2>11. Fine(H, st, cs, copied)
    BY <1>9, <2>3, <2>4, <2>5, <2>6, <2>8, <2>10, Steps
  <2> QED BY <1>1, <2>2, <2>11
<1>24. Skip \/ Run(cs, out, <<f, g>>)
  <2>1. cs = [ctxs EXCEPT ![Top.ctx] = Put(@, "caller", MacroOf(Node))]
    BY <1>4, <1>10, <1>12 DEF Put
  <2>2. g = Callee(cs, fn, Arguments(cs[Top.ctx], Node.args))
    BY <1>14, <1>16, <1>18, <1>21 DEF Callee
  <2>3. f = Frame(cs, <<>>, Top.ctx, Top.os, [op |-> "call", prev |-> prev])
    BY <1>18, <1>21
  <2> QED BY <1>4, <2>1, <2>2, <2>3, Zenon DEF Call
<1> QED BY <1>3, <1>23, <1>24

\* Whoever waits still does when the callee goes on with a body.
LEMMA LiveThen ==
    ASSUME ScopesInv, Top.end.op = "callee", NEW cs, Contexts(cs), NEW ctx \in 1..Len(cs),
           NEW todo, NEW end, "op" \in DOMAIN end, Become(cs, todo, ctx, end),
           NEW x, Lives(stack, Len(stack), x)
    PROVE  Lives(stack', Len(stack'), x)
<1>1. /\ Len(stack') = Len(stack) /\ Len(stack) \in Nat /\ Len(stack) > 1
      /\ \A n \in 1..(Len(stack) - 1) : stack'[n] = stack[n]
  BY BecameIs
<1>2. PICK n \in 1..Len(stack) : stack[n].end.op = "extends" /\ stack[n].end.id = x
  BY DEF Lives
<1>3. Top = stack[Len(stack)]
  BY TopIs
<1>4. n \in 1..(Len(stack) - 1)
  BY <1>1, <1>2, <1>3
<1> QED BY <1>1, <1>2, <1>4 DEF Lives

\* The callee goes on in a new context.
LEMMA BecomeInNew ==
    ASSUME ScopesInv, ScopesInv', NEW G, Fine(G, stack, ctxs, copied),
           NEW H, G \subseteq H, Closed(H, copied), Top.end.op = "callee",
           NEW x, IsContext(x), ContextFine(H, copied, x), Len(x.scopes) > 0,
           Knows(stack, copied, x), NEW cs, cs = Append(ctxs, x),
           NEW todo, NEW end, "op" \in DOMAIN end, end.op # "extends", Runs(H, todo, end),
           \A v : HandsOn(end, v) => v \in copied \/ Lives(stack, Len(stack), v),
           Become(cs, todo, Len(cs), end)
    PROVE  Fine(H, stack', ctxs', copied)
<1>1. Contexts(ctxs) /\ Len(ctxs) \in Nat
  BY TopIs
<1>2. Contexts(cs) /\ Len(cs) = Len(ctxs) + 1 /\ cs[Len(cs)] = x
  BY <1>1, OneMore DEF Grows
<1>3. PICK ctx : ctx = Len(cs)
  OBVIOUS
<1>4. /\ ctx \in 1..Len(cs) /\ Len(cs[ctx].scopes) > 0 /\ Become(cs, todo, ctx, end)
  BY <1>1, <1>2, <1>3
<1>5. /\ Len(stack') = Len(stack) /\ Len(stack) \in Nat /\ Len(stack) > 1
      /\ \A n \in 1..(Len(stack) - 1) : stack'[n] = stack[n]
      /\ Last(stack') = stack'[Len(stack)] /\ Last(stack').end = end
  BY <1>2, <1>4, BecameIs
<1>6. Knows(stack', copied, x)
  <2>1. ASSUME NEW v, Lives(stack, Len(stack), v)
        PROVE  Lives(stack', Len(stack'), v)
    BY <1>2, <1>4, <2>1, LiveThen
  <2> QED BY <2>1 DEF Knows
<1>7. PICK st, k : st = stack' /\ k = Len(stack) - 1
  OBVIOUS
<1>8. /\ Len(st) \in Nat /\ k \in 0..Len(stack) /\ k <= Len(st) /\ Busy /\ Knows(st, copied, x)
      /\ \A n \in 1..k : Same(st[n], stack[n])
      /\ \A n \in (k + 1)..Len(st) : st[n].end.op # "extends"
  <2>1. (k + 1)..Len(st) = {Len(stack)}
    BY <1>5, <1>7
  <2> QED BY <1>5, <1>6, <1>7, <2>1 DEF Busy, TemplateOps, Same
<1>9. \A i \in 1..Len(cs) : Became(H, copied, st, ctxs, cs, i)
  BY <1>8, GrownOne
<1> QED BY <1>2, <1>4, <1>7, <1>9, BecomeFine

\* The scope of a macro has the macro's name, and arguments.
LEMMA MacroScopeIs ==
    ASSUME NEW G, NEW node, NEW args, \A i \in DOMAIN args : args[i] \in G,
           Data(<<node.name>>) \in G, NEW scope, scope = MacroScope(node, args)
    PROVE  /\ OfValues(G, scope)
           /\ \A x : Has(scope, x) => \E i \in DOMAIN args : x \in Ids(args[i])
<1>1. PICK d : d = Data(<<node.name>>)
  OBVIOUS
<1>2. d \in G /\ Ids(d) = {}
  BY <1>1, DataProper
<1>3. PICK filled : filled = DOMAIN node.params \cap DOMAIN args
  OBVIOUS
<1>4. PICK given : given = [p \in {node.params[i] : i \in filled} |->
                               args[CHOOSE i \in filled : node.params[i] = p]]
  OBVIOUS
<1>5. PICK own : own = [v \in MacroNames |-> d]
  OBVIOUS
<1>6. scope = Merge(own, given)
  BY <1>1, <1>3, <1>4, <1>5 DEF MacroScope
<1>7. \A p \in DOMAIN given : \E i \in DOMAIN args : given[p] = args[i]
  <2>1. ASSUME NEW p \in DOMAIN given
        PROVE  \E i \in DOMAIN args : given[p] = args[i]
    <3>1. \E i \in filled : node.params[i] = p
      BY <1>4
    <3>2. (CHOOSE i \in filled : node.params[i] = p) \in filled
      BY <3>1
    <3> QED BY <1>3, <1>4, <3>2
  <2> QED BY <2>1
<1>8. OfValues(G, given) /\ \A x : Has(given, x) => \E i \in DOMAIN args : x \in Ids(args[i])
  BY <1>7 DEF OfValues, Has
<1>9. OfValues(G, own) /\ \A x : ~Has(own, x)
  BY <1>2, <1>5 DEF OfValues, Has
<1> QED BY <1>6, <1>8, <1>9, MergeIs

\* A macro is called.
LEMMA EnterMacroFine ==
    ASSUME ScopesInv, ScopesInv', NEW G, Fine(G, stack, ctxs, copied), EnterMacro
    PROVE  \E H : Fine(H, stack', ctxs', copied')
<1>1. Top.end.op = "callee" /\ Top.end.fn.k = "macro" /\ copied' = copied /\ Busy
  BY DEF EnterMacro, Calls, Ends, Quiet, Busy, TemplateOps
<1>2. PICK node, args, x : node = Top.end.fn.node /\ args = Top.end.args /\ x = Context
  OBVIOUS
<1>3. /\ node.body \in Bodies
      /\ \A i \in DOMAIN args : args[i] \in G
      /\ \A i \in DOMAIN args : \A v \in Ids(args[i]) : v \in copied \/ Lives(stack, Len(stack), v)
  BY <1>1, <1>2, TopFine DEF Runs, Closed, Proper, HandsOn
<1>4. /\ IsContext(x) /\ ContextFine(G, copied, x) /\ Len(x.scopes) \in Nat
      /\ Closed(G, copied) /\ Top.ctx \in 1..Len(ctxs) /\ x = ctxs[Top.ctx] /\ Contexts(ctxs)
  BY <1>1, <1>2, TopIs, TopFine, Known DEF IsContext, IsSeq
<1>5. PICK d, H : d = Data(<<node.name>>) /\ H = G \union {d}
  OBVIOUS
<1>6. Closed(H, copied) /\ G \subseteq H /\ d \in H
  <2>1. Proper(G, copied, d)
    BY <1>5, DataProper
  <2> QED BY <1>4, <1>5, <2>1, ClosedAddsOne
<1>7. PICK scope : scope = MacroScope(node, args)
  OBVIOUS
<1>8. OfValues(H, scope) /\ \A v : Has(scope, v) => v \in copied \/ Lives(stack, Len(stack), v)
  <2>1. \A i \in DOMAIN args : args[i] \in H
    BY <1>3, <1>6
  <2> QED BY <1>3, <1>5, <1>6, <1>7, <2>1, MacroScopeIs
<1>9. PICK y : y = EnterScope(x, scope)
  OBVIOUS
<1>10. /\ IsContext(y) /\ ContextFine(H, copied, y) /\ Len(y.scopes) = Len(x.scopes) + 1
       /\ \A j \in 1..Len(y.scopes) : \A v : Has(y.scopes[j], v) =>
             \/ j \in 1..Len(x.scopes) /\ Has(x.scopes[j], v)
             \/ j = Len(y.scopes) /\ Has(scope, v)
  <2>1. ContextFine(H, copied, x)
    BY <1>4, <1>6, ContextStays
  <2>2. IsContext(y)
    BY <1>4, <1>9, EnterScopeIs
  <2>3. IsContext(x) /\ OfValues(H, scope)
    BY <1>4, <1>8
  <2> QED BY <1>9, <2>1, <2>2, <2>3, EnterScopeFine
<1>11. PICK ctx, cs : ctx = Top.ctx /\ cs = [ctxs EXCEPT ![ctx] = y]
  OBVIOUS
<1>12. /\ Contexts(cs) /\ Len(cs) = Len(ctxs) /\ ctx \in 1..Len(cs)
       /\ \A i \in 1..Len(ctxs) : cs[i] = IF i = ctx THEN y ELSE ctxs[i]
  <2>1. Replaces(ctxs, cs, ctx, y)
    BY <1>4, <1>10, <1>11, ReplacesIt
  <2> QED BY <1>4, <1>11, <2>1 DEF Replaces
<1>13. PICK todo, end : todo = node.body /\ end = [op |-> "macro", node |-> node, args |-> args]
  OBVIOUS
<1>14. "op" \in DOMAIN end /\ end.op = "macro" /\ \A v : ~HandsOn(end, v)
  BY <1>13 DEF HandsOn
<1>15. Runs(H, todo, end)
  BY <1>3, <1>13, <1>14, BodyIs DEF Runs, TemplateOps
<1>16. Become(cs, todo, ctx, end)
  <2>1. cs = [ctxs EXCEPT ![Top.ctx] = EnterScope(@, MacroScope(Top.end.fn.node, Top.end.args))]
    BY <1>2, <1>4, <1>7, <1>9, <1>11
  <2> QED BY <1>2, <1>11, <1>13, <2>1, Zenon DEF EnterMacro
<1>17. Len(cs[ctx].scopes) > 0 /\ cs[ctx] = y
  BY <1>4, <1>10, <1>11, <1>12
<1>18. PICK st : st = stack'
  OBVIOUS
<1>19. /\ Last(st).ctx = ctx /\ Last(st).depth = Len(y.scopes)
       /\ \A v : Lives(stack, Len(stack), v) => Lives(st, Len(st), v)
  BY <1>1, <1>12, <1>14, <1>16, <1>17, <1>18, BecameIs, LiveThen
<1>20. Small(st, copied, x, y)
  <2>1. ASSUME NEW j \in 1..Len(y.scopes), NEW v, Has(y.scopes[j], v)
        PROVE  \/ j \in 1..Len(x.scopes) /\ Has(x.scopes[j], v)
               \/ v \in copied
               \/ Lives(st, Len(st), v) /\ j >= Last(st).depth
    BY <1>4, <1>8, <1>10, <1>19, <2>1
  <2> QED BY <2>1 DEF Small
<1>21. ASSUME NEW i \in 1..Len(cs)
       PROVE  Became(H, copied, st, ctxs, cs, i)
  <2>1. CASE i # ctx
    BY <1>1, <1>12, <2>1, BecameSame
  <2>2. CASE i = ctx
    BY <1>1, <1>4, <1>10, <1>11, <1>12, <1>17, <1>19, <1>20, <2>2 DEF Became, Left
  <2> QED BY <2>1, <2>2
<1>22. Fine(H, stack', ctxs', copied)
  BY <1>1, <1>6, <1>12, <1>14, <1>15, <1>16, <1>17, <1>18, <1>21, BecomeFine
<1> QED BY <1>1, <1>22

\* An imported macro is called: its module's values are bound, none of them renderers that
\* no import has copied.
LEMMA EnterImportedFine ==
    ASSUME ScopesInv, ScopesInv', NEW G, Fine(G, stack, ctxs, copied), EnterImported
    PROVE  \E H : Fine(H, stack', ctxs', copied')
<1>1. Top.end.op = "callee" /\ Top.end.fn.k = "imported" /\ Busy
  BY DEF EnterImported, Calls, Ends, Busy, TemplateOps
<1>2. PICK fn, args, c : fn = Top.end.fn /\ args = Top.end.args /\ c = Context
  OBVIOUS
<1>3. /\ Top.end = [op |-> "callee", fn |-> fn, args |-> args]
      /\ fn.fn \in G
      /\ \A i \in DOMAIN args : args[i] \in G
      /\ \A i \in DOMAIN args : \A v \in Ids(args[i]) : v \in copied \/ Lives(stack, Len(stack), v)
  BY <1>1, <1>2, TopFine DEF Runs, Closed, Proper, HandsOn
<1>4. PICK module : module = FindValue(c, fn.scope)
  OBVIOUS
<1>5. /\ IsContext(c) /\ ContextFine(G, copied, c) /\ Len(c.scopes) > 0
      /\ Closed(G, copied) /\ Knows(stack, copied, c) /\ module \in G
  BY <1>1, <1>2, <1>4, TopIs, TopFine, Known
<1>6. PICK z : z = Clone(c, module.withContext)
  OBVIOUS
<1>7. /\ IsContext(z) /\ ContextFine(G, copied, z) /\ Len(z.scopes) > 0
      /\ \A j \in 1..Len(z.scopes) : \A v :
            Has(z.scopes[j], v) => j \in 1..Len(c.scopes) /\ Has(c.scopes[j], v)
  BY <1>5, <1>6, CloneIs, CloneFine
<1>8. PICK b, x : b = <<module.vars>> /\ x = [z EXCEPT !.bound = b]
  OBVIOUS
<1>9. x = [bound |-> b, scopes |-> z.scopes, ext |-> z.ext] /\ IsSeq(z.scopes)
      /\ x.bound = b /\ x.scopes = z.scopes /\ x.ext = z.ext
  <2>1. z = [bound |-> z.bound, scopes |-> z.scopes, ext |-> z.ext] /\ IsSeq(z.scopes)
    BY <1>7 DEF IsContext
  <2>2. x = [bound |-> b, scopes |-> z.scopes, ext |-> z.ext]
    BY <1>8, <2>1
  <2> QED BY <2>1, <2>2
<1>10. IsContext(x) /\ Len(x.scopes) > 0 /\ Knows(stack, copied, x)
  BY <1>5, <1>7, <1>9 DEF IsContext, Knows
<1>11. PICK cs, none, end : /\ cs = Append(ctxs, x) /\ none = <<>>
                            /\ end = [op |-> "callee", fn |-> fn.fn, args |-> args]
  OBVIOUS
<1>12. CASE module.k = "module" /\ Become(cs, none, Len(cs), end) /\ Quiet
  <2>1. ContextFine(G, copied, x)
    <3>1. \A v \in DOMAIN module.vars : module.vars[v] \in G /\ Ids(module.vars[v]) \subseteq copied
      BY <1>5, <1>12 DEF Closed, Proper
    <3>2. OfValues(G, module.vars) /\ \A v : Has(module.vars, v) => v \in copied
      BY <3>1 DEF OfValues, Has
    <3>3. IsSeq(b) /\ Len(b) = 1 /\ b[1] = module.vars
      BY <1>8 DEF IsSeq
    <3>4. \A i \in 1..Len(b) : b[i] = module.vars
      BY <3>3
    <3> QED BY <1>7, <1>9, <3>2, <3>3, <3>4 DEF ContextFine
  <2>2. /\ Runs(G, none, end) /\ "op" \in DOMAIN end /\ end.op = "callee"
        /\ \A v : HandsOn(end, v) => v \in copied \/ Lives(stack, Len(stack), v)
    <3>1. PICK g : g = fn.fn
      OBVIOUS
    <3>2. g \in G /\ end = [op |-> "callee", fn |-> g, args |-> args]
      BY <1>3, <1>11, <3>1
    <3>3. /\ Runs(G, none, end) /\ "op" \in DOMAIN end /\ end.op = "callee"
          /\ \A v : HandsOn(end, v) <=> \E i \in DOMAIN args : v \in Ids(args[i])
      BY <1>3, <1>11, <3>2, CalleeIs
    <3> QED BY <1>3, <3>3
  <2>3. Fine(G, stack', ctxs', copied) /\ copied' = copied
    BY <1>1, <1>5, <1>10, <1>11, <1>12, <2>1, <2>2, BecomeInNew DEF Quiet
  <2> QED BY <2>3
<1>13. CASE Stop("crashed")
  BY <1>13, StopFine
<1>14. CASE Return(ctxs, out) /\ Quiet
  <2>1. Fine(G, stack', ctxs', copied) /\ copied' = copied
    BY <1>1, <1>14, ReturnSame DEF Quiet
  <2> QED BY <2>1
<1>15. [Top.end EXCEPT !.fn = Top.end.fn.fn] = end
  BY <1>2, <1>3, <1>11
<1>16. \/ module.k = "module" /\ Become(cs, none, Len(cs), end) /\ Quiet
       \/ Stop("crashed")
       \/ Return(ctxs, out) /\ Quiet
  <2>1. cs = Append(ctxs, [Clone(Context, module.withContext) EXCEPT !.bound = <<module.vars>>])
    BY <1>2, <1>6, <1>8, <1>11
  <2>2. module = FindValue(Context, Top.end.fn.scope)
    BY <1>2, <1>4
  <2> QED BY <1>11, <1>15, <2>1, <2>2 DEF EnterImported
<1> QED BY <1>12, <1>13, <1>14, <1>16

\* The renderers that blocks ask, as the values they are.
LEMMA ParentsAre ==
    ASSUME NEW G, NEW cp, Closed(G, cp), NEW c, IsContext(c), ContextFine(G, cp, c),
           NEW st, Knows(st, cp, c), NEW list, list = Parents(c),
           NEW x, x = [k |-> "renderers", list |-> list]
    PROVE  /\ IsSeq(list) /\ \A i \in 1..Len(list) : Range(list[i].blocks) \subseteq Bodies
           /\ Proper(G, cp, x) /\ Ids(x) = {r.id : r \in Range(list)}
           /\ \A y \in Ids(x) : y \in cp \/ Lives(st, Len(st), y)
<1>1. PICK v : v = FindValue(c, ParentTemplate)
  OBVIOUS
<1>2. v \in G /\ Proper(G, cp, v) /\ \A y \in Ids(v) : y \in cp \/ Lives(st, Len(st), y)
  BY <1>1, KnownIn DEF Closed
<1>3. x.k = "renderers" /\ x.list = list /\ Ids(x) = {r.id : r \in Range(list)}
  BY DEF Ids
<1>4. CASE v.k = "renderers"
  <2>1. list = v.list
    BY <1>1, <1>4 DEF Parents
  <2>2. x = v
    BY <1>2, <1>4, <2>1 DEF Proper
  <2> QED BY <1>2, <1>3, <1>4, <2>1, <2>2 DEF Proper
<1>5. CASE v.k # "renderers"
  <2>1. list = <<>>
    BY <1>1, <1>5 DEF Parents
  <2>2. IsSeq(list) /\ Len(list) = 0 /\ DOMAIN list = {}
    BY <2>1 DEF IsSeq
  <2>3. Ids(x) = {}
    BY <1>3, <2>2 DEF Range
  <2>4. \A i \in 1..Len(list) : FALSE
    BY <2>2
  <2>5. Proper(G, cp, x)
    BY <1>3, <2>2, <2>4 DEF Proper
  <2> QED BY <1>3, <2>2, <2>3, <2>4, <2>5
<1> QED BY <1>4, <1>5

\* A renderer overrides the block.
LEMMA RenderOverrideFine ==
    ASSUME ScopesInv, ScopesInv', NEW G, Fine(G, stack, ctxs, copied), RenderOverride
    PROVE  \E H : Fine(H, stack', ctxs', copied')
<1>1. Top.end.op = "callee" /\ Top.end.fn.k = "block" /\ Busy /\ copied' = copied
  BY DEF RenderOverride, Calls, Ends, Busy, TemplateOps, Quiet
<1>2. PICK node, c, list : node = Top.end.fn.node /\ c = Context /\ list = Parents(c)
  OBVIOUS
<1>3. /\ IsContext(c) /\ ContextFine(G, copied, c) /\ Len(c.scopes) > 0
      /\ Closed(G, copied) /\ Knows(stack, copied, c) /\ node.body \in Bodies
  BY <1>1, <1>2, TopIs, TopFine, Known DEF Runs, Closed, Proper
<1>4. PICK s, x : s = [k |-> "super", node |-> node] /\ x = [k |-> "renderers", list |-> list]
  OBVIOUS
<1>5. /\ IsSeq(list) /\ \A i \in 1..Len(list) : Range(list[i].blocks) \subseteq Bodies
      /\ Proper(G, copied, x) /\ \A y \in Ids(x) : y \in copied \/ Lives(stack, Len(stack), y)
  BY <1>2, <1>3, <1>4, ParentsAre
<1>6. Proper(G, copied, s) /\ Ids(s) = {}
  BY <1>3, <1>4, "super" \in {"super", "block"}, BodyProper
<1>7. PICK S, H : S = {s, x} /\ H = G \union S
  OBVIOUS
<1>8. Closed(H, copied) /\ G \subseteq H /\ s \in H /\ x \in H
  <2>1. \A v \in S : Proper(G, copied, v)
    BY <1>5, <1>6, <1>7
  <2> QED BY <1>3, <1>7, <2>1, ClosedAdds
<1>9. PICK super, over : /\ super = Single("super", s)
                         /\ over = IF node.scoped THEN Empty ELSE Single(ParentTemplate, x)
  OBVIOUS
<1>10. OfValues(H, super) /\ \A v : ~Has(super, v)
  BY <1>6, <1>8, <1>9, SingleIs
<1>11. OfValues(H, over) /\ \A v : Has(over, v) => v \in copied \/ Lives(stack, Len(stack), v)
  <2>1. CASE node.scoped
    BY <1>9, <2>1, EmptyIs
  <2>2. CASE ~node.scoped
    BY <1>5, <1>8, <1>9, <2>2, SingleIs
  <2> QED BY <2>1, <2>2
<1>12. PICK scope : scope = Merge(super, over)
  OBVIOUS
<1>13. OfValues(H, scope) /\ \A v : Has(scope, v) => v \in copied \/ Lives(stack, Len(stack), v)
  BY <1>10, <1>11, <1>12, MergeIs
<1>14. PICK z, y : z = Clone(c, node.scoped) /\ y = EnterScope(z, scope)
  OBVIOUS
<1>15. /\ IsContext(z) /\ ContextFine(H, copied, z)
       /\ \A j \in 1..Len(z.scopes) : \A v :
             Has(z.scopes[j], v) => v \in copied \/ Lives(stack, Len(stack), v)
  <2>1. ContextFine(H, copied, c) /\ IsContext(z)
    BY <1>3, <1>8, <1>14, ContextStays, CloneIs
  <2>2. /\ ContextFine(H, copied, z)
        /\ \A j \in 1..Len(z.scopes) : \A v :
              Has(z.scopes[j], v) => j \in 1..Len(c.scopes) /\ Has(c.scopes[j], v)
    BY <1>8, <1>14, <2>1, CloneFine
  <2> QED BY <1>3, <2>1, <2>2 DEF Knows
<1>16. IsContext(y) /\ ContextFine(H, copied, y) /\ Len(y.scopes) > 0 /\ Knows(stack, copied, y)
  <2>1. IsContext(y) /\ Len(z.scopes) \in Nat
    BY <1>14, <1>15, EnterScopeIs DEF IsContext, IsSeq
  <2>2. IsContext(z) /\ ContextFine(H, copied, z) /\ OfValues(H, scope)
    BY <1>13, <1>15
  <2>3. /\ ContextFine(H, copied, y) /\ Len(y.scopes) = Len(z.scopes) + 1
        /\ \A j \in 1..Len(y.scopes) : \A v : Has(y.scopes[j], v) =>
              \/ j \in 1..Len(z.scopes) /\ Has(z.scopes[j], v)
              \/ j = Len(y.scopes) /\ Has(scope, v)
    BY <1>14, <2>2, EnterScopeFine
  <2> QED BY <1>13, <1>15, <2>1, <2>3 DEF Knows
<1>17. PICK found : found = Overriding(c, node.name)
  OBVIOUS
<1>18. PICK todo, end : /\ todo = list[Min(found)].blocks[node.name]
                        /\ end = [op |-> "override", node |-> node]
  OBVIOUS
<1>19. PICK cs : cs = Append(ctxs, y)
  OBVIOUS
<1>20. found # {} /\ Become(cs, todo, Len(cs), end)
  BY <1>2, <1>4, <1>9, <1>12, <1>14, <1>17, <1>18, <1>19, Zenon DEF RenderOverride
<1>21. todo \in Bodies
  <2>1. DOMAIN list = 1..Len(list) /\ Len(list) \in Nat
    BY <1>5 DEF IsSeq
  <2>2. found = {i \in DOMAIN list : node.name \in DOMAIN list[i].blocks}
    BY <1>2, <1>17 DEF Overriding
  <2>3. found \subseteq 1..Len(list)
    BY <2>1, <2>2
  <2>4. PICK i : i = Min(found)
    OBVIOUS
  <2>5. i \in found
    BY <1>20, <2>1, <2>3, <2>4, MinIs
  <2>6. i \in 1..Len(list) /\ node.name \in DOMAIN list[i].blocks
    BY <2>2, <2>3, <2>5
  <2> QED BY <1>5, <1>18, <2>4, <2>6 DEF Range
<1>22. "op" \in DOMAIN end /\ end.op = "override" /\ end.node = node /\ \A v : ~HandsOn(end, v)
  BY <1>18 DEF HandsOn
<1>23. Runs(H, todo, end)
  BY <1>3, <1>21, <1>22, BodyIs DEF Runs, TemplateOps
<1>24. Fine(H, stack', ctxs', copied)
  BY <1>1, <1>8, <1>16, <1>19, <1>20, <1>22, <1>23, BecomeInNew
<1> QED BY <1>1, <1>24

\* The block is put into self.
LEMMA EndOverrideFine ==
    ASSUME ScopesInv, ScopesInv', NEW G, Fine(G, stack, ctxs, copied), EndOverride
    PROVE  \E H : Fine(H, stack', ctxs', copied')
<1>1. Top.end.op = "override" /\ Busy
  BY DEF EndOverride, Ends, Busy, TemplateOps
<1>2. PICK c, x, node : c = Caller.ctx /\ x = ctxs[c] /\ node = Top.end.node
  OBVIOUS
<1>3. /\ c \in 1..Len(ctxs) /\ IsContext(x) /\ ContextFine(G, copied, x)
      /\ Closed(G, copied) /\ node.body \in Bodies
  <2>1. c \in 1..Len(ctxs) /\ Contexts(ctxs)
    BY <1>1, <1>2, CallerIs, TopIs
  <2> QED BY <1>1, <1>2, <2>1, TopFine DEF Contexts, Fine, Runs
<1>4. Len(x.scopes) > 0
  <2>1. CASE Top.ctx = c
    BY <1>2, <2>1, TopIs, TopFine
  <2>2. CASE Top.ctx > Top.base
    <3>1. PICK k : k = Len(stack) - 1
      OBVIOUS
    <3>2. /\ k \in 1..Len(stack) /\ k + 1 = Len(stack) /\ Caller = stack[k]
          /\ Top = stack[k + 1]
      BY <1>1, <3>1, TopIs, CallerIs
    <3>3. OnTop(stack, k)
      BY <2>2, <3>2 DEF OnTop
    <3>4. Len(x.scopes) = stack[k].depth
      BY <1>2, <3>2, <3>3 DEF ScopesInv, Sound, Deep
    <3> QED BY <3>2, <3>4 DEF Fine, FrameFine
  <2> QED BY <1>1, <1>2, <2>1, <2>2, CallerIs
<1>5. PICK s, self, block : /\ s = x.scopes[1] /\ self = s["self"]
                            /\ block = [k |-> "block", node |-> node]
  OBVIOUS
<1>6. CASE Stop("crashed")
  BY <1>6, StopFine
<1>7. CASE /\ self.k = "map" /\ Quiet
           /\ Return([ctxs EXCEPT ![c].scopes[1]["self"].vals = Merge(@, Single(node.name, block))], out)
  <2>1. PICK vals : vals = Merge(self.vals, Single(node.name, block))
    OBVIOUS
  <2>2. PICK w : w = [self EXCEPT !.vals = vals]
    OBVIOUS
  <2>3. PICK e, y : e = [s EXCEPT !["self"] = w] /\ y = [x EXCEPT !.scopes[1] = e]
    OBVIOUS
  <2>4. Return([ctxs EXCEPT ![c] = y], out)
    <3>1. [ctxs EXCEPT ![c].scopes[1]["self"].vals = Merge(@, Single(node.name, block))]
             = [ctxs EXCEPT ![c] = y]
      BY <1>2, <1>5, <2>1, <2>2, <2>3
    <3> QED BY <1>7, <3>1
  <2>5. \E H : Closed(H, copied) /\ G \subseteq H /\ ("self" \in DOMAIN s => w \in H /\ Ids(w) = {})
    <3>1. CASE "self" \notin DOMAIN s
      BY <1>3, <3>1
    <3>2. CASE "self" \in DOMAIN s
      <4>1. self \in G
        BY <1>3, <1>4, <1>5, <3>2 DEF ContextFine, OfValues, IsContext, IsSeq
      <4>2. self = [k |-> "map", vals |-> self.vals] /\ OfValues(G, self.vals)
        BY <1>3, <1>7, <4>1 DEF Closed, Proper, OfValues
      <4>3. w = MapOf(vals)
        BY <2>2, <4>2 DEF MapOf
      <4>4. Proper(G, copied, block)
        BY <1>3, <1>5, "block" \in {"super", "block"}, BodyProper
      <4>5. PICK K : K = G \union {block}
        OBVIOUS
      <4>6. Closed(K, copied) /\ G \subseteq K /\ block \in K
        BY <1>3, <4>4, <4>5, ClosedAddsOne
      <4>7. OfValues(K, vals)
        <5>1. OfValues(K, self.vals)
          BY <4>2, <4>6 DEF OfValues
        <5>2. OfValues(K, Single(node.name, block))
          BY <4>6, SingleIs
        <5> QED BY <2>1, <5>1, <5>2, MergeIs
      <4>8. Proper(K, copied, w) /\ Ids(w) = {}
        BY <4>3, <4>7, MapProper DEF OfValues
      <4>9. PICK H : H = K \union {w}
        OBVIOUS
      <4>10. Closed(H, copied) /\ K \subseteq H /\ w \in H
        BY <4>6, <4>8, <4>9, ClosedAddsOne
      <4> QED BY <4>6, <4>8, <4>10
    <3> QED BY <3>1, <3>2
  <2>6. PICK H : Closed(H, copied) /\ G \subseteq H /\ ("self" \in DOMAIN s => w \in H /\ Ids(w) = {})
    BY <2>5
  <2>7. ContextFine(H, copied, x)
    BY <1>3, <2>6, ContextStays
  <2>8. 1 \in 1..Len(x.scopes)
    BY <1>3, <1>4 DEF IsContext, IsSeq
  <2>9. OfValues(H, e) /\ \A v : Has(e, v) => Has(s, v)
    <3>1. DOMAIN e = DOMAIN s /\ \A u \in DOMAIN s : e[u] = IF u = "self" THEN w ELSE s[u]
      BY <2>3
    <3>2. OfValues(H, s)
      BY <1>5, <2>7, <2>8 DEF ContextFine
    <3> QED BY <2>6, <3>1, <3>2 DEF OfValues, Has
  <2>10. /\ ContextFine(H, copied, y) /\ Len(y.scopes) = Len(x.scopes)
         /\ \A j \in 1..Len(x.scopes) : y.scopes[j] = IF j = 1 THEN e ELSE x.scopes[j]
    <3>1. PICK first : first = 1
      OBVIOUS
    <3>2. IsContext(x) /\ first \in 1..Len(x.scopes) /\ OfValues(H, e) /\ y = [x EXCEPT !.scopes[first] = e]
      BY <1>3, <2>3, <2>8, <2>9, <3>1
    <3>3. /\ ContextFine(H, copied, y) /\ Len(y.scopes) = Len(x.scopes)
          /\ \A j \in 1..Len(x.scopes) : y.scopes[j] = IF j = first THEN e ELSE x.scopes[j]
      BY <2>7, <3>2, LastFine
    <3> QED BY <3>1, <3>3
  <2>11. \A j \in 1..Len(y.scopes) : \A v :
            Has(y.scopes[j], v) => j \in 1..Len(x.scopes) /\ Has(x.scopes[j], v)
    BY <1>5, <2>9, <2>10
  <2>12. IsContext(y)
    <3>1. y = [x EXCEPT !.scopes[1]["self"] = w]
      BY <1>5, <2>3
    <3> QED BY <1>3, <3>1, SelfIs
  <2>13. Fine(H, stack', ctxs', copied)
    BY <1>1, <1>2, <1>3, <2>4, <2>6, <2>10, <2>11, <2>12, ReturnSmall
  <2> QED BY <1>7, <2>13 DEF Quiet
<1> QED BY <1>2, <1>5, <1>6, <1>7 DEF EndOverride

\* A file is a template.
LEMMA FileIs ==
    ASSUME files \in Programs, NEW file \in DOMAIN files
    PROVE  IsSeq(files[file]) /\ IsTemplate(files[file])
BY ProgramsAssumption, InSeq

\* The list with a renderer more.
LEMMA MoreParents ==
    ASSUME NEW G, NEW cp, NEW r, Range(r.blocks) \subseteq Bodies, NEW old, IsSeq(old),
           \A i \in 1..Len(old) : Range(old[i].blocks) \subseteq Bodies,
           NEW list, list = <<r>> \o old, NEW x, x = [k |-> "renderers", list |-> list]
    PROVE  /\ Proper(G, cp, x)
           /\ \A y \in Ids(x) : y = r.id \/ y \in {p.id : p \in Range(old)}
<1>1. PICK s : s = <<r>>
  OBVIOUS
<1>2. IsSeq(s) /\ \A i \in 1..Len(s) : s[i] = r
  <2>1. Len(s) = 1 /\ s = [i \in 1..1 |-> s[i]] /\ s[1] = r
    BY <1>1
  <2> QED BY <2>1 DEF IsSeq
<1>3. IsSeq(list) /\ \A i \in 1..Len(list) : In(s, list[i]) \/ In(old, list[i])
  BY <1>1, <1>2, Concats
<1>4. \A i \in 1..Len(list) : list[i] = r \/ \E j \in 1..Len(old) : list[i] = old[j]
  BY <1>2, <1>3 DEF In
<1>5. x.k = "renderers" /\ x.list = list
  OBVIOUS
<1>6. Proper(G, cp, x)
  <2>1. \A i \in 1..Len(list) : Range(list[i].blocks) \subseteq Bodies
    BY <1>4
  <2> QED BY <1>3, <1>5, <2>1 DEF Proper
<1>7. ASSUME NEW y \in Ids(x)
      PROVE  y = r.id \/ y \in {p.id : p \in Range(old)}
  <2>1. DOMAIN list = 1..Len(list) /\ DOMAIN old = 1..Len(old)
    BY <1>3 DEF IsSeq
  <2>2. PICK i \in 1..Len(list) : y = list[i].id
    BY <1>5, <2>1 DEF Ids, Range
  <2> QED BY <1>4, <2>1, <2>2 DEF Range
<1> QED BY <1>6, <1>7

\* extends: its renderer is there as long as its frame, and in the scope of the template.
LEMMA ExtendsFine ==
    ASSUME ScopesInv, ScopesInv', NEW G, Fine(G, stack, ctxs, copied), files \in Programs, Extends
    PROVE  \E H : Fine(H, stack', ctxs', copied')
<1>1. /\ Top.todo # <<>> /\ Node.op = "extends" /\ Node.file \in DOMAIN files /\ Busy
      /\ copied' = copied
  BY DEF Extends, IsNext, Busy
<1>2. /\ Tail(Top.todo) = <<>> /\ Top.end.op \in TemplateOps /\ Range(Node.blocks) \subseteq Bodies
  BY <1>1, NodeIs DEF IsStatement, Parts
<1>3. PICK c, old, r : /\ c = Context /\ old = Parents(c)
                       /\ r = [id |-> renderers + 1, blocks |-> Node.blocks]
  OBVIOUS
<1>4. /\ IsContext(c) /\ ContextFine(G, copied, c) /\ Len(c.scopes) > 0 /\ Closed(G, copied)
      /\ Knows(stack, copied, c) /\ Top.ctx \in 1..Len(ctxs) /\ Contexts(ctxs)
      /\ Len(ctxs) \in Nat /\ Len(stack) \in Nat
  BY <1>1, <1>3, TopIs, TopFine, Known
<1>5. PICK list, x, was : /\ list = <<r>> \o old /\ x = [k |-> "renderers", list |-> list]
                          /\ was = [k |-> "renderers", list |-> old]
  OBVIOUS
<1>6. /\ IsSeq(old) /\ \A i \in 1..Len(old) : Range(old[i].blocks) \subseteq Bodies
      /\ \A y \in {p.id : p \in Range(old)} : y \in copied \/ Lives(stack, Len(stack), y)
  <2>1. /\ IsSeq(old) /\ \A i \in 1..Len(old) : Range(old[i].blocks) \subseteq Bodies
        /\ Ids(was) = {p.id : p \in Range(old)}
        /\ \A y \in Ids(was) : y \in copied \/ Lives(stack, Len(stack), y)
    <3>1. Closed(G, copied) /\ IsContext(c) /\ ContextFine(G, copied, c) /\ Knows(stack, copied, c)
      BY <1>4
    <3>2. old = Parents(c) /\ was = [k |-> "renderers", list |-> old]
      BY <1>3, <1>5
    <3> QED BY <3>1, <3>2, ParentsAre
  <2> QED BY <2>1
<1>7. r.id = renderers + 1 /\ Range(r.blocks) \subseteq Bodies
  BY <1>2, <1>3
<1>8. /\ Proper(G, copied, x)
      /\ \A y \in Ids(x) : y = r.id \/ y \in {p.id : p \in Range(old)}
  BY <1>5, <1>6, <1>7, MoreParents
<1>9. PICK H, scope : H = G \union {x} /\ scope = Single(ParentTemplate, x)
  OBVIOUS
<1>10. Closed(H, copied) /\ G \subseteq H /\ x \in H
  BY <1>4, <1>8, <1>9, ClosedAddsOne
<1>11. OfValues(H, scope) /\ \A v : Has(scope, v) => v \in Ids(x)
  BY <1>9, <1>10, SingleIs
<1>12. PICK cs : cs = [ctxs EXCEPT ![Top.ctx] = PutAll(@, scope)]
  OBVIOUS
<1>13. Puts(ctxs, cs, Top.ctx, scope)
  BY <1>4, <1>12, PutIs
<1>14. PICK ctx, todo, end : /\ ctx = Top.ctx /\ todo = files[Node.file]
                             /\ end = [op |-> "extends", id |-> r.id]
  OBVIOUS
<1>15. /\ "op" \in DOMAIN end /\ end.op = "extends" /\ end.id = r.id /\ \A v : ~HandsOn(end, v)
  BY <1>14 DEF HandsOn
<1>16. Runs(H, todo, end)
  BY <1>1, <1>14, <1>15, FileIs DEF Runs, TemplateOps
<1>17. Run(cs, out, <<Frame(cs, todo, ctx, Top.os, end)>>)
  BY <1>3, <1>5, <1>9, <1>12, <1>14, Zenon DEF Extends, Put
<1>18. /\ Contexts(cs) /\ Len(cs) = Len(ctxs) /\ ctx \in 1..Len(cs) /\ Len(cs[ctx].scopes) > 0
  <2>1. ContextFine(H, copied, c)
    BY <1>4, <1>10, ContextStays
  <2>2. PICK y : y = PutAll(c, scope)
    OBVIOUS
  <2>3. Len(y.scopes) = Len(c.scopes)
    BY <1>4, <1>11, <2>1, <2>2, PutAllFine
  <2>4. cs[ctx] = y
    BY <1>3, <1>4, <1>13, <1>14, <2>2, TopIs DEF Puts
  <2> QED BY <1>4, <1>13, <1>14, <2>3, <2>4 DEF Puts
<1>19. PICK st : st = stack'
  OBVIOUS
<1>20. /\ Len(st) = Len(stack) + 1 /\ ctxs' = cs /\ Last(st).ctx = ctx /\ Last(st).end = end
       /\ \A n \in 1..Len(stack) : Same(st[n], stack[n])
  BY <1>1, <1>15, <1>17, <1>18, <1>19, RanIs
<1>21. \A v : Has(scope, v) => v \in copied \/ Lives(st, Len(st), v)
  <2>1. Lives(st, Len(st), r.id)
    BY <1>4, <1>15, <1>20 DEF Lives, Last
  <2>2. PICK k : k = Len(stack)
    OBVIOUS
  <2>3. /\ k \in 0..Len(stack) /\ k <= Len(st) /\ Len(st) \in k..Len(st) /\ Len(st) \in Nat
        /\ (k + 1)..Len(stack) = {} /\ \A n \in 1..k : Same(st[n], stack[n])
    BY <1>4, <1>20, <2>2
  <2>4. ASSUME NEW v, Lives(stack, Len(stack), v)
        PROVE  Lives(st, Len(st), v)
    BY <1>4, <2>3, <2>4, LivesOn
  <2> QED BY <1>6, <1>8, <1>11, <2>1, <2>4
<1>22. /\ Sound(st, cs) /\ Len(cs) <= Len(ctxs)
       /\ \A i \in 1..Len(cs) : cs[i] = IF i = Last(st).ctx THEN PutAll(ctxs[i], scope) ELSE ctxs[i]
  BY <1>4, <1>13, <1>14, <1>18, <1>19, <1>20 DEF ScopesInv, Puts
<1>23. \A i \in 1..Len(cs) : Became(H, copied, st, ctxs, cs, i)
  BY <1>1, <1>10, <1>11, <1>21, <1>22, BecamePut DEF Left
<1>24. Fine(H, stack', ctxs', copied)
  BY <1>1, <1>2, <1>10, <1>14, <1>15, <1>16, <1>17, <1>18, <1>19, <1>23, RunFine
<1> QED BY <1>1, <1>24

\* When the parent is done, the renderer goes; all contexts it is in go, too, but for the
\* scope of the template that extends, and that template is over.
LEMMA EndExtendsFine ==
    ASSUME ScopesInv, ScopesInv', NEW G, Fine(G, stack, ctxs, copied), EndExtends
    PROVE  \E H : Fine(H, stack', ctxs', copied')
<1>1. Top.end.op = "extends" /\ Return(ctxs, out) /\ copied' = copied
  BY DEF EndExtends, Ends, Quiet
<1>2. PICK st, d, k, m : st = stack' /\ d = ctxs' /\ k = Len(stack) - 1 /\ m = Len(stack)
  OBVIOUS
<1>3. /\ Len(st) = k /\ (\A n \in 1..k : st[n] = stack[n]) /\ Last(st) = Caller /\ k \in 1..m
      /\ Len(d) = Top.base /\ \A i \in 1..Top.base : d[i] = ctxs[i] /\ i \in 1..Len(ctxs)
  <2>1. Contexts(ctxs)
    BY TopIs
  <2> QED BY <1>1, <1>2, <2>1, ReturnedIs
<1>4. /\ m \in Nat /\ k = m - 1 /\ m \in 1..m /\ m > 1 /\ Top = stack[m] /\ Caller = stack[k]
      /\ IsFrame(Top) /\ Top.depth \in Nat /\ Top.base \in Nat
      /\ Len(ctxs[Top.ctx].scopes) = Top.depth /\ Context = ctxs[Top.ctx]
  BY <1>1, <1>2, TopIs, CallerIs DEF IsFrame
<1>5. Caller.todo = <<>> /\ Caller.end.op \in TemplateOps /\ Caller.ctx = Top.ctx
  BY <1>1, <1>2, <1>4 DEF Fine, Extending
<1>6. Caller.depth = Top.depth
  <2>1. stack[m].depth = stack[m - 1].depth + (IF stack[m].end.op = "macro" THEN 1 ELSE 0)
    BY <1>2, <1>4, <1>5 DEF ScopesInv, Sound, Deep
  <2>2. Caller.depth \in Nat
    BY <1>1, CallerIs DEF IsFrame
  <2> QED BY <1>1, <1>4, <2>1, <2>2
<1>7. \A n \in 1..k : n \in 1..m /\ n \in Nat
  BY <1>3, <1>4
<1>8. /\ Closed(G, copied) /\ \A i \in 1..Len(d) : ContextFine(G, copied, d[i])
  BY <1>3 DEF Fine
<1>9. ASSUME NEW n \in 1..Len(st)
      PROVE  FrameFine(G, st[n]) /\ Handed(st, copied, n) /\ Extending(st, n)
  <2>1. n \in 1..k /\ n \in 1..m /\ st[n] = stack[n]
    BY <1>3, <1>7
  <2>2. FrameFine(G, stack[n]) /\ Handed(stack, copied, n) /\ Extending(stack, n)
    BY <1>2, <2>1 DEF Fine
  <2>3. \A l \in 1..n : st[l] = stack[l]
    BY <1>3, <1>4, <2>1
  <2>4. n > 1 => st[n - 1] = stack[n - 1]
    BY <1>4, <2>1, <2>3
  <2> QED BY <2>1, <2>2, <2>3, <2>4 DEF Handed, Lives, Extending
<1>10. ASSUME NEW i \in 1..Len(d), NEW j \in 1..Len(d[i].scopes), NEW x, Has(d[i].scopes[j], x)
       PROVE  x \in copied \/ Held(st, x, i, j) \/ Over(st, i, j)
  <2>1. i \in 1..Top.base /\ i \in 1..Len(ctxs) /\ d[i] = ctxs[i]
    BY <1>3
  <2>2. x \in copied \/ Held(stack, x, i, j) \/ Over(stack, i, j)
    BY <1>10, <2>1 DEF Fine, Sourced
  <2>3. i = Top.ctx /\ j = Top.depth => Over(st, i, j)
    BY <1>3, <1>5, <1>6 DEF Over
  <2>4. CASE Over(stack, i, j)
    BY <1>2, <1>4, <2>3, <2>4 DEF Over, Last
  <2>5. CASE Held(stack, x, i, j)
    <3>1. PICK n \in 1..m :
             /\ stack[n].end.op = "extends" /\ stack[n].end.id = x
             /\ i > stack[n].base \/ (i = stack[n].ctx /\ j >= stack[n].depth)
      BY <1>2, <2>5 DEF Held
    <3>2. CASE n \in 1..k
      BY <1>3, <3>1, <3>2 DEF Held
    <3>3. CASE n = m
      <4>1. i \in Nat /\ i <= Top.base
        BY <1>4, <2>1
      <4>2. i = Top.ctx /\ j >= Top.depth
        BY <1>4, <3>1, <3>3, <4>1
      <4>3. j \in Nat /\ j <= Top.depth
        BY <1>4, <2>1, <4>2
      <4> QED BY <1>4, <2>3, <4>2, <4>3
    <3> QED BY <1>4, <3>2, <3>3
  <2> QED BY <2>2, <2>4, <2>5
<1>11. Fine(G, st, d, copied)
  BY <1>8, <1>9, <1>10 DEF Fine, Sourced
<1> QED BY <1>1, <1>2, <1>11
-----------------------------------------------------------------------------
(* Include and import. *)

\* The include with one name less.
LEMMA NextIs ==
    ASSUME ScopesInv, NEW G, Fine(G, stack, ctxs, copied), Ends("include")
    PROVE  /\ IsSeq(NextName) /\ Len(NextName) = Len(stack)
           /\ Another(G, copied, NextName, Len(stack))
           /\ NextName[Len(stack)].end.op = "include" /\ NextName[Len(stack)].ctx = Top.ctx
           /\ \A n \in 1..(Len(stack) - 1) : Same(NextName[n], stack[n])
<1>1. /\ IsSeq(stack) /\ Len(stack) \in Nat /\ Len(stack) > 0 /\ Len(stack) \in 1..Len(stack)
      /\ Top = stack[Len(stack)] /\ IsFrame(Top) /\ Top.end.op = "include"
  BY TopIs DEF Ends
<1>2. PICK names, t : names = Tail(Top.end.names) /\ t = Top.end
  OBVIOUS
<1>3. PICK end : end = [t EXCEPT !.names = names]
  OBVIOUS
<1>4. end.op = "include"
  BY <1>1, <1>2, <1>3 DEF IsFrame
<1>5. PICK f, g : f = [Top EXCEPT !.end = end] /\ g = Top
  OBVIOUS
<1>6. f.ctx = g.ctx /\ f.depth = g.depth /\ f.end = end /\ f.todo = g.todo
  BY <1>1, <1>5 DEF IsFrame
<1>7. PICK st, m : st = NextName /\ m = Len(stack)
  OBVIOUS
<1>8. st = [stack EXCEPT ![m] = f]
  BY <1>1, <1>2, <1>3, <1>5, <1>7 DEF NextName
<1>9. DOMAIN stack = 1..m
  BY <1>1, <1>7 DEF IsSeq
<1>10. /\ st = [i \in 1..m |-> st[i]]
       /\ \A i \in 1..m : st[i] = IF i = m THEN f ELSE stack[i]
  BY <1>8, <1>9
<1>11. IsSeq(st) /\ Len(st) = m
  BY <1>1, <1>7, <1>10, AsLong
<1>12. \A n \in 1..(m - 1) : n \in 1..m /\ n # m
  BY <1>1, <1>7
<1>13. st[m] = f
  BY <1>1, <1>7, <1>10
<1>14. FrameFine(G, f)
  <2>1. FrameFine(G, g)
    BY <1>1, <1>5 DEF Fine
  <2>2. g.end.op = "include"
    BY <1>1, <1>5
  <2> QED BY <1>4, <1>6, <2>1, <2>2 DEF FrameFine, Runs, TemplateOps
<1>15. Another(G, copied, st, m)
  BY <1>4, <1>6, <1>13, <1>14 DEF Another, Handed, HandsOn, Extending
<1>16. \A n \in 1..(m - 1) : Same(st[n], stack[n])
  BY <1>10, <1>12 DEF Same
<1> QED BY <1>4, <1>5, <1>6, <1>7, <1>11, <1>13, <1>15, <1>16

\* A name of no file.
LEMMA TryMissingFine ==
    ASSUME ScopesInv, ScopesInv', NEW G, Fine(G, stack, ctxs, copied), TryMissing
    PROVE  \E H : Fine(H, stack', ctxs', copied')
<1>1. /\ Ends("include") /\ stack' = NextName /\ ctxs' = ctxs /\ copied' = copied /\ Busy
  BY DEF TryMissing, Quiet, Ends, Busy, TemplateOps
<1>2. PICK st, k : st = NextName /\ k = Len(stack) - 1
  OBVIOUS
<1>3. /\ Len(st) = Len(stack) /\ Another(G, copied, st, Len(stack))
      /\ \A n \in 1..k : Same(st[n], stack[n])
  BY <1>1, <1>2, NextIs
<1>4. /\ Len(stack) \in Nat /\ Len(stack) > 0 /\ Top = stack[Len(stack)] /\ Frames(stack)
      /\ Top.end.op = "include"
  BY <1>1, TopIs DEF ScopesInv, Sound, Ends
<1>5. /\ k \in 0..Len(stack) /\ k <= Len(st) /\ (k + 1)..Len(st) = {Len(stack)}
      /\ (k + 1)..Len(stack) = {Len(stack)}
  BY <1>2, <1>3, <1>4
<1>6. Sound(st, ctxs)
  BY <1>1, <1>2 DEF ScopesInv
<1>7. \A i \in 1..Len(ctxs) : Became(G, copied, st, ctxs, ctxs, i)
  BY <1>1, BecameSame
<1>8. Closed(G, copied)
  BY DEF Fine
<1>9. Fine(G, st, ctxs, copied)
  BY <1>3, <1>4, <1>5, <1>6, <1>7, <1>8, Steps
<1> QED BY <1>1, <1>2, <1>9

\* One of a file, whose template gets a context of its own.
LEMMA TryFileFine ==
    ASSUME ScopesInv, ScopesInv', NEW G, Fine(G, stack, ctxs, copied), files \in Programs, TryFile
    PROVE  \E H : Fine(H, stack', ctxs', copied')
<1>1. /\ Ends("include") /\ copied' = copied /\ Busy /\ Head(Top.end.names) \in DOMAIN files
  BY DEF TryFile, Quiet, Ends, Busy, TemplateOps
<1>2. PICK with, c : with = Top.end.node.withContext /\ c = Context
  OBVIOUS
<1>3. PICK z, x : z = Clone(c, with) /\ x = IF with THEN EnterScope(z, Empty) ELSE z
  OBVIOUS
<1>4. PICK cs, ctx, todo : cs = Append(ctxs, x) /\ ctx = Len(cs) /\ todo = files[Head(Top.end.names)]
  OBVIOUS
<1>5. PICK end : end = [op |-> "included", withContext |-> with]
  OBVIOUS
<1>6. "op" \in DOMAIN end /\ end.op = "included" /\ \A v : ~HandsOn(end, v)
  BY <1>5 DEF HandsOn
<1>7. PICK f, a : f = Frame(cs, todo, ctx, Top.os, end) /\ a = NextName
  OBVIOUS
<1>8. stack' = Append(a, f) /\ ctxs' = cs
  BY <1>2, <1>3, <1>4, <1>5, <1>7 DEF TryFile
<1>9. /\ IsContext(c) /\ ContextFine(G, copied, c) /\ Len(c.scopes) > 0 /\ Knows(stack, copied, c)
      /\ Closed(G, copied) /\ Contexts(ctxs) /\ Len(ctxs) \in Nat
  BY <1>1, <1>2, TopIs, TopFine, Known
<1>10. /\ IsContext(z) /\ ContextFine(G, copied, z) /\ Len(z.scopes) > 0
       /\ \A j \in 1..Len(z.scopes) : \A v :
             Has(z.scopes[j], v) => j \in 1..Len(c.scopes) /\ Has(c.scopes[j], v)
  BY <1>3, <1>9, CloneIs, CloneFine
<1>11. /\ IsContext(x) /\ ContextFine(G, copied, x) /\ Len(x.scopes) > 0
       /\ \A j \in 1..Len(x.scopes) : \A v :
             Has(x.scopes[j], v) => j \in 1..Len(z.scopes) /\ Has(z.scopes[j], v)
  <2>1. CASE ~with
    BY <1>3, <1>10, <2>1
  <2>2. CASE with
    <3>1. PICK none : none = Empty
      OBVIOUS
    <3>2. OfValues(G, none) /\ \A v : ~Has(none, v)
      BY <3>1, EmptyIs
    <3>3. x = EnterScope(z, none) /\ IsContext(x)
      BY <1>3, <1>10, <2>2, <3>1, EnterScopeIs
    <3>4. /\ ContextFine(G, copied, x) /\ Len(x.scopes) = Len(z.scopes) + 1
          /\ \A j \in 1..Len(x.scopes) : \A v : Has(x.scopes[j], v) =>
                \/ j \in 1..Len(z.scopes) /\ Has(z.scopes[j], v)
                \/ j = Len(x.scopes) /\ Has(none, v)
      BY <1>10, <3>2, <3>3, EnterScopeFine
    <3>5. Len(z.scopes) \in Nat
      BY <1>10 DEF IsContext, IsSeq
    <3> QED BY <3>2, <3>3, <3>4, <3>5
  <2> QED BY <2>1, <2>2
<1>12. Contexts(cs) /\ Len(cs) = Len(ctxs) + 1 /\ cs[ctx] = x /\ ctx \in 1..Len(cs)
  <2>1. Contexts(cs) /\ Len(cs) = Len(ctxs) + 1 /\ cs[Len(ctxs) + 1] = x
    BY <1>4, <1>9, <1>11, OneMore DEF Grows
  <2> QED BY <1>4, <1>9, <2>1
<1>13. /\ f.todo = todo /\ f.end = end /\ f.depth = Len(x.scopes)
  BY <1>6, <1>7, <1>12, FrameIs
<1>14. FrameFine(G, f)
  BY <1>1, <1>4, <1>6, <1>11, <1>13, FileIs DEF FrameFine, Runs, TemplateOps
<1>15. PICK k, m, st : k = Len(stack) - 1 /\ m = Len(stack) /\ st = Append(a, f)
  OBVIOUS
<1>16. /\ m \in Nat /\ m > 0 /\ k = m - 1 /\ k \in Nat /\ k \in 0..m /\ m = k + 1
       /\ Top = stack[m] /\ Frames(stack) /\ Top.end.op = "include"
  BY <1>1, <1>15, TopIs DEF ScopesInv, Sound, Ends
<1>17. /\ IsSeq(a) /\ Len(a) = m /\ Another(G, copied, a, m) /\ a[m].end.op = "include"
       /\ \A n \in 1..k : Same(a[n], stack[n])
  BY <1>1, <1>7, <1>15, NextIs
<1>18. /\ Len(st) = m + 1 /\ st[m + 1] = f /\ \A n \in 1..m : st[n] = a[n]
  BY <1>15, <1>17, Appends
<1>19. /\ \A n \in 1..k : Same(st[n], stack[n]) /\ st[n] = a[n]
       /\ \A n \in (k + 1)..Len(st) : n = m \/ n = m + 1
       /\ m \in 1..m /\ k <= Len(st) /\ (k + 1)..m = {m}
  BY <1>16, <1>17, <1>18
<1>20. Another(G, copied, st, m)
  <2>1. \A n \in 1..m : st[n] = a[n]
    BY <1>18
  <2>2. st[m] = a[m]
    BY <1>19, <2>1
  <2> QED BY <1>17, <2>1, <2>2 DEF Another, Handed, Lives, Extending
<1>21. Another(G, copied, st, m + 1)
  BY <1>6, <1>13, <1>14, <1>18 DEF Another, Handed, Extending
<1>22. \A n \in (k + 1)..Len(st) : Another(G, copied, st, n) /\ st[n].end.op # "extends"
  BY <1>6, <1>13, <1>17, <1>18, <1>19, <1>20, <1>21
<1>23. Knows(st, copied, x)
  <2>1. \A n \in (k + 1)..m : stack[n].end.op # "extends"
    BY <1>16, <1>19
  <2>2. Len(st) \in k..Len(st) /\ Len(st) \in Nat
    BY <1>16, <1>18
  <2>3. ASSUME NEW v, Lives(stack, Len(stack), v)
        PROVE  Lives(st, Len(st), v)
    BY <1>15, <1>16, <1>19, <2>1, <2>2, <2>3, LivesOn
  <2> QED BY <1>9, <1>10, <1>11, <2>3 DEF Knows
<1>24. \A i \in 1..Len(cs) : Became(G, copied, st, ctxs, cs, i)
  <2>1. Len(st) \in Nat /\ k \in 0..Len(stack)
    BY <1>15, <1>16, <1>18
  <2>2. /\ \A n \in 1..k : Same(st[n], stack[n])
        /\ \A n \in (k + 1)..Len(st) : st[n].end.op # "extends"
    BY <1>19, <1>22
  <2> QED BY <1>1, <1>4, <1>11, <1>19, <1>23, <2>1, <2>2, GrownOne
<1>25. Sound(st, cs)
  BY <1>8, <1>15 DEF ScopesInv
<1>26. Fine(G, st, cs, copied)
  <2>1. k \in 0..Len(stack) /\ k <= Len(st) /\ \A n \in 1..k : Same(st[n], stack[n])
    BY <1>15, <1>16, <1>19
  <2>2. \A n \in (k + 1)..Len(st) : Another(G, copied, st, n)
    BY <1>22
  <2>3. \A n \in (k + 1)..Len(stack) : stack[n].end.op # "extends"
    BY <1>15, <1>16, <1>19
  <2> QED BY <1>9, <1>16, <1>24, <1>25, <2>1, <2>2, <2>3, Steps
<1> QED BY <1>1, <1>8, <1>15, <1>26

\* The template is over, and so is the include; what its scope has in it is copied.
LEMMA EndIncludedFine ==
    ASSUME ScopesInv, ScopesInv', NEW G, Fine(G, stack, ctxs, copied), EndIncluded
    PROVE  \E H : Fine(H, stack', ctxs', copied')
<1>1. Top.end.op = "included"
  BY DEF EndIncluded, Ends
<1>2. PICK c, scope : /\ c = Context
                      /\ scope = IF Top.end.withContext THEN CurrentScope(c) ELSE Empty
  OBVIOUS
<1>3. PICK cp : cp = copied \union RenderersIn(scope)
  OBVIOUS
<1>4. copied \subseteq cp /\ (\A x : Has(scope, x) => x \in cp) /\ copied' = cp
  BY <1>2, <1>3, RenderersAre DEF EndIncluded
<1>5. Closed(G, copied) /\ ContextFine(G, copied, c) /\ Len(c.scopes) > 0 /\ IsSeq(c.scopes)
  <2>1. Context = ctxs[Top.ctx] /\ Top.ctx \in 1..Len(ctxs) /\ IsSeq(Context.scopes)
    BY TopIs
  <2> QED BY <1>2, <2>1, TopFine DEF Fine
<1>6. Closed(G, cp)
  BY <1>4, <1>5, ClosedStays
<1>7. OfValues(G, scope)
  <2>1. Len(c.scopes) \in 1..Len(c.scopes)
    BY <1>5 DEF IsSeq
  <2>2. OfValues(G, CurrentScope(c))
    BY <1>5, <2>1 DEF ContextFine, CurrentScope, Last
  <2> QED BY <1>2, <2>2, EmptyIs
<1>8. PICK m, n, k : m = Len(stack) /\ n = m - 1 /\ k = n - 1
  OBVIOUS
<1>9. /\ m \in Nat /\ n \in 1..m /\ n \in Nat /\ Caller = stack[n] /\ Top = stack[m]
      /\ Caller.ctx \in 1..Len(ctxs) /\ Caller.end.op = "include" /\ Frames(stack)
  BY <1>1, <1>8, TopIs, CallerIs DEF ScopesInv, Sound
<1>10. n > 1 /\ stack[n].ctx = stack[k].ctx
  BY <1>8, <1>9 DEF ScopesInv, Sound, Ordered
<1>11. /\ k \in 1..m /\ k \in 1..(n - 1) /\ k \in Nat /\ k + 1 = n /\ n \in 1..(m - 1)
  BY <1>8, <1>9, <1>10
<1>12. PICK b : b = stack[n].base
  OBVIOUS
<1>13. b \in 0..Len(ctxs) /\ Top.ctx > b /\ Len(ctxs) \in Nat
  <2>1. Top.ctx > Top.base
    BY <1>1, <1>8, <1>9, <1>11 DEF ScopesInv, Sound, Ordered
  <2>2. b <= Top.base /\ b <= Len(ctxs)
    BY <1>8, <1>9, <1>11, <1>12 DEF ScopesInv, Sound, Nested
  <2>3. b \in Nat /\ Top.base \in Nat /\ Top.ctx \in Nat /\ Len(ctxs) \in Nat
    BY <1>8, <1>9, <1>12, TopIs DEF Frames, IsFrame
  <2> QED BY <2>1, <2>2, <2>3
<1>14. PICK cs : cs = [ctxs EXCEPT ![Caller.ctx] = PutAll(@, scope)]
  OBVIOUS
<1>15. Puts(ctxs, cs, Caller.ctx, scope)
  BY <1>9, <1>14, PutIs
<1>16. PICK st, d : st = SubSeq(stack, 1, k) /\ d = SubSeq(cs, 1, b)
  OBVIOUS
<1>17. stack' = st /\ ctxs' = d
  <2>1. ReturnFrom(n, cs, out)
    BY <1>2, <1>8, <1>14 DEF EndIncluded
  <2> QED BY <1>8, <1>12, <1>16, <2>1 DEF ReturnFrom
<1>18. Sound(st, d)
  BY <1>17 DEF ScopesInv
<1>19. /\ Len(st) = k /\ (\A l \in 1..k : st[l] = stack[l]) /\ Last(st).ctx = Caller.ctx
  <2>1. Len(st) = k /\ \A l \in 1..k : st[l] = stack[l]
    <3>1. IsSeq(stack) /\ k \in 0..Len(stack)
      BY <1>8, <1>9, <1>11, TopIs
    <3> QED BY <1>16, <3>1, Cuts
  <2> QED BY <1>9, <1>10, <1>11, <2>1 DEF Last
<1>20. /\ Len(d) = b /\ (\A i \in 1..b : d[i] = cs[i]) /\ \A i \in 1..b : i \in 1..Len(ctxs)
  <2>1. IsSeq(cs) /\ b \in 0..Len(cs)
    BY <1>13, <1>15 DEF Puts, Contexts
  <2> QED BY <1>13, <1>16, <2>1, Cuts
<1>21. \A i \in 1..Len(d) : Left(cp, i)
  BY <1>9, <1>13, <1>20 DEF Left
<1>22. \A i \in 1..Len(d) : d[i] = IF i = Last(st).ctx THEN PutAll(ctxs[i], scope) ELSE ctxs[i]
  BY <1>15, <1>19, <1>20 DEF Puts
<1>23. \A i \in 1..Len(d) : Became(G, cp, st, ctxs, d, i)
  <2>1. Len(d) <= Len(ctxs)
    BY <1>13, <1>20
  <2> QED BY <1>4, <1>7, <1>18, <1>21, <1>22, <2>1, BecamePut
<1>24. \A l \in (k + 1)..Len(stack) : stack[l].end.op # "extends"
  <2>1. \A l \in (k + 1)..m : l = n \/ l = m
    BY <1>8, <1>9, <1>11
  <2> QED BY <1>1, <1>8, <1>9, <2>1
<1>25. Fine(G, st, d, cp)
  BY <1>4, <1>6, <1>8, <1>11, <1>16, <1>18, <1>23, <1>24, CutFine
<1> QED BY <1>4, <1>17, <1>25

\* The file an import keeps is there.
LEMMA KeptIs ==
    ASSUME \A id \in DOMAIN kept : kept[id] \in DOMAIN files, Import
    PROVE  /\ \A id \in DOMAIN kept' : kept'[id] \in DOMAIN files
           /\ Node.id \in DOMAIN kept'
<1>1. PICK name, id : name = NameOf(Context, Node.file) /\ id = Node.id
  OBVIOUS
<1>2. (id \in DOMAIN kept \/ name \in DOMAIN files) /\ kept' = Merge(kept, Single(id, name))
  BY <1>1 DEF Import
<1> QED BY <1>1, <1>2 DEF Merge, Single

\* Import makes two contexts, of what is there.
LEMMA ImportFine ==
    ASSUME ScopesInv, ScopesInv', NEW G, Fine(G, stack, ctxs, copied), files \in Programs,
           \A id \in DOMAIN kept : kept[id] \in DOMAIN files, Import
    PROVE  \E H : Fine(H, stack', ctxs', copied')
<1>1. Top.todo # <<>> /\ copied' = copied /\ Busy
  BY DEF Import, IsNext, Busy
<1>2. PICK c, none : c = Context /\ none = Empty
  OBVIOUS
<1>3. PICK z, x, y : /\ z = Clone(c, Node.withContext)
                     /\ x = EnterScope(z, none) /\ y = EnterScope(x, none)
  OBVIOUS
<1>4. /\ IsContext(c) /\ ContextFine(G, copied, c) /\ Len(c.scopes) > 0 /\ Knows(stack, copied, c)
      /\ Closed(G, copied) /\ Contexts(ctxs) /\ Len(ctxs) \in Nat /\ Len(stack) \in Nat
  BY <1>1, <1>2, TopIs, TopFine, Known
<1>5. OfValues(G, none) /\ \A v : ~Has(none, v)
  BY <1>2, EmptyIs
<1>6. IsContext(z) /\ ContextFine(G, copied, z) /\ Knows(stack, copied, z)
  <2>1. /\ IsContext(z) /\ ContextFine(G, copied, z)
        /\ \A j \in 1..Len(z.scopes) : \A v :
              Has(z.scopes[j], v) => j \in 1..Len(c.scopes) /\ Has(c.scopes[j], v)
    BY <1>3, <1>4, CloneIs, CloneFine
  <2> QED BY <1>4, <2>1 DEF Knows
<1>7. ASSUME NEW u, IsContext(u), ContextFine(G, copied, u), Knows(stack, copied, u),
             NEW w, w = EnterScope(u, none)
      PROVE  IsContext(w) /\ ContextFine(G, copied, w) /\ Knows(stack, copied, w) /\ Len(w.scopes) > 0
  <2>1. /\ ContextFine(G, copied, w) /\ Len(w.scopes) = Len(u.scopes) + 1
        /\ \A j \in 1..Len(w.scopes) : \A v : Has(w.scopes[j], v) =>
              \/ j \in 1..Len(u.scopes) /\ Has(u.scopes[j], v)
              \/ j = Len(w.scopes) /\ Has(none, v)
    BY <1>5, <1>7, EnterScopeFine
  <2>2. IsContext(w)
    BY <1>7, EnterScopeIs
  <2>3. Knows(stack, copied, w)
    BY <1>5, <1>7, <2>1 DEF Knows
  <2>4. Len(w.scopes) > 0
    <3>1. Len(u.scopes) \in Nat
      BY <1>7 DEF IsContext, IsSeq
    <3> QED BY <2>1, <3>1
  <2> QED BY <2>1, <2>2, <2>3, <2>4
<1>8. IsContext(x) /\ ContextFine(G, copied, x) /\ Knows(stack, copied, x)
  BY <1>3, <1>6, <1>7
<1>9. IsContext(y) /\ ContextFine(G, copied, y) /\ Knows(stack, copied, y) /\ Len(y.scopes) > 0
  BY <1>3, <1>7, <1>8
<1>10. PICK cs1, cs : cs1 = Append(ctxs, x) /\ cs = Append(cs1, y)
  OBVIOUS
<1>11. /\ Grows(ctxs, cs1) /\ Contexts(cs1) /\ Len(cs1) = Len(ctxs) + 1
       /\ cs1[Len(ctxs) + 1] = x
  BY <1>4, <1>8, <1>10, OneMore DEF Grows
<1>12. /\ Grows(cs1, cs) /\ Contexts(cs) /\ Len(cs) = Len(cs1) + 1 /\ cs[Len(cs1) + 1] = y
  BY <1>9, <1>10, <1>11, OneMore DEF Grows
<1>13. PICK a, b : a = Len(ctxs) /\ b = Len(cs)
  OBVIOUS
<1>14. a \in Nat /\ Len(cs1) = a + 1 /\ b = a + 2 /\ (a + 1)..b = {a + 1, b} /\ b \in 1..b
  <2>1. a \in Nat /\ Len(cs1) = a + 1 /\ b = a + 1 + 1
    BY <1>4, <1>11, <1>12, <1>13
  <2> QED BY <2>1
<1>15. cs[a + 1] = x /\ cs[b] = y /\ \A i \in 1..a : cs[i] = ctxs[i]
  <2>1. \A i \in 1..(a + 1) : cs[i] = cs1[i]
    BY <1>12, <1>14 DEF Grows
  <2>2. a + 1 \in 1..(a + 1) /\ \A i \in 1..a : i \in 1..(a + 1)
    BY <1>14
  <2>3. \A i \in 1..a : cs1[i] = ctxs[i]
    BY <1>11, <1>13 DEF Grows
  <2>4. cs1[a + 1] = x /\ cs[a + 1 + 1] = y /\ b = a + 1 + 1
    BY <1>11, <1>12, <1>13, <1>14
  <2> QED BY <2>1, <2>2, <2>3, <2>4
<1>16. Grows(ctxs, cs)
  BY <1>12, <1>13, <1>14, <1>15 DEF Grows
<1>17. cs = ctxs \o <<x, y>>
  BY <1>4, <1>10, ConcatsTwo DEF Contexts
<1>18. PICK outs, todo, end :
          /\ outs = Append(out, <<>>) /\ todo = files[kept'[Node.id]]
          /\ end = [op |-> "import", node |-> Node, scope |-> NameOf(Context, Node.file)]
  OBVIOUS
<1>19. "op" \in DOMAIN end /\ end.op = "import" /\ \A v : ~HandsOn(end, v)
  BY <1>18 DEF HandsOn
<1>20. Run(cs, outs, <<Frame(cs, todo, Len(cs), Len(outs), end)>>)
  BY <1>2, <1>3, <1>17, <1>18, Zenon DEF Import
<1>21. Runs(G, todo, end)
  <2>1. kept'[Node.id] \in DOMAIN files
    BY KeptIs
  <2>2. PICK file : file = kept'[Node.id]
    OBVIOUS
  <2>3. IsSeq(todo) /\ IsTemplate(todo)
    BY <1>18, <2>1, <2>2, FileIs
  <2> QED BY <1>19, <2>3 DEF Runs, TemplateOps
<1>22. PICK ctx, os, st, k : ctx = Len(cs) /\ os = Len(outs) /\ st = stack' /\ k = Len(stack)
  OBVIOUS
<1>23. /\ Contexts(cs) /\ ctx \in 1..Len(cs) /\ Len(cs[ctx].scopes) > 0
       /\ Run(cs, outs, <<Frame(cs, todo, ctx, os, end)>>)
  BY <1>9, <1>12, <1>13, <1>14, <1>15, <1>20, <1>22
<1>24. /\ Len(st) = k + 1 /\ k \in Nat /\ \A n \in 1..k : Same(st[n], stack[n])
       /\ \A n \in (k + 1)..Len(st) : st[n].end.op # "extends"
  <2>1. /\ Len(stack') = Len(stack) + 1 /\ Len(stack) \in Nat /\ Last(stack').end = end
        /\ \A n \in 1..Len(stack) : Same(stack'[n], stack[n])
        /\ \A n \in (Len(stack) + 1)..Len(stack') : stack'[n] = Last(stack')
    BY <1>1, <1>19, <1>23, RanIs
  <2> QED BY <1>19, <1>22, <2>1
<1>25. /\ Len(st) \in Nat /\ k \in 0..Len(stack) /\ k <= Len(st) /\ Len(st) \in k..Len(st)
       /\ (k + 1)..Len(stack) = {}
  BY <1>22, <1>24
<1>26. ASSUME NEW v, Lives(stack, Len(stack), v)
       PROVE  Lives(st, Len(st), v)
  BY <1>4, <1>24, <1>25, <1>26, LivesOn
<1>27. \A i \in (Len(ctxs) + 1)..Len(cs) : ContextFine(G, copied, cs[i]) /\ Knows(st, copied, cs[i])
  <2>1. Knows(st, copied, x) /\ Knows(st, copied, y)
    BY <1>8, <1>9, <1>26 DEF Knows
  <2> QED BY <1>8, <1>9, <1>13, <1>14, <1>15, <2>1
<1>28. \A i \in 1..Len(cs) : Became(G, copied, st, ctxs, cs, i)
  BY <1>1, <1>16, <1>24, <1>25, <1>27, GrownFine
<1>29. Fine(G, stack', ctxs', copied)
  BY <1>1, <1>4, <1>19, <1>21, <1>22, <1>23, <1>28, RunFine
<1> QED BY <1>1, <1>29

\* What is left of a value that has been moved.
LEMMA MovedProper ==
    ASSUME NEW G, NEW cp, Closed(G, cp), NEW x \in G
    PROVE  Proper(G, cp, MovedFrom(x)) /\ Ids(MovedFrom(x)) = {}
<1>1. Proper(G, cp, x)
  BY DEF Closed
<1>2. PICK none, empty : none = <<>> /\ empty = Empty
  OBVIOUS
<1>3. CASE x.k = "data"
  <2>1. MovedFrom(x) = Data(none)
    BY <1>2, <1>3 DEF MovedFrom, IsMacro
  <2> QED BY <2>1, DataProper
<1>4. CASE IsMacro(x)
  <2>1. PICK y : y = [x EXCEPT !.live = FALSE]
    OBVIOUS
  <2>2. /\ x.k = "macro" => y = [k |-> "macro", node |-> x.node, live |-> FALSE]
        /\ x.k = "imported" => y = [k |-> "imported", fn |-> x.fn, scope |-> x.scope, live |-> FALSE]
    BY <1>1, <2>1 DEF Proper
  <2>3. y.k = x.k /\ y.k \in {"macro", "imported"}
    BY <1>4, <2>2 DEF IsMacro
  <2>4. Proper(G, cp, y) /\ Ids(y) = {}
    BY <1>1, <2>2, <2>3 DEF Proper, Ids
  <2>5. MovedFrom(x) = y
    BY <1>4, <2>1 DEF MovedFrom, IsMacro
  <2> QED BY <2>4, <2>5
<1>5. CASE x.k = "map"
  <2>1. MovedFrom(x) = MapOf(empty)
    BY <1>2, <1>5 DEF MovedFrom, IsMacro
  <2>2. \A v \in DOMAIN empty : empty[v] \in G
    BY <1>2 DEF Empty
  <2> QED BY <2>1, <2>2, MapProper
<1>6. CASE x.k = "renderers"
  <2>1. PICK y : y = [x EXCEPT !.list = none]
    OBVIOUS
  <2>2. y = [k |-> "renderers", list |-> none]
    BY <1>1, <1>6, <2>1 DEF Proper
  <2>3. y.k = "renderers" /\ y.list = none
    BY <2>2
  <2>4. IsSeq(none) /\ Len(none) = 0 /\ DOMAIN none = {}
    BY <1>2 DEF IsSeq
  <2>5. Proper(G, cp, y) /\ Ids(y) = {}
    BY <2>2, <2>3, <2>4 DEF Proper, Ids, Range
  <2>6. MovedFrom(x) = y
    BY <1>2, <1>6, <2>1 DEF MovedFrom, IsMacro
  <2> QED BY <2>5, <2>6
<1>7. CASE x.k = "module"
  <2>1. PICK y : y = [k |-> "null"]
    OBVIOUS
  <2>2. MovedFrom(x) = y /\ y.k = "null"
    BY <1>7, <2>1 DEF MovedFrom, IsMacro
  <2> QED BY <2>2 DEF Proper, Ids
<1>8. CASE x.k \notin {"data", "map", "renderers", "module"} /\ ~IsMacro(x)
  BY <1>1, <1>8 DEF MovedFrom, Ids
<1> QED BY <1>3, <1>4, <1>5, <1>6, <1>7, <1>8

\* What an import keeps of its template's scope, of which all renderers count as copied.
LEMMA ModuleProper ==
    ASSUME NEW G, NEW cp, Closed(G, cp), NEW scope, OfValues(G, scope),
           \A x : Has(scope, x) => x \in cp, NEW node
    PROVE  \E H : /\ G \subseteq H /\ Closed(H, cp)
                  /\ Module(node, scope) \in H /\ Ids(Module(node, scope)) = {}
<1>1. PICK taken, S, left, x :
         /\ taken = Imports(node, scope)
         /\ S = {MovedFrom(scope[v]) : v \in DOMAIN scope}
         /\ left = [v \in DOMAIN scope |-> IF v \in taken THEN MovedFrom(scope[v]) ELSE scope[v]]
         /\ x = Module(node, scope)
  OBVIOUS
<1>2. ASSUME NEW v \in DOMAIN scope
      PROVE  Proper(G, cp, MovedFrom(scope[v])) /\ Ids(MovedFrom(scope[v])) = {}
  BY MovedProper DEF OfValues
<1>3. PICK K : K = G \union S
  OBVIOUS
<1>4. Closed(K, cp)
  <2>1. \A u \in S : Proper(G, cp, u)
    BY <1>1, <1>2
  <2> QED BY <1>3, <2>1, ClosedAdds
<1>5. ASSUME NEW v \in DOMAIN scope
      PROVE  left[v] \in K /\ Ids(left[v]) \subseteq cp
  <2>1. scope[v] \in G /\ Ids(scope[v]) \subseteq cp
    BY DEF OfValues, Has
  <2>2. MovedFrom(scope[v]) \in S
    BY <1>1
  <2> QED BY <1>1, <1>2, <1>3, <2>1, <2>2
<1>6. x = [k |-> "module", withContext |-> node.withContext, vars |-> left]
  BY <1>1 DEF Module
<1>7. x.k = "module" /\ x.vars = left /\ DOMAIN left = DOMAIN scope
  BY <1>1, <1>6
<1>8. Proper(K, cp, x) /\ Ids(x) = {}
  BY <1>5, <1>7 DEF Proper, Ids
<1>9. PICK H : H = K \union {x}
  OBVIOUS
<1>10. Closed(H, cp) /\ K \subseteq H /\ x \in H
  BY <1>4, <1>8, <1>9, ClosedAddsOne
<1> QED BY <1>1, <1>3, <1>8, <1>10

\* What it hands out: values, and its macros in macros of their own.
LEMMA NamedProper ==
    ASSUME NEW G, NEW cp, Closed(G, cp), NEW scope, OfValues(G, scope),
           \A x : Has(scope, x) => x \in cp, NEW node, NEW name
    PROVE  \E H : /\ G \subseteq H /\ Closed(H, cp) /\ OfValues(H, Named(node, scope, name))
                  /\ \A x : Has(Named(node, scope, name), x) => x \in cp
<1> DEFINE taken == Imports(node, scope)
           alias(v) == IF node.namespace = "none" THEN node.names[v] ELSE v
           wrap(v) == [k |-> "imported", fn |-> scope[v], scope |-> name, live |-> TRUE]
           imported(v) == IF IsMacro(scope[v]) THEN wrap(v) ELSE scope[v]
           S == {wrap(v) : v \in taken}
           H == G \union S
           named == [a \in {alias(v) : v \in taken} |-> imported(CHOOSE v \in taken : alias(v) = a)]
<1>1. Named(node, scope, name) = named
  BY Zenon DEF Named
<1>2. taken \subseteq DOMAIN scope
  BY DEF Imports
<1>3. \A a \in DOMAIN named : \E v \in taken : named[a] = imported(v)
  <2> HIDE DEF alias, imported, taken
  <2> QED OBVIOUS
<1> HIDE DEF named, taken
<1>4. ASSUME NEW v \in taken
      PROVE  Proper(G, cp, wrap(v)) /\ Ids(wrap(v)) = {}
  <2>1. PICK u : u = wrap(v)
    OBVIOUS
  <2>2. u.k = "imported" /\ u.fn = scope[v] /\ u.scope = name /\ u.live = TRUE
    BY <2>1
  <2>3. scope[v] \in G
    BY <1>2 DEF OfValues
  <2> QED BY <2>1, <2>2, <2>3 DEF Proper, Ids
<1> HIDE DEF wrap
<1>5. Closed(H, cp)
  <2>1. \A u \in S : Proper(G, cp, u)
    BY <1>4
  <2> HIDE DEF S
  <2> QED BY <2>1, ClosedAdds
<1>6. ASSUME NEW v \in taken
      PROVE  imported(v) \in H /\ Ids(imported(v)) \subseteq cp
  <2>1. scope[v] \in G /\ Ids(scope[v]) \subseteq cp
    BY <1>2 DEF OfValues, Has
  <2>2. wrap(v) \in S
    OBVIOUS
  <2> QED BY <1>4, <2>1, <2>2
<1>7. OfValues(H, named) /\ \A x : Has(named, x) => x \in cp
  <2> HIDE DEF imported, H
  <2> QED BY <1>3, <1>6 DEF OfValues, Has
<1>8. G \subseteq H
  OBVIOUS
<1> HIDE DEF H
<1> QED BY <1>1, <1>5, <1>7, <1>8

\* The imported template is over; what its scope has in it is copied.
LEMMA EndImportFine ==
    ASSUME ScopesInv, ScopesInv', NEW G, Fine(G, stack, ctxs, copied), EndImport
    PROVE  \E H : Fine(H, stack', ctxs', copied')
<1>1. Top.end.op = "import"
  BY DEF EndImport, Ends
<1>2. PICK c, scope, node, name :
         /\ c = Context /\ scope = CurrentScope(c)
         /\ node = Top.end.node /\ name = "$$_imported_" \o Top.end.scope
  OBVIOUS
<1>3. PICK cp : cp = copied \union RenderersIn(scope)
  OBVIOUS
<1>4. PICK module, named, maps : /\ module = Module(node, scope) /\ named = Named(node, scope, name)
                                 /\ maps = MapOf(named)
  OBVIOUS
<1>5. PICK new, all : /\ new = IF node.namespace = "none" THEN named ELSE Single(node.namespace, maps)
                      /\ all = Merge(Single(name, module), new)
  OBVIOUS
<1>6. Return([ctxs EXCEPT ![Caller.ctx] = PutAll(@, all)], out) /\ copied' = cp
  BY <1>2, <1>3, <1>4, <1>5, Zenon DEF EndImport
<1>7. copied \subseteq cp /\ \A x : Has(scope, x) => x \in cp
  BY <1>3, RenderersAre
<1>8. /\ Closed(G, copied) /\ ContextFine(G, copied, c) /\ IsSeq(c.scopes)
      /\ c = ctxs[Top.ctx] /\ Len(c.scopes) = Top.depth /\ Top.depth > 0
  <2>1. /\ Context = ctxs[Top.ctx] /\ Top.ctx \in 1..Len(ctxs) /\ IsSeq(Context.scopes)
        /\ Len(Context.scopes) = Top.depth
    BY TopIs
  <2> QED BY <1>2, <2>1, TopFine DEF Fine
<1>9. scope = c.scopes[Top.depth] /\ OfValues(G, scope)
  <2>1. scope = c.scopes[Top.depth] /\ Top.depth \in 1..Len(c.scopes)
    BY <1>2, <1>8 DEF IsSeq, CurrentScope, Last
  <2> QED BY <1>8, <2>1 DEF ContextFine
<1>10. Left(cp, Top.ctx)
  BY <1>7, <1>8, <1>9 DEF Left
<1>11. Closed(G, cp)
  BY <1>7, <1>8, ClosedStays
<1>12. PICK H1 : G \subseteq H1 /\ Closed(H1, cp) /\ module \in H1 /\ Ids(module) = {}
  BY <1>4, <1>7, <1>9, <1>11, ModuleProper
<1>13. OfValues(H1, scope)
  BY <1>9, <1>12 DEF OfValues
<1>14. PICK H2 : /\ H1 \subseteq H2 /\ Closed(H2, cp) /\ OfValues(H2, named)
                 /\ \A x : Has(named, x) => x \in cp
  BY <1>4, <1>7, <1>12, <1>13, NamedProper
<1>15. Proper(H2, cp, maps) /\ Ids(maps) = {}
  BY <1>4, <1>14, MapProper DEF OfValues
<1>16. PICK H : H = H2 \union {maps}
  OBVIOUS
<1>17. Closed(H, cp) /\ G \subseteq H /\ maps \in H /\ module \in H /\ H2 \subseteq H
  BY <1>12, <1>14, <1>15, <1>16, ClosedAddsOne
<1>18. OfValues(H, new) /\ \A x : Has(new, x) => x \in cp
  <2>1. CASE new = named
    BY <1>14, <1>17, <2>1 DEF OfValues
  <2>2. CASE new = Single(node.namespace, maps)
    BY <1>15, <1>17, <2>2, SingleIs
  <2> QED BY <1>5, <2>1, <2>2
<1>19. OfValues(H, all) /\ \A x : Has(all, x) => x \in cp
  <2>1. PICK own : own = Single(name, module)
    OBVIOUS
  <2>2. OfValues(H, own) /\ \A x : ~Has(own, x)
    BY <1>12, <1>17, <2>1, SingleIs
  <2> QED BY <1>5, <1>18, <2>1, <2>2, MergeIs
<1>20. Fine(H, stack', ctxs', cp)
  BY <1>1, <1>6, <1>7, <1>10, <1>17, <1>19, ReturnPut
<1> QED BY <1>6, <1>20
-----------------------------------------------------------------------------
(* The theorem. *)

\* Before the rendering there are only the values it is given.
LEMMA InitFine ==
    ASSUME Init
    PROVE  RenderersInv
<1>1. PICK body, f : /\ body = files[Main]
                     /\ f = [todo |-> body, ctx |-> 1, os |-> 1, end |-> [op |-> "main"],
                             base |-> 1, streams |-> 1, depth |-> 1, before |-> <<>>]
  OBVIOUS
<1>2. stack = <<f>> /\ files \in Programs /\ kept = Empty /\ copied = {}
  BY <1>1, Zenon DEF Init
<1>3. f.todo = body /\ f.end.op = "main" /\ f.depth = 1 /\ Len(stack) = 1 /\ stack[1] = f
  BY <1>1, <1>2
<1>4. IsSeq(body) /\ IsTemplate(body)
  <2>1. Main \in DOMAIN files
    BY <1>2, ProgramsAssumption
  <2> QED BY <1>1, <1>2, <2>1, FileIs
<1>5. PICK map, S, T, G : /\ map = MapOf(Empty) /\ S = {Params[v] : v \in DOMAIN Params}
                          /\ T = {Globals[v] : v \in DOMAIN Globals}
                          /\ G = {NoValue, map} \union S \union T
  OBVIOUS
<1>6. Closed(G, copied)
  <2>1. \A x \in S \union T : Proper(G, copied, x)
    <3>1. \A x \in S \union T : x.k = "data"
      BY <1>5, ValuesAssumption
    <3> QED BY <3>1 DEF Proper
  <2>2. Proper(G, copied, NoValue)
    BY NoValueProper
  <2>3. Proper(G, copied, map)
    <3>1. PICK none : none = Empty
      OBVIOUS
    <3>2. \A x \in DOMAIN none : none[x] \in G
      BY <3>1 DEF Empty
    <3> QED BY <1>5, <3>1, <3>2, MapProper
  <2>4. OfValues(G, Globals)
    BY <1>5 DEF OfValues
  <2> QED BY <1>5, <2>1, <2>2, <2>3, <2>4 DEF Closed
<1>7. PICK none, scope, s, c : /\ none = <<>> /\ scope = Single("self", map) /\ s = <<scope>>
                               /\ c = [bound |-> none, scopes |-> s, ext |-> Params]
  OBVIOUS
<1>8. ctxs = <<c>>
  BY <1>5, <1>7 DEF Init, NewContext
<1>9. Len(ctxs) = 1 /\ ctxs[1] = c /\ c.bound = none /\ c.scopes = s /\ c.ext = Params
      /\ Len(s) = 1 /\ s[1] = scope /\ Len(none) = 0 /\ IsSeq(none)
  BY <1>7, <1>8 DEF IsSeq
<1>10. \A i \in 1..1 : i = 1
  OBVIOUS
<1>11. OfValues(G, scope) /\ \A x : ~Has(scope, x)
  <2>1. Ids(map) = {}
    BY <1>5 DEF MapOf, Ids
  <2>2. map \in G
    BY <1>5
  <2> QED BY <1>7, <2>1, <2>2, SingleIs
<1>12. ContextFine(G, copied, c)
  <2>1. OfValues(G, c.ext) /\ \A x : ~Has(c.ext, x)
    BY <1>5, <1>9, ValuesAssumption DEF OfValues, Has, Ids
  <2>2. IsSeq(c.bound) /\ 1..Len(c.bound) = {}
    BY <1>9
  <2> QED BY <1>9, <1>10, <1>11, <2>1, <2>2 DEF ContextFine
<1>13. FrameFine(G, f) /\ Handed(stack, copied, 1) /\ Extending(stack, 1)
  BY <1>3, <1>4 DEF FrameFine, Runs, TemplateOps, Handed, HandsOn, Extending
<1>14. Sourced(stack, ctxs, copied)
  BY <1>9, <1>10, <1>11 DEF Sourced
<1>15. Fine(G, stack, ctxs, copied)
  BY <1>3, <1>6, <1>9, <1>10, <1>12, <1>13, <1>14 DEF Fine
<1> QED BY <1>2, <1>15 DEF RenderersInv, Empty

\* No step but an import's changes what is kept.
LEMMA FilesStay ==
    ASSUME RenderersInv, [Next]_vars
    PROVE  files' \in Programs /\ \A id \in DOMAIN kept' : kept'[id] \in DOMAIN files'
<1>1. files' = files
  BY DEF Next, vars, Text, Show, Set, If, EndPlain, Capture, EndSet, EndFilter, With, EndWith,
         DefineMacro, Invoke, Call, EndCall, CallEmpty, EnterMacro, EndMacro, EnterImported,
         EnterSuper, Block, RenderOwnBody, RenderOverride, EndOverride, AskDead, ExtendsName,
         ExtendsMissing, Extends, EndExtends, Include, TryMissing, TryFile, EndIncluded,
         NoneRendered, ImportMissing, Import, EndImport, Finish, Overflow, Quiet, Stop, Raise
<1>2. CASE Import
  BY <1>1, <1>2, KeptIs DEF RenderersInv
<1>3. CASE ~Import
  <2>1. kept' = kept
    BY <1>3 DEF Next, vars, Text, Show, Set, If, EndPlain, Capture, EndSet, EndFilter, With,
         EndWith, DefineMacro, Invoke, Call, EndCall, CallEmpty, EnterMacro, EndMacro,
         EnterImported, EnterSuper, Block, RenderOwnBody, RenderOverride, EndOverride, AskDead,
         ExtendsName, ExtendsMissing, Extends, EndExtends, Include, TryMissing, TryFile,
         EndIncluded, NoneRendered, ImportMissing, EndImport, Finish, Overflow, Quiet, Stop, Raise
  <2> QED BY <1>1, <2>1 DEF RenderersInv
<1> QED BY <1>2, <1>3

\* Every step keeps the renderers where they are there.
LEMMA NextFine ==
    ASSUME ScopesInv, RenderersInv, [Next]_vars
    PROVE  RenderersInv'
<1>1. ScopesInv' /\ files \in Programs /\ \A id \in DOMAIN kept : kept[id] \in DOMAIN files
  BY NextSound DEF RenderersInv
<1>2. PICK G : Fine(G, stack, ctxs, copied)
  BY DEF RenderersInv
<1> SUFFICES \E H : Fine(H, stack', ctxs', copied')
  BY FilesStay DEF RenderersInv
<1>3. CASE Text \/ Show \/ ExtendsName
  BY <1>1, <1>2, <1>3, SkipsFine
<1>4. CASE EndPlain \/ EndFilter \/ EndWith
  BY <1>1, <1>2, <1>4, EndsFine
<1>5. CASE Set \/ If \/ Capture \/ EndSet \/ With
  BY <1>1, <1>2, <1>5, SetFine, IfFine, CaptureFine, EndSetFine, WithFine
<1>6. CASE DefineMacro \/ Invoke \/ Call \/ EndCall \/ EnterMacro \/ EndMacro \/ EnterImported
  BY <1>1, <1>2, <1>6, DefineMacroFine, InvokeFine, CallFine, EndCallFine, EnterMacroFine,
     EndMacroFine, EnterImportedFine
<1>7. CASE EnterSuper \/ RenderOwnBody
  BY <1>1, <1>2, <1>7, PlainFine
<1>8. CASE CallEmpty \/ ExtendsMissing \/ ImportMissing \/ NoneRendered
  BY <1>1, <1>2, <1>8, RaisesFine
<1>9. CASE Block \/ RenderOverride \/ EndOverride \/ Extends \/ EndExtends
  BY <1>1, <1>2, <1>9, BlockFine, RenderOverrideFine, EndOverrideFine, ExtendsFine, EndExtendsFine
<1>10. CASE Include \/ TryMissing \/ TryFile \/ EndIncluded \/ Import \/ EndImport
  BY <1>1, <1>2, <1>10, IncludeFine, TryMissingFine, TryFileFine, EndIncludedFine, ImportFine,
     EndImportFine
<1>11. CASE AskDead \/ Finish \/ Overflow
  BY <1>2, <1>11, StopFine DEF AskDead, Finish, Overflow
<1>12. CASE UNCHANGED vars
  BY <1>2, <1>12 DEF vars
<1> QED BY <1>3, <1>4, <1>5, <1>6, <1>7, <1>8, <1>9, <1>10, <1>11, <1>12
       DEF Next

\* Renderers are in contexts that go when they do, or in the scope of a template that is
\* over, or they are copied; and bodies hold no extends.
THEOREM RenderersInvariant == Spec => [](ScopesInv /\ RenderersInv)
<1>1. Init => ScopesInv /\ RenderersInv
  BY InitSound, InitFine
<1>2. (ScopesInv /\ RenderersInv) /\ [Next]_vars => (ScopesInv /\ RenderersInv)'
  BY NextSound, NextFine
<1> QED BY <1>1, <1>2, PTL DEF Spec

\* What a block asks is there, unless an include or an import has copied it.
THEOREM AskedAreAlive == Spec => []DeadOnlyIfCopied
<1>1. ScopesInv /\ RenderersInv => DeadOnlyIfCopied
  <2> SUFFICES ASSUME ScopesInv, RenderersInv, Top.end.op = "callee"
               PROVE  {r.id : r \in Range(Parents(Context))} \subseteq Alive \union copied
    BY DEF DeadOnlyIfCopied
  <2>1. PICK G : Fine(G, stack, ctxs, copied)
    BY DEF RenderersInv
  <2>2. Busy
    BY DEF Busy, TemplateOps
  <2>3. PICK c, old, was : /\ c = Context /\ old = Parents(c)
                           /\ was = [k |-> "renderers", list |-> old]
    OBVIOUS
  <2>4. /\ Closed(G, copied) /\ IsContext(c) /\ ContextFine(G, copied, c)
        /\ Knows(stack, copied, c)
    BY <2>1, <2>2, <2>3, TopIs, TopFine, Known
  <2>5. /\ Ids(was) = {p.id : p \in Range(old)}
        /\ \A y \in Ids(was) : y \in copied \/ Lives(stack, Len(stack), y)
    BY <2>3, <2>4, ParentsAre
  <2>6. ASSUME NEW y, Lives(stack, Len(stack), y)
        PROVE  y \in Alive
    <3>1. DOMAIN stack = 1..Len(stack)
      BY TopIs DEF IsSeq
    <3> QED BY <2>6, <3>1 DEF Lives, Alive
  <2> QED BY <2>3, <2>5, <2>6
<1> QED BY <1>1, RenderersInvariant, PTL
=============================================================================
