-------------------------- MODULE ContainerProofs --------------------------
(***************************************************************************)
(* Theorems about the container, for words, groups and files of any size:  *)
(* every directory the decoder accepts has its windows in the file and at  *)
(* most one entry for a section; reading a container's bytes is a          *)
(* behaviour of that directory; what the decoders accept is well formed;   *)
(* and the numbers written are the numbers read.                           *)
(***************************************************************************)
EXTENDS Container, SetInduction, SequenceTheorems

-----------------------------------------------------------------------------
(* The directory *)

\* Nothing is read before the header: TypeOK alone does not say so, and a
\* count read on top of entries could pass the limit.
HeaderFirst == status \in {"closed", "header"} => entries = << >>

\* Two entries with the tag of a section are one entry.
SectionsOnce ==
    \A i, j \in DOMAIN entries :
        entries[i].tag \in KnownTags /\ entries[i].tag = entries[j].tag => i = j

IInv == TypeOK /\ HeaderFirst /\ WindowsInFile /\ SectionsOnce

\* What find() answers is the only entry with the tag: a directory in which
\* every section occurs once leaves it nothing to choose.
LEMMA OnceIsUnambiguous ==
    TypeOK /\ SectionsOnce => FindIsUnambiguous
<1> SUFFICES ASSUME TypeOK, SectionsOnce,
                    NEW tag \in KnownTags, NEW i \in DOMAIN entries,
                    entries[i].tag = tag
             PROVE  find(tag) = i
  BY DEF FindIsUnambiguous
<1> DEFINE hits == {k \in DOMAIN entries : entries[k].tag = tag}
<1>1. hits = {i}
  BY DEF SectionsOnce
<1>2. i \in Nat
  BY DEF TypeOK
<1>3. (CHOOSE k \in hits : \A j \in hits : k <= j) = i
  <2>1. \A k \in hits : k = i
    BY <1>1
  <2>2. \E k \in hits : \A j \in hits : k <= j
    BY <1>1, <1>2
  <2> HIDE DEF hits
  <2> QED BY <2>1, <2>2
<1>4. hits # {}
  BY <1>1
<1> QED BY <1>3, <1>4 DEF find

\* The entry ReadEntry appends comes last; those before it stay as they are.
LEMMA EntryAppended ==
    ASSUME TypeOK, NEW e \in Entry, ReadEntry(e)
    PROVE  /\ entries' \in Seq(Entry)
           /\ Len(entries') = Len(entries) + 1
           /\ DOMAIN entries' = 1 .. Len(entries) + 1
           /\ entries'[Len(entries) + 1] = e
           /\ \A i \in DOMAIN entries : entries'[i] = entries[i]
           /\ DOMAIN entries = 1 .. Len(entries)
           /\ Len(entries) \in Nat
<1>1. entries' = Append(entries, e) /\ entries \in Seq(Entry)
  BY DEF ReadEntry, TypeOK
<1> QED BY <1>1

\* A step of decode() that reads no entry leaves those read alone.
LEMMA OthersKeepEntries ==
    ASSUME [Next]_vars, ~ \E e \in Entry : ReadEntry(e)
    PROVE  /\ entries' = entries
           /\ file_size' = file_size \/ status = "closed"
BY DEF Next, vars, Open, ReadHeader, RejectHeader, RejectEntry, Finish

LEMMA InvariantInit == Init => IInv
<1> SUFFICES ASSUME Init PROVE IInv
  OBVIOUS
<1>1. entries = << >> /\ entries \in Seq(Entry) /\ Len(entries) = 0
  BY DEF Init
<1> QED
  BY <1>1, DirectoryAssumption
  DEF Init, IInv, TypeOK, HeaderFirst, WindowsInFile, SectionsOnce

\* Every step keeps the entries typed and counted: the loop of decode()
\* reads no more of them than the header states.
LEMMA TypeStep == TypeOK /\ HeaderFirst /\ [Next]_vars => TypeOK' /\ HeaderFirst'
<1> SUFFICES ASSUME TypeOK, HeaderFirst, [Next]_vars
             PROVE  TypeOK' /\ HeaderFirst'
  OBVIOUS
<1> USE DirectoryAssumption
<1>1. ASSUME NEW count \in 0 .. MaxSections + 1, ReadHeader(count)
      PROVE  TypeOK' /\ HeaderFirst'
  <2>1. Len(entries) = 0 /\ refused = << >>
    BY <1>1 DEF ReadHeader, TypeOK, HeaderFirst
  <2> QED BY <1>1, <2>1 DEF ReadHeader, TypeOK, HeaderFirst
<1>2. ASSUME NEW code \in HeaderCodes, RejectHeader(code)
      PROVE  TypeOK' /\ HeaderFirst'
  BY <1>2 DEF RejectHeader, HeaderCodes, TypeOK, HeaderFirst
<1>3. ASSUME NEW e \in Entry, ReadEntry(e)
      PROVE  TypeOK' /\ HeaderFirst'
  BY <1>3, EntryAppended DEF ReadEntry, TypeOK, HeaderFirst
<1>4. ASSUME NEW e \in Entry, RejectEntry(e)
      PROVE  TypeOK' /\ HeaderFirst'
  BY <1>4 DEF RejectEntry, TypeOK, HeaderFirst
<1>5. CASE Finish
  BY <1>5 DEF Finish, TypeOK, HeaderFirst
<1>6. CASE UNCHANGED vars
  BY <1>6 DEF vars, TypeOK, HeaderFirst
<1>7. ASSUME NEW size \in Nat, Open(size)
      PROVE  TypeOK' /\ HeaderFirst'
  BY <1>7 DEF Open, TypeOK, HeaderFirst
<1> QED BY <1>1, <1>2, <1>3, <1>4, <1>5, <1>6, <1>7 DEF Next

\* The two guards of ReadEntry are what the two other conjuncts need.
LEMMA EntriesStep ==
    IInv /\ [Next]_vars => WindowsInFile' /\ SectionsOnce'
<1> SUFFICES ASSUME IInv, [Next]_vars PROVE WindowsInFile' /\ SectionsOnce'
  OBVIOUS
<1> USE DirectoryAssumption
<1>1. ASSUME NEW e \in Entry, ReadEntry(e)
      PROVE  WindowsInFile' /\ SectionsOnce'
  <2> DEFINE n == Len(entries)
  <2>1. /\ DOMAIN entries' = 1 .. n + 1
        /\ entries'[n + 1] = e
        /\ \A i \in DOMAIN entries : entries'[i] = entries[i]
        /\ DOMAIN entries = 1 .. n
        /\ n \in Nat
    BY <1>1, EntryAppended DEF IInv
  <2> HIDE DEF n
  <2>2. WindowsInFile'
    <3>1. e.offset + e.length <= file_size
      <4>1. e.offset \in Int /\ e.length \in Int
        BY DEF Entry
      <4>2. file_size \in Int
        BY DEF IInv, TypeOK
      <4> QED BY <1>1, <4>1, <4>2 DEF ReadEntry, OutOfFile
    <3>2. \A i \in DOMAIN entries' : i = n + 1 \/ i \in DOMAIN entries
      BY <2>1
    <3>3. file_size' = file_size
      BY <1>1 DEF ReadEntry
    <3> QED BY <2>1, <3>1, <3>2, <3>3 DEF IInv, WindowsInFile
  <2>3. SectionsOnce'
    <3> SUFFICES ASSUME NEW i \in DOMAIN entries', NEW j \in DOMAIN entries',
                        entries'[i].tag \in KnownTags,
                        entries'[i].tag = entries'[j].tag
                 PROVE  i = j
      BY DEF SectionsOnce
    <3>1. /\ i = n + 1 \/ i \in DOMAIN entries
          /\ j = n + 1 \/ j \in DOMAIN entries
      BY <2>1
    <3>2. ASSUME e.tag \in KnownTags, NEW k \in DOMAIN entries
          PROVE  entries[k].tag # e.tag
      BY <1>1, <3>2 DEF ReadEntry, Repeated
    <3>3. CASE i \in DOMAIN entries /\ j \in DOMAIN entries
      BY <2>1, <3>3 DEF IInv, SectionsOnce
    <3>4. CASE i = n + 1 /\ j \in DOMAIN entries
      BY <2>1, <3>2, <3>4
    <3>5. CASE i \in DOMAIN entries /\ j = n + 1
      BY <2>1, <3>2, <3>5
    <3> QED BY <3>1, <3>3, <3>4, <3>5
  <2> QED BY <2>2, <2>3
<1>2. CASE ~ \E e \in Entry : ReadEntry(e)
  <2>1. /\ entries' = entries
        /\ file_size' = file_size \/ status = "closed"
    BY <1>2, OthersKeepEntries
  <2>2. SectionsOnce'
    BY <2>1 DEF IInv, SectionsOnce
  <2>3. CASE file_size' = file_size
    BY <2>1, <2>2, <2>3 DEF IInv, WindowsInFile
  <2>4. CASE status = "closed"
    <3>1. DOMAIN entries' = {}
      BY <2>1, <2>4 DEF IInv, HeaderFirst
    <3> QED BY <2>2, <3>1 DEF WindowsInFile
  <2> QED BY <2>1, <2>3, <2>4
<1> QED BY <1>1, <1>2

LEMMA Invariant == Spec => []IInv
<1>1. IInv /\ [Next]_vars => IInv'
  BY TypeStep, EntriesStep DEF IInv
<1> QED BY InvariantInit, <1>1, PTL DEF Spec

\* decode() never holds more entries than the limit allows, and keeps the
\* entry it refused exactly when that is why it stopped.
THEOREM DirectoryTyped == Spec => []TypeOK
<1>1. IInv => TypeOK
  BY DEF IInv
<1> QED BY Invariant, <1>1, PTL

\* Whatever the entries state, the loader carves no window out of the file
\* that leaves it (the subtraction in decode's bounds check).
THEOREM WindowsCorrect == Spec => []WindowsInFile
<1>1. IInv => WindowsInFile
  BY DEF IInv
<1> QED BY Invariant, <1>1, PTL

\* In a directory of any length and order find() answers with the one entry a
\* section has (the duplicate check of decode).
THEOREM FindCorrect == Spec => []FindIsUnambiguous
<1>1. IInv => FindIsUnambiguous
  BY OnceIsUnambiguous DEF IInv
<1> QED BY Invariant, <1>1, PTL

-----------------------------------------------------------------------------
(* The recursive definitions *)

LEMMA PowerRecursion ==
    ASSUME NEW base \in Nat, NEW n \in Nat
    PROVE  \E p \in [0 .. n -> Nat] :
              /\ p[0] = 1 /\ \A k \in 1 .. n : p[k] = base * p[k - 1]
              /\ Power(base, n) = p[n]
<1> DEFINE Step == [k \in 1 .. n |-> [x \in Nat |-> base * x]]
           S == [k \in 0 .. n |-> Nat]
           Unfold(f) == [k \in 0 .. n |-> IF k = 0 THEN 1 ELSE base * f[k - 1]]
           power == CHOOSE f : f = Unfold(f)
<1>1. PICK g : Recursive(g, n, S, 1, Step)
    <2>1. Leads(n, S, 1, Step)
        BY DEF Leads
    <2> HIDE DEF Step, S
    <2> QED
        BY <2>1, RecursionHasSolution
<1>2. g = Unfold(g)
    <2>1. \A k \in 1 .. n : Step[k][g[k - 1]] = base * g[k - 1]
        BY <1>1 DEF Recursive
    <2>2. \A k \in 0 .. n : k # 0 => k \in 1 .. n
        OBVIOUS
    <2> HIDE DEF Step
    <2>3. \A k \in 0 .. n : g[k] = IF k = 0 THEN 1 ELSE base * g[k - 1]
        BY <1>1, <2>1, <2>2 DEF Recursive
    <2> QED
        BY <1>1, <2>3 DEF Recursive
<1>3. power = Unfold(power)
    <2> HIDE DEF Unfold
    <2> QED
        BY <1>2
<1>4. Power(base, n) = power[n]
    BY DEF Power
<1> HIDE DEF power, Step
<1>5. power[0] = 1 /\ \A k \in 1 .. n : power[k] = base * power[k - 1]
    <2>1. \A k \in 0 .. n : power[k] = IF k = 0 THEN 1 ELSE base * power[k - 1]
        BY <1>3
    <2> QED
        BY <2>1
<1>6. power \in [0 .. n -> Nat]
    <2> DEFINE P == {k \in 0 .. n : power[k] \in Nat}
    <2>1. 0 \in P /\ \A k \in 1 .. n : k - 1 \in P => k \in P
        BY <1>5
    <2>2. 0 .. n \subseteq P
        <3> HIDE DEF P
        <3> QED
            BY <2>1, UpTheInterval
    <2> QED
        BY <1>3, <2>2
<1> QED
    BY <1>4, <1>5, <1>6

LEMMA NumberRecursion ==
    ASSUME NEW base \in Nat, NEW digits \in Seq(Nat)
    PROVE  \E last \in [0 .. Len(digits) -> Nat] :
              /\ last[0] = 0
              /\ \A k \in 1 .. Len(digits) :
                    last[k] = digits[Len(digits) - k + 1] + base * last[k - 1]
              /\ Number(base, digits) = last[Len(digits)]
<1> DEFINE n == Len(digits)
           digit == [k \in 1 .. n |-> digits[n - k + 1]]
           Step == [k \in 1 .. n |-> [x \in Nat |-> digit[k] + base * x]]
           S == [k \in 0 .. n |-> Nat]
           Unfold(f) == [k \in 0 .. n |->
               IF k = 0 THEN 0 ELSE digits[n - k + 1] + base * f[k - 1]]
           last == CHOOSE f : f = Unfold(f)
<1>a. n \in Nat /\ \A k \in 1 .. n : digit[k] = digits[n - k + 1] /\ digit[k] \in Nat
    OBVIOUS
<1>1. PICK g : Recursive(g, n, S, 0, Step)
    <2> HIDE DEF digit, n
    <2>1. ASSUME NEW k \in 1 .. n, NEW x \in Nat PROVE Step[k][x] \in Nat
        <3>1. digit[k] \in Nat
            BY <1>a
        <3>2. digit[k] + base * x \in Nat
            BY <3>1
        <3> QED
            BY <3>2
    <2>2. S[0] = Nat /\ \A k \in 1 .. n : S[k - 1] = Nat /\ S[k] = Nat
        BY <1>a
    <2>3. Leads(n, S, 0, Step)
        <3> HIDE DEF Step, S
        <3> QED
            BY <2>1, <2>2 DEF Leads
    <2> HIDE DEF Step, S
    <2> QED
        BY <1>a, <2>3, RecursionHasSolution
<1>2. g = Unfold(g)
    <2> HIDE DEF digit, n
    <2>1. \A k \in 1 .. n : Step[k][g[k - 1]] = digits[n - k + 1] + base * g[k - 1]
        <3>1. \A k \in 1 .. n : g[k - 1] \in Nat
            BY <1>a, <1>1 DEF Recursive
        <3>2. \A k \in 1 .. n : Step[k][g[k - 1]] = digit[k] + base * g[k - 1]
            BY <3>1
        <3> QED
            BY <1>a, <3>2
    <2>2. \A k \in 0 .. n : k # 0 => k \in 1 .. n
        BY <1>a
    <2> HIDE DEF Step
    <2>3. \A k \in 0 .. n :
              g[k] = IF k = 0 THEN 0 ELSE digits[n - k + 1] + base * g[k - 1]
        BY <1>1, <2>1, <2>2 DEF Recursive
    <2> QED
        BY <1>1, <2>3 DEF Recursive
<1>3. last = Unfold(last)
    <2> HIDE DEF Unfold
    <2> QED
        BY <1>2
<1>4. Number(base, digits) = last[n]
    BY DEF Number
<1> HIDE DEF last, Step, digit, n
<1>5. /\ last[0] = 0
      /\ \A k \in 1 .. n : last[k] = digits[n - k + 1] + base * last[k - 1]
    <2>1. \A k \in 0 .. n :
              last[k] = IF k = 0 THEN 0 ELSE digits[n - k + 1] + base * last[k - 1]
        BY <1>3
    <2> QED
        BY <1>a, <2>1
<1>6. last \in [0 .. n -> Nat]
    <2> DEFINE P == {k \in 0 .. n : last[k] \in Nat}
    <2>1. 0 \in P
        BY <1>a, <1>5
    <2>2. ASSUME NEW k \in 1 .. n, k - 1 \in P PROVE k \in P
        <3>1. last[k] = digit[k] + base * last[k - 1]
            BY <1>a, <1>5
        <3>2. digit[k] \in Nat /\ last[k - 1] \in Nat
            BY <1>a, <2>2
        <3>3. digit[k] + base * last[k - 1] \in Nat
            BY <3>2, SMTT(60)
        <3> QED
            BY <3>1, <3>3
    <2>3. 0 .. n \subseteq P
        <3> HIDE DEF P
        <3> QED
            BY <1>a, <2>1, <2>2, UpTheInterval
    <2> QED
        BY <1>3, <2>3, SMTT(60)
<1> QED
    BY <1>4, <1>5, <1>6 DEF n

LEMMA ShiftedRecursion ==
    ASSUME NEW base \in Nat \ {0}, NEW v \in Int, NEW n \in Nat
    PROVE  /\ Shifted(base, v, n) \in [0 .. n -> Int]
           /\ Shifted(base, v, n)[0] = v
           /\ \A k \in 1 .. n :
                 Shifted(base, v, n)[k] = Shifted(base, v, n)[k - 1] \div base
<1> DEFINE Step == [k \in 1 .. n |-> [x \in Int |-> x \div base]]
           S == [k \in 0 .. n |-> Int]
           Unfold(f) == [k \in 0 .. n |-> IF k = 0 THEN v ELSE f[k - 1] \div base]
           left0 == CHOOSE f : f = Unfold(f)
<1>1. PICK g : Recursive(g, n, S, v, Step)
    <2>1. Leads(n, S, v, Step)
        BY DEF Leads
    <2> HIDE DEF Step, S
    <2> QED
        BY <2>1, RecursionHasSolution
<1>2. g = Unfold(g)
    <2>1. \A k \in 1 .. n : Step[k][g[k - 1]] = g[k - 1] \div base
        BY <1>1 DEF Recursive
    <2>2. \A k \in 0 .. n : k # 0 => k \in 1 .. n
        OBVIOUS
    <2> HIDE DEF Step
    <2>3. \A k \in 0 .. n : g[k] = IF k = 0 THEN v ELSE g[k - 1] \div base
        BY <1>1, <2>1, <2>2 DEF Recursive
    <2> QED
        BY <1>1, <2>3 DEF Recursive
<1>3. left0 = Unfold(left0)
    <2> HIDE DEF Unfold
    <2> QED
        BY <1>2
<1>4. Shifted(base, v, n) = left0
    BY DEF Shifted
<1> HIDE DEF left0, Step
<1>5. left0[0] = v /\ \A k \in 1 .. n : left0[k] = left0[k - 1] \div base
    <2>1. \A k \in 0 .. n : left0[k] = IF k = 0 THEN v ELSE left0[k - 1] \div base
        BY <1>3
    <2> QED
        BY <2>1
<1>6. left0 \in [0 .. n -> Int]
    <2> DEFINE P == {k \in 0 .. n : left0[k] \in Int}
    <2>1. 0 \in P /\ \A k \in 1 .. n : k - 1 \in P => k \in P
        BY <1>5
    <2>2. 0 .. n \subseteq P
        <3> HIDE DEF P
        <3> QED
            BY <2>1, UpTheInterval
    <2> QED
        BY <1>3, <2>2
<1> QED
    BY <1>4, <1>5, <1>6

\* Sequences joined to one are a sequence of what they hold.
LEMMA FlattenTyped ==
    ASSUME NEW S, NEW seqs \in Seq(Seq(S))
    PROVE  FlattenSeq(seqs) \in Seq(S)
<1>1. Len(seqs) \in Nat /\ \A k \in 1 .. Len(seqs) : seqs[k] \in Seq(S)
    OBVIOUS
<1>2. CASE Len(seqs) = 0
    <2>1. FlattenSeq(seqs) = seqs /\ seqs = << >>
        BY <1>2 DEF FlattenSeq
    <2> QED
        BY <2>1
<1>3. CASE Len(seqs) # 0
    <2>1. FlattenSeq(seqs) = Joined(seqs, Len(seqs))
        BY <1>3 DEF FlattenSeq, Joined
    <2>2. \A x, y \in Seq(S) : x \o y \in Seq(S)
        OBVIOUS
    <2> QED
        BY <1>1, <1>3, <2>1, <2>2, JoinedInside
<1> QED
    BY <1>2, <1>3

-----------------------------------------------------------------------------
(* What a read answers *)

\* An item read, or one of the codes, and what there is still to read.
Answers(codes, Items) ==
    {Got(item, rest) : item \in Items, rest \in Bytes}
    \cup {Failed(code, rest) : code \in codes \ {"ok"}, rest \in Bytes}

\* Bind with what comes next already applied to what was read.
Chain(a, b) == IF a.code = "ok" THEN b ELSE a

LEMMA AnswerRead ==
    ASSUME NEW codes, NEW Items, NEW a \in Answers(codes, Items)
    PROVE  /\ a.rest \in Bytes
           /\ a.code = "ok" => a.value \in Items /\ a = Got(a.value, a.rest)
           /\ a.code # "ok" => a.code \in codes /\ a = Failed(a.code, a.rest)
BY DEF Answers, Got, Failed

LEMMA GotAnswers ==
    ASSUME NEW codes, NEW Items, NEW item \in Items, NEW rest \in Bytes
    PROVE  Got(item, rest) \in Answers(codes, Items)
BY DEF Answers

LEMMA FailedAnswers ==
    ASSUME NEW codes, NEW Items, NEW code \in codes, code # "ok", NEW rest \in Bytes
    PROVE  Failed(code, rest) \in Answers(codes, Items)
BY DEF Answers

LEMMA AnswersMore ==
    ASSUME NEW codes, NEW Items, NEW a \in Answers(codes, Items),
           NEW more, codes \subseteq more, NEW Wider, Items \subseteq Wider
    PROVE  a \in Answers(more, Wider)
<1>1. CASE a.code = "ok"
    BY <1>1, AnswerRead, GotAnswers
<1>2. CASE a.code # "ok"
    BY <1>2, AnswerRead, FailedAnswers
<1> QED
    BY <1>1, <1>2

LEMMA ChainAnswers ==
    ASSUME NEW codes, NEW Items, NEW a \in Answers(codes, Items), NEW Next0, NEW b,
           a.code = "ok" => b \in Answers(codes, Next0)
    PROVE  Chain(a, b) \in Answers(codes, Next0)
<1>1. CASE a.code = "ok"
    BY <1>1 DEF Chain
<1>2. CASE a.code # "ok"
    BY <1>2, AnswerRead, FailedAnswers DEF Chain
<1> QED
    BY <1>1, <1>2

\* The lists of n items, the i-th of them from Items[i].
Lists(n, Items) ==
    {s \in Seq(UNION {Items[i] : i \in 1 .. n}) :
        Len(s) = n /\ \A i \in 1 .. n : s[i] \in Items[i]}

LEMMA ListGrows ==
    ASSUME NEW Items, NEW k \in Nat \ {0}, NEW s \in Lists(k - 1, Items), NEW item \in Items[k]
    PROVE  Append(s, item) \in Lists(k, Items)
<1> DEFINE U == UNION {Items[i] : i \in 1 .. k - 1}
           V == UNION {Items[i] : i \in 1 .. k}
<1>1. s \in Seq(U) /\ Len(s) = k - 1 /\ \A i \in 1 .. k - 1 : s[i] \in Items[i]
    BY DEF Lists
<1>2. U \subseteq V /\ item \in V
    OBVIOUS
<1> HIDE DEF U, V
<1>3. s \in Seq(V)
    BY <1>1, <1>2, SeqMonotonic
<1>4. /\ Append(s, item) \in Seq(V) /\ Len(Append(s, item)) = k
      /\ Append(s, item)[k] = item
      /\ \A i \in 1 .. k - 1 : Append(s, item)[i] = s[i]
    BY <1>1, <1>2, <1>3
<1>5. \A i \in 1 .. k : i = k \/ i \in 1 .. k - 1
    OBVIOUS
<1>6. \A i \in 1 .. k : Append(s, item)[i] \in Items[i]
    BY <1>1, <1>4, <1>5
<1> QED
    BY <1>4, <1>6 DEF Lists, V

\* A loop that reads n things answers with all of them, or with the first error.
LEMMA RepeatAnswers ==
    ASSUME NEW n \in Nat, NEW codes, NEW Items, NEW Read, NEW r \in Bytes,
           \A i \in 1 .. n : \A s \in Bytes : Read[i][s] \in Answers(codes, Items[i])
    PROVE  Repeat(n, Read, r) \in Answers(codes, Lists(n, Items))
<1> DEFINE S == [k \in 0 .. n |-> Answers(codes, Lists(k, Items))]
           Further(k, x) ==
               IF x.code = "ok"
               THEN IF Read[k][x.rest].code = "ok"
                    THEN Got(Append(x.value, Read[k][x.rest].value), Read[k][x.rest].rest)
                    ELSE Read[k][x.rest]
               ELSE x
           Step == [k \in 1 .. n |-> [x \in S[k - 1] |-> Further(k, x)]]
           Unfold(f) == [i \in 0 .. n |-> IF i = 0 THEN Got(<< >>, r) ELSE Further(i, f[i - 1])]
           done == CHOOSE f : f = Unfold(f)
<1>1. ASSUME NEW k \in 1 .. n, NEW x \in Answers(codes, Lists(k - 1, Items))
      PROVE  Further(k, x) \in Answers(codes, Lists(k, Items))
    <2> DEFINE a == Read[k][x.rest]
    <2>1. CASE x.code = "ok"
        <3>1. x.value \in Lists(k - 1, Items) /\ a \in Answers(codes, Items[k])
            BY <2>1, AnswerRead
        <3> HIDE DEF a
        <3>2. a.code = "ok" => Append(x.value, a.value) \in Lists(k, Items)
            BY <3>1, AnswerRead, ListGrows
        <3>3. a.code = "ok" =>
                  Got(Append(x.value, a.value), a.rest) \in Answers(codes, Lists(k, Items))
            BY <3>1, <3>2, AnswerRead, GotAnswers
        <3>4. a.code # "ok" => a \in Answers(codes, Lists(k, Items))
            BY <3>1, AnswerRead, FailedAnswers
        <3>5. Further(k, x) = IF a.code = "ok" THEN Got(Append(x.value, a.value), a.rest) ELSE a
            BY <2>1 DEF a
        <3> HIDE DEF Further
        <3> QED
            BY <3>3, <3>4, <3>5
    <2>2. CASE x.code # "ok"
        <3>1. Further(k, x) = x
            BY <2>2
        <3> HIDE DEF Further
        <3> QED
            BY <2>2, <3>1, AnswerRead, FailedAnswers
    <2> QED
        BY <2>1, <2>2
<1>2. Got(<< >>, r) \in Answers(codes, Lists(0, Items))
    <2>1. << >> \in Lists(0, Items)
        BY EmptySeq DEF Lists
    <2> QED
        BY <2>1, GotAnswers
<1>3. /\ S[0] = Answers(codes, Lists(0, Items))
      /\ \A k \in 1 .. n : /\ S[k - 1] = Answers(codes, Lists(k - 1, Items))
                          /\ S[k] = Answers(codes, Lists(k, Items))
    OBVIOUS
<1>4. \A k \in 1 .. n : \A x \in S[k - 1] : Step[k][x] = Further(k, x)
    OBVIOUS
<1> HIDE DEF S, Step, Further
<1>5. PICK g : Recursive(g, n, S, Got(<< >>, r), Step)
    <2>1. Leads(n, S, Got(<< >>, r), Step)
        BY <1>1, <1>2, <1>3, <1>4 DEF Leads
    <2> QED
        BY <2>1, RecursionHasSolution
<1>6. g = Unfold(g)
    <2>1. \A k \in 0 .. n : k # 0 => k \in 1 .. n /\ k - 1 \in 0 .. n
        OBVIOUS
    <2>2. \A k \in 0 .. n : g[k] = IF k = 0 THEN Got(<< >>, r) ELSE Further(k, g[k - 1])
        BY <1>4, <1>5, <2>1 DEF Recursive
    <2> QED
        BY <1>5, <2>2 DEF Recursive
<1>7. done = Unfold(done)
    <2> HIDE DEF Unfold
    <2> QED
        BY <1>6
<1>8. Repeat(n, Read, r) = done[n]
    BY DEF Repeat, Bind, Further
<1> HIDE DEF done
<1>9. \A k \in 0 .. n : done[k] = IF k = 0 THEN Got(<< >>, r) ELSE Further(k, done[k - 1])
    BY <1>7
<1> DEFINE P == {k \in 0 .. n : done[k] \in Answers(codes, Lists(k, Items))}
<1>10. 0 \in P
    BY <1>2, <1>9
<1>11. ASSUME NEW k \in 1 .. n, k - 1 \in P PROVE k \in P
    BY <1>1, <1>9, <1>11
<1>12. 0 .. n \subseteq P
    <2> HIDE DEF P
    <2> QED
        BY <1>10, <1>11, UpTheInterval
<1>13. n \in P
    <2> HIDE DEF P
    <2> QED
        BY <1>12
<1> QED
    BY <1>8, <1>13

-----------------------------------------------------------------------------
(* The reader *)

LEMMA PowerPositive ==
    ASSUME NEW base \in Nat \ {0}, NEW n \in Nat
    PROVE  Power(base, n) \in Nat \ {0}
<1>1. PICK p \in [0 .. n -> Nat] :
          /\ p[0] = 1 /\ \A k \in 1 .. n : p[k] = base * p[k - 1]
          /\ Power(base, n) = p[n]
    BY PowerRecursion
<1> DEFINE P == {k \in 0 .. n : p[k] # 0}
<1>2. 0 \in P
    BY <1>1
<1>3. ASSUME NEW k \in 1 .. n, k - 1 \in P PROVE k \in P
    <2>1. p[k - 1] \in Nat \ {0} /\ p[k] = base * p[k - 1]
        BY <1>1, <1>3
    <2> QED
        BY <2>1
<1>4. 0 .. n \subseteq P
    <2> HIDE DEF P
    <2> QED
        BY <1>2, <1>3, UpTheInterval
<1> QED
    BY <1>1, <1>4

\* Digits to a base spell less than the power that one digit more would need.
LEMMA NumberBound ==
    ASSUME NEW base \in Nat \ {0}, NEW digits \in Seq(0 .. base - 1)
    PROVE  Number(base, digits) \in 0 .. Power(base, Len(digits)) - 1
<1> DEFINE n == Len(digits)
<1>1. n \in Nat /\ digits \in Seq(Nat) /\ \A k \in 1 .. n : digits[k] \in 0 .. base - 1
    BY SeqMonotonic
<1>2. PICK p \in [0 .. n -> Nat] :
          /\ p[0] = 1 /\ \A k \in 1 .. n : p[k] = base * p[k - 1]
          /\ Power(base, n) = p[n]
    BY <1>1, PowerRecursion
<1>3. PICK last \in [0 .. n -> Nat] :
          /\ last[0] = 0
          /\ \A k \in 1 .. n : last[k] = digits[n - k + 1] + base * last[k - 1]
          /\ Number(base, digits) = last[n]
    BY <1>1, NumberRecursion
<1> HIDE DEF n
<1> DEFINE P == {k \in 0 .. n : last[k] < p[k]}
<1>4. 0 \in P
    BY <1>1, <1>2, <1>3
<1>5. ASSUME NEW k \in 1 .. n, k - 1 \in P PROVE k \in P
    <2>1. last[k - 1] \in 0 .. p[k - 1] - 1 /\ p[k - 1] \in Nat
        BY <1>1, <1>2, <1>3, <1>5, SMTT(60)
    <2>2. n - k + 1 \in 1 .. n
        BY <1>1
    <2> DEFINE d == digits[n - k + 1]
               t == last[k - 1]
               q == p[k - 1]
    <2>3. d \in 0 .. base - 1
        BY <1>1, <2>2
    <2>4. last[k] = d + base * t /\ p[k] = base * q
        BY <1>2, <1>3
    <2> HIDE DEF d, t, q
    <2>5. t \in 0 .. q - 1 /\ q \in Nat
        BY <2>1 DEF t, q
    <2>6. d + base * t < base * q
        BY <2>3, <2>5
    <2> QED
        BY <2>4, <2>6
<1>6. 0 .. n \subseteq P
    <2> HIDE DEF P
    <2> QED
        BY <1>1, <1>4, <1>5, UpTheInterval
<1>7. n \in 0 .. n
    BY <1>1
<1>8. last[n] < p[n] /\ last[n] \in Nat /\ p[n] \in Nat
    BY <1>6, <1>7
<1> QED
    BY <1>2, <1>3, <1>8 DEF n

LEMMA Widths ==
    /\ ByteBase \in Nat \ {0, 1} /\ GroupBase \in Nat \ {0, 1} /\ GroupBase < ByteBase
    /\ {MaxGroups, U16Bytes, U32Bytes, U64Bytes} \subseteq Nat \ {0}
    /\ WordSize \in Nat \ {0} /\ TopU32 \in Nat
<1>1. ByteBase \in Nat \ {0, 1} /\ GroupBase \in Nat \ {0, 1} /\ GroupBase < ByteBase
    BY CodecAssumption DEF ByteBase
<1>2. {MaxGroups, U16Bytes, U32Bytes, U64Bytes} \subseteq Nat \ {0}
    BY CodecAssumption
<1>3. Power(ByteBase, U64Bytes) \in Nat \ {0} /\ Power(ByteBase, U32Bytes) \in Nat \ {0}
    BY <1>1, <1>2, PowerPositive
<1> QED
    BY <1>1, <1>2, <1>3 DEF WordSize, TopU32

LEMMA SkipTyped ==
    ASSUME NEW r \in Bytes, NEW n \in 0 .. Len(r)
    PROVE  /\ Skip(r, n) \in Bytes /\ Len(Skip(r, n)) = Len(r) - n
           /\ \A i \in 1 .. Len(r) - n : Skip(r, n)[i] = r[n + i]
           /\ SubSeq(r, 1, n) \in Bytes /\ Len(SubSeq(r, 1, n)) = n
           /\ \A i \in 1 .. n : SubSeq(r, 1, n)[i] = r[i]
BY DEF Bytes, Skip

\* n bytes, or fewer than n are left.
LEMMA BytesAnswers ==
    ASSUME NEW n \in Nat, NEW r \in Bytes
    PROVE  read_bytes(n, r) \in Answers({"Truncated"}, {s \in Bytes : Len(s) = n})
<1>1. CASE Len(r) < n
    BY <1>1, FailedAnswers DEF read_bytes
<1>2. CASE ~ (Len(r) < n)
    <2>1. n \in 0 .. Len(r)
        BY <1>2 DEF Bytes
    <2>2. SubSeq(r, 1, n) \in {s \in Bytes : Len(s) = n} /\ Skip(r, n) \in Bytes
        BY <2>1, SkipTyped
    <2>3. Got(SubSeq(r, 1, n), Skip(r, n)) \in Answers({"Truncated"}, {s \in Bytes : Len(s) = n})
        BY <2>2, GotAnswers
    <2> QED
        BY <1>2, <2>3 DEF read_bytes
<1> QED
    BY <1>1, <1>2

LEMMA FixedAnswers ==
    ASSUME NEW n \in Nat, NEW r \in Bytes
    PROVE  read_fixed(n, r) \in Answers({"Truncated"}, 0 .. Power(ByteBase, n) - 1)
<1> DEFINE a == read_bytes(n, r)
<1>1. a \in Answers({"Truncated"}, {s \in Bytes : Len(s) = n})
    BY BytesAnswers
<1>2. read_fixed(n, r) = Chain(a, Got(Word(a.value), a.rest))
    BY DEF read_fixed, Bind, Chain
<1> HIDE DEF a
<1>3. ASSUME a.code = "ok"
      PROVE  Got(Word(a.value), a.rest) \in Answers({"Truncated"}, 0 .. Power(ByteBase, n) - 1)
    <2>1. a.value \in Seq(0 .. ByteBase - 1) /\ Len(a.value) = n /\ a.rest \in Bytes
        BY <1>1, <1>3, AnswerRead DEF Bytes, Byte
    <2>2. Word(a.value) \in 0 .. Power(ByteBase, n) - 1
        BY <2>1, NumberBound, Widths DEF Word
    <2> QED
        BY <2>1, <2>2, GotAnswers
<1> QED
    BY <1>1, <1>2, <1>3, ChainAnswers

LEMMA MinIsLeast ==
    ASSUME NEW S \in SUBSET Nat, S # {}
    PROVE  Min(S) \in S /\ \A k \in S : Min(S) <= k
<1>1. \E m \in S : \A k \in S : m <= k
    BY LeastElement
<1> QED
    BY <1>1 DEF Min

\* The groups of n bytes, and the number they spell.
LEMMA SpeltBound ==
    ASSUME NEW r \in Bytes, NEW n \in 0 .. Len(r)
    PROVE  /\ [i \in 1 .. n |-> r[i] % GroupBase] \in Seq(0 .. GroupBase - 1)
           /\ Len([i \in 1 .. n |-> r[i] % GroupBase]) = n
           /\ Spelt(r, n) \in 0 .. Power(GroupBase, n) - 1
           /\ Groups(r, n) \in 0 .. WordSize - 1
<1> DEFINE digits == [i \in 1 .. n |-> r[i] % GroupBase]
<1>1. digits \in Seq(0 .. GroupBase - 1) /\ Len(digits) = n
    <2>1. n \in Nat /\ \A i \in 1 .. n : r[i] \in Nat
        <3>1. r \in Seq(Byte) /\ \A b \in Byte : b \in Nat
            BY Widths DEF Bytes, Byte
        <3>2. n \in Nat /\ \A i \in 1 .. n : i \in 1 .. Len(r)
            BY <3>1
        <3>3. \A i \in 1 .. n : r[i] \in Byte
            BY <3>1, <3>2, ElementOfSeq
        <3> QED
            BY <3>1, <3>2, <3>3
    <2>2. \A i \in 1 .. n : r[i] % GroupBase \in 0 .. GroupBase - 1
        BY <2>1, Widths, SMTT(60)
    <2> QED
        BY <2>1, <2>2
<1>2. Spelt(r, n) = Number(GroupBase, digits)
    BY DEF Spelt
<1> HIDE DEF digits
<1>3. Spelt(r, n) \in 0 .. Power(GroupBase, n) - 1
    BY <1>1, <1>2, NumberBound, Widths
<1>4. Spelt(r, n) \in Int /\ WordSize \in Nat \ {0}
    <2>1. Power(GroupBase, n) \in Int
        BY PowerPositive, Widths
    <2> QED
        BY <1>3, <2>1, Widths
<1>5. Groups(r, n) \in 0 .. WordSize - 1
    BY <1>4 DEF Groups
<1> QED
    BY <1>1, <1>3, <1>5 DEF digits

Words == 0 .. WordSize - 1
U32s == 0 .. TopU32
VarintCodes == {"Truncated", "BadValue"}

\* The first byte that has no bit for more ends a varint.
Ends(r) == {i \in 1..MaxGroups : i <= Len(r) /\ r[i] < GroupBase}

LEMMA VarintAnswers ==
    ASSUME NEW r \in Bytes
    PROVE  read_varint(r) \in Answers(VarintCodes, Words)
<1>1. CASE Ends(r) # {}
    <2> DEFINE n == Min(Ends(r))
    <2>1. n \in Ends(r)
        <3>1. Ends(r) \in SUBSET Nat
            BY Widths DEF Ends
        <3> QED
            BY <1>1, <3>1, MinIsLeast
    <2>2. read_varint(r) = Got(Groups(r, n), Skip(r, n))
        BY <1>1 DEF read_varint, Ends
    <2>3. n \in 0 .. Len(r)
        BY <2>1, Widths DEF Ends
    <2> HIDE DEF n
    <2>4. Groups(r, n) \in Words /\ Skip(r, n) \in Bytes
        BY <2>3, SpeltBound, SkipTyped DEF Words
    <2> QED
        BY <2>2, <2>4, GotAnswers
<1>2. CASE Ends(r) = {}
    <2>1. read_varint(r) = Failed(IF Len(r) < MaxGroups THEN "Truncated" ELSE "BadValue", r)
        BY <1>2 DEF read_varint, Ends
    <2> QED
        BY <2>1, FailedAnswers DEF VarintCodes
<1> QED
    BY <1>1, <1>2

LEMMA VarintU32Answers ==
    ASSUME NEW r \in Bytes
    PROVE  read_varint_u32(r) \in Answers(VarintCodes, U32s)
<1> DEFINE a == read_varint(r)
           b == IF a.value > TopU32 THEN Failed("BadValue", a.rest) ELSE Got(a.value, a.rest)
<1>1. a \in Answers(VarintCodes, Words)
    BY VarintAnswers
<1>2. read_varint_u32(r) = Chain(a, b)
    BY DEF read_varint_u32, Bind, Chain
<1>3. ASSUME a.code = "ok" PROVE b \in Answers(VarintCodes, U32s)
    <2>1. a.value \in Words /\ a.rest \in Bytes
        BY <1>1, <1>3, AnswerRead
    <2>2. CASE a.value > TopU32
        <3>1. b = Failed("BadValue", a.rest)
            BY <2>2
        <3> QED
            BY <2>1, <3>1, FailedAnswers DEF VarintCodes
    <2>3. CASE ~ (a.value > TopU32)
        <3>1. b = Got(a.value, a.rest) /\ a.value \in U32s
            BY <2>1, <2>3, Widths DEF Words, U32s
        <3> QED
            BY <2>1, <3>1, GotAnswers
    <2> QED
        BY <2>2, <2>3
<1> HIDE DEF a, b
<1> QED
    BY <1>1, <1>2, <1>3, ChainAnswers

LEMMA SvarintAnswers ==
    ASSUME NEW r \in Bytes
    PROVE  read_svarint(r) \in Answers(VarintCodes, Int)
<1> DEFINE a == read_varint(r)
           b == Got(IF a.value % 2 = 0 THEN a.value \div 2 ELSE - (a.value \div 2) - 1, a.rest)
<1>1. a \in Answers(VarintCodes, Words)
    BY VarintAnswers
<1>2. read_svarint(r) = Chain(a, b)
    BY DEF read_svarint, Bind, Chain
<1>3. ASSUME a.code = "ok" PROVE b \in Answers(VarintCodes, Int)
    <2>1. a.value \in Int /\ a.rest \in Bytes
        BY <1>1, <1>3, AnswerRead, Widths DEF Words
    <2>2. (IF a.value % 2 = 0 THEN a.value \div 2 ELSE - (a.value \div 2) - 1) \in Int
        BY <2>1
    <2> QED
        BY <2>1, <2>2, GotAnswers
<1> HIDE DEF a, b
<1> QED
    BY <1>1, <1>2, <1>3, ChainAnswers

LEMMA LpStringAnswers ==
    ASSUME NEW max_len \in Nat, NEW r \in Bytes
    PROVE  read_lp_string(max_len, r)
               \in Answers(VarintCodes \cup {"LimitExceeded"}, {s \in Bytes : Len(s) <= max_len})
<1> DEFINE codes == VarintCodes \cup {"LimitExceeded"}
           Texts == {s \in Bytes : Len(s) <= max_len}
           a == read_varint(r)
           b == IF a.value > max_len THEN Failed("LimitExceeded", a.rest)
                ELSE read_bytes(a.value, a.rest)
<1>1. a \in Answers(codes, Words)
    BY VarintAnswers, AnswersMore
<1>2. read_lp_string(max_len, r) = Chain(a, b)
    BY DEF read_lp_string, Bind, Chain
<1>3. ASSUME a.code = "ok" PROVE b \in Answers(codes, Texts)
    <2>1. a.value \in Nat /\ a.rest \in Bytes
        BY <1>1, <1>3, AnswerRead, Widths DEF Words
    <2>2. CASE a.value > max_len
        <3>1. b = Failed("LimitExceeded", a.rest)
            BY <2>2
        <3> QED
            BY <2>1, <3>1, FailedAnswers
    <2>3. CASE ~ (a.value > max_len)
        <3>1. b = read_bytes(a.value, a.rest)
            BY <2>3
        <3> DEFINE Exact == {s \in Bytes : Len(s) = a.value}
        <3>2. b \in Answers({"Truncated"}, Exact)
            BY <2>1, <3>1, BytesAnswers
        <3>3. {"Truncated"} \subseteq codes /\ Exact \subseteq Texts
            BY <2>1, <2>3 DEF VarintCodes, Bytes
        <3> HIDE DEF b, Exact, codes, Texts
        <3> QED
            BY <3>2, <3>3, AnswersMore
    <2> QED
        BY <2>2, <2>3
<1> HIDE DEF a, b, codes, Texts
<1>4. Chain(a, b) \in Answers(codes, Texts)
    BY <1>1, <1>3, ChainAnswers
<1> QED
    BY <1>2, <1>4 DEF codes, Texts

-----------------------------------------------------------------------------
(* The decoders of the sections *)

SectionCodes ==
    VarintCodes \cup {"LimitExceeded", "BadAtomPool", "BadSchema", "FieldOutOfRange", "BadHeap",
                      "KindOutOfRange", "AtomOutOfRange"}

LEMMA RequireAnswers ==
    ASSUME NEW codes, NEW Items, NEW a \in Answers(codes, Items), NEW Allowed,
           NEW code \in codes, code # "ok"
    PROVE  Require(a, Allowed, code) \in Answers(codes, Items \cap Allowed)
<1>1. CASE a.code = "ok" /\ a.value \notin Allowed
    BY <1>1, AnswerRead, FailedAnswers DEF Require
<1>2. CASE a.code = "ok" /\ a.value \in Allowed
    <2>1. a.value \in Items \cap Allowed /\ a = Got(a.value, a.rest) /\ a.rest \in Bytes
        BY <1>2, AnswerRead
    <2>2. Got(a.value, a.rest) \in Answers(codes, Items \cap Allowed)
        BY <2>1, GotAnswers
    <2> QED
        BY <1>2, <2>1, <2>2 DEF Require
<1>3. CASE a.code # "ok"
    BY <1>3, AnswerRead, FailedAnswers DEF Require
<1> QED
    BY <1>1, <1>2, <1>3

LEMMA RenamedAnswers ==
    ASSUME NEW inner, NEW Items, NEW a \in Answers(inner, Items),
           NEW codes, NEW code \in codes, code # "ok"
    PROVE  Renamed(code, a) \in Answers(codes, Items)
<1>1. CASE a.code = "ok"
    BY <1>1, AnswerRead, GotAnswers DEF Renamed
<1>2. CASE a.code # "ok"
    BY <1>2, AnswerRead, FailedAnswers DEF Renamed
<1> QED
    BY <1>1, <1>2

\* An id that has to be one of those allowed.
LEMMA IdAnswers ==
    ASSUME NEW r \in Bytes, NEW Allowed, NEW code \in SectionCodes
    PROVE  Require(read_varint_u32(r), Allowed, code) \in Answers(SectionCodes, U32s \cap Allowed)
<1>1. read_varint_u32(r) \in Answers(SectionCodes, U32s)
    BY VarintU32Answers, AnswersMore DEF SectionCodes
<1>2. code # "ok"
    BY DEF SectionCodes, VarintCodes
<1> QED
    BY <1>1, <1>2, RequireAnswers

LEMMA ByteAnswers ==
    ASSUME NEW r \in Bytes
    PROVE  read_u8(r) \in Answers(SectionCodes, Nat)
<1> DEFINE Small == 0 .. Power(ByteBase, 1) - 1
           short == {"Truncated"}
<1>1. read_u8(r) \in Answers(short, Small)
    BY FixedAnswers DEF read_u8
<1>2. short \subseteq SectionCodes /\ Small \subseteq Nat
    <2>1. Power(ByteBase, 1) \in Nat
        BY PowerPositive, Widths
    <2> QED
        BY <2>1 DEF SectionCodes, VarintCodes
<1> HIDE DEF Small, short
<1> QED
    BY <1>1, <1>2, AnswersMore

UpTo(limit, Items) == {s \in Seq(Items) : Len(s) <= limit}

\* A list of as many items as stated, which are no more than the limit.
LEMMA CountedAnswers ==
    ASSUME NEW limit \in Nat, NEW Items, NEW Read, NEW r \in Bytes,
           \A i \in Nat \ {0} : \A s \in Bytes : Read[i][s] \in Answers(SectionCodes, Items)
    PROVE  ReadCounted(limit, Read, r) \in Answers(SectionCodes, UpTo(limit, Items))
<1> DEFINE a == read_count(limit, r)
           b == Repeat(a.value, Read, a.rest)
<1>1. a \in Answers(SectionCodes, U32s \cap (0 .. limit))
    BY IdAnswers DEF read_count, SectionCodes
<1>2. ReadCounted(limit, Read, r) = Chain(a, b)
    BY DEF ReadCounted, Bind, Chain
<1>3. ASSUME a.code = "ok" PROVE b \in Answers(SectionCodes, UpTo(limit, Items))
    <2>1. a.value \in 0 .. limit /\ a.rest \in Bytes
        BY <1>1, <1>3, AnswerRead
    <2> DEFINE n == a.value
               Same == [i \in 1 .. n |-> Items]
    <2>2. b \in Answers(SectionCodes, Lists(n, Same))
        <3>1. n \in Nat /\ \A i \in 1 .. n : i \in Nat \ {0} /\ Same[i] = Items
            BY <2>1
        <3> HIDE DEF a, n, Same
        <3> QED
            BY <2>1, <3>1, RepeatAnswers DEF n
    <2>3. Lists(n, Same) \subseteq UpTo(limit, Items)
        <3>1. UNION {Same[i] : i \in 1 .. n} \subseteq Items
            OBVIOUS
        <3> HIDE DEF a, Same
        <3> QED
            BY <2>1, <3>1, SeqMonotonic DEF Lists, UpTo
    <2> HIDE DEF a, b, n, Same
    <2> QED
        BY <2>2, <2>3, AnswersMore
<1> HIDE DEF a, b
<1> QED
    BY <1>1, <1>2, <1>3, ChainAnswers

\* The same when one reader reads every item.
LEMMA EachAnswers ==
    ASSUME NEW limit \in Nat, NEW Items, NEW reader, NEW r \in Bytes,
           \A s \in Bytes : reader[s] \in Answers(SectionCodes, Items)
    PROVE  ReadCounted(limit, Each(reader), r) \in Answers(SectionCodes, UpTo(limit, Items))
<1>1. \A i \in Nat \ {0} : Each(reader)[i] = reader
    BY DEF Each
<1>2. \A i \in Nat \ {0} : \A s \in Bytes : Each(reader)[i][s] \in Answers(SectionCodes, Items)
    BY <1>1
<1> QED
    BY <1>2, CountedAnswers

LEMMA Limits ==
    {MaxAtoms, MaxAtomLen, MaxKinds, MaxFieldsPerKind, MaxNodes, MaxListLen, MaxJournalOps}
        \subseteq Nat
BY FormatAssumption

Texts == {s \in Bytes : Len(s) <= MaxAtomLen}
FieldsIn(atoms) == [name : IdsOf(atoms), type : ValueTypes, flags : Nat]
KindsIn(atoms) == [name : IdsOf(atoms), fields : UpTo(MaxFieldsPerKind, FieldsIn(atoms))]

LEMMA AtomsAnswers ==
    ASSUME NEW r \in Bytes
    PROVE  decode_atoms(r) \in Answers(SectionCodes, UpTo(MaxAtoms, Texts))
<1> DEFINE reader == [rest \in Bytes |-> Renamed("BadAtomPool", read_lp_string(MaxAtomLen, rest))]
<1>1. ASSUME NEW s \in Bytes PROVE reader[s] \in Answers(SectionCodes, Texts)
    <2>1. Renamed("BadAtomPool", read_lp_string(MaxAtomLen, s)) \in Answers(SectionCodes, Texts)
        BY LpStringAnswers, RenamedAnswers, Limits DEF SectionCodes, Texts
    <2> QED
        BY <2>1
<1>2. decode_atoms(r) = ReadCounted(MaxAtoms, Each(reader), r)
    BY DEF decode_atoms
<1> HIDE DEF reader
<1> QED
    BY <1>1, <1>2, EachAnswers, Limits

LEMMA FieldDefAnswers ==
    ASSUME NEW atoms, NEW r \in Bytes
    PROVE  read_field_def(atoms, r) \in Answers(SectionCodes, FieldsIn(atoms))
<1> DEFINE a == Require(read_varint_u32(r), IdsOf(atoms), "BadSchema")
           b == Require(read_u8(a.rest), ValueTypes, "BadSchema")
           c == read_u8(b.rest)
           d == Got([name |-> a.value, type |-> b.value, flags |-> c.value], c.rest)
<1>1. read_field_def(atoms, r) = Chain(a, Chain(b, Chain(c, d)))
    BY DEF read_field_def, Bind, Chain
<1>2. a \in Answers(SectionCodes, U32s \cap IdsOf(atoms))
    BY IdAnswers DEF SectionCodes
<1>3. b \in Answers(SectionCodes, Nat \cap ValueTypes)
    <2>1. a.rest \in Bytes
        BY <1>2, AnswerRead
    <2> HIDE DEF a
    <2> QED
        BY <2>1, ByteAnswers, RequireAnswers DEF SectionCodes
<1>4. c \in Answers(SectionCodes, Nat)
    <2>1. b.rest \in Bytes
        BY <1>3, AnswerRead
    <2> HIDE DEF b
    <2> QED
        BY <2>1, ByteAnswers
<1> HIDE DEF a, b, c
<1>5. ASSUME a.code = "ok", b.code = "ok", c.code = "ok"
      PROVE  d \in Answers(SectionCodes, FieldsIn(atoms))
    <2>1. [name |-> a.value, type |-> b.value, flags |-> c.value] \in FieldsIn(atoms)
        BY <1>2, <1>3, <1>4, <1>5, AnswerRead DEF FieldsIn
    <2> QED
        BY <1>4, <2>1, AnswerRead, GotAnswers
<1> HIDE DEF d
<1>6. ASSUME a.code = "ok", b.code = "ok"
      PROVE  Chain(c, d) \in Answers(SectionCodes, FieldsIn(atoms))
    BY <1>4, <1>5, <1>6, ChainAnswers
<1>7. ASSUME a.code = "ok"
      PROVE  Chain(b, Chain(c, d)) \in Answers(SectionCodes, FieldsIn(atoms))
    BY <1>3, <1>6, <1>7, ChainAnswers
<1> QED
    BY <1>1, <1>2, <1>7, ChainAnswers

LEMMA KindAnswers ==
    ASSUME NEW atoms, NEW r \in Bytes
    PROVE  read_kind(atoms, r) \in Answers(SectionCodes, KindsIn(atoms))
<1> DEFINE reader == [rest \in Bytes |-> read_field_def(atoms, rest)]
           Fields == UpTo(MaxFieldsPerKind, FieldsIn(atoms))
           a == Require(read_varint_u32(r), IdsOf(atoms), "BadSchema")
           b == ReadCounted(MaxFieldsPerKind, Each(reader), a.rest)
           c == Got([name |-> a.value, fields |-> b.value], b.rest)
<1>1. read_kind(atoms, r) = Chain(a, Chain(b, c))
    BY DEF read_kind, Bind, Chain
<1>2. a \in Answers(SectionCodes, U32s \cap IdsOf(atoms))
    BY IdAnswers DEF SectionCodes
<1>3. b \in Answers(SectionCodes, Fields)
    <2>1. a.rest \in Bytes
        BY <1>2, AnswerRead
    <2>2. \A s \in Bytes : reader[s] \in Answers(SectionCodes, FieldsIn(atoms))
        BY FieldDefAnswers
    <2> HIDE DEF a, reader
    <2> QED
        BY <2>1, <2>2, EachAnswers, Limits
<1> HIDE DEF a, b
<1>4. ASSUME a.code = "ok", b.code = "ok"
      PROVE  c \in Answers(SectionCodes, KindsIn(atoms))
    <2>1. [name |-> a.value, fields |-> b.value] \in KindsIn(atoms)
        BY <1>2, <1>3, <1>4, AnswerRead DEF KindsIn
    <2> QED
        BY <1>3, <2>1, AnswerRead, GotAnswers
<1> HIDE DEF c, Fields
<1>5. ASSUME a.code = "ok"
      PROVE  Chain(b, c) \in Answers(SectionCodes, KindsIn(atoms))
    BY <1>3, <1>4, <1>5, ChainAnswers
<1> QED
    BY <1>1, <1>2, <1>5, ChainAnswers

LEMMA SchemaAnswers ==
    ASSUME NEW atoms, NEW r \in Bytes
    PROVE  decode_schema(atoms, r) \in Answers(SectionCodes, UpTo(MaxKinds, KindsIn(atoms)))
<1> DEFINE reader == [rest \in Bytes |-> read_kind(atoms, rest)]
<1>1. \A s \in Bytes : reader[s] \in Answers(SectionCodes, KindsIn(atoms))
    BY KindAnswers
<1>2. decode_schema(atoms, r) = ReadCounted(MaxKinds, Each(reader), r)
    BY DEF decode_schema
<1> HIDE DEF reader
<1> QED
    BY <1>1, <1>2, EachAnswers, Limits

\* The values that a field of a type may hold.
ValuesOf(type) ==
    {v \in [type : {type}, data : Seq(Int)] : type = ListType => Len(v.data) <= MaxListLen}

\* The value that one number read makes.
Single(type, a) ==
    LET b == Chain(a, Got(<< a.value >>, a.rest))
    IN  Chain(b, Got([type |-> type, data |-> b.value], b.rest))

\* Value::decode keeps to the type declared.
LEMMA ValueAnswers ==
    ASSUME NEW type \in ValueTypes, NEW r \in Bytes
    PROVE  decode_value(type, r) \in Answers(SectionCodes, ValuesOf(type))
<1>1. ASSUME NEW codes, NEW a \in Answers(codes, Int), codes \subseteq SectionCodes,
             type # ListType
      PROVE  Single(type, a) \in Answers(SectionCodes, ValuesOf(type))
    <2> DEFINE b == Chain(a, Got(<< a.value >>, a.rest))
               c == Got([type |-> type, data |-> b.value], b.rest)
    <2>1. a.code = "ok" => Got(<< a.value >>, a.rest) \in Answers(codes, Seq(Int))
        <3>1. a.code = "ok" => << a.value >> \in Seq(Int) /\ a.rest \in Bytes
            BY <1>1, AnswerRead
        <3> QED
            BY <3>1, GotAnswers
    <2>2. b \in Answers(codes, Seq(Int))
        BY <1>1, <2>1, ChainAnswers
    <2>3. b \in Answers(SectionCodes, Seq(Int))
        BY <1>1, <2>2, AnswersMore
    <2> HIDE DEF b
    <2>4. b.code = "ok" => c \in Answers(SectionCodes, ValuesOf(type))
        <3>1. b.code = "ok" => [type |-> type, data |-> b.value] \in ValuesOf(type)
            BY <1>1, <2>3, AnswerRead DEF ValuesOf
        <3> QED
            BY <2>3, <3>1, AnswerRead, GotAnswers
    <2> HIDE DEF c
    <2>5. Chain(b, c) \in Answers(SectionCodes, ValuesOf(type))
        BY <2>3, <2>4, ChainAnswers
    <2> QED
        BY <2>5 DEF b, c, Single
<1>2. CASE type = IntType
    <2>1. read_svarint(r) \in Answers(VarintCodes, Int) /\ VarintCodes \subseteq SectionCodes
        BY SvarintAnswers DEF SectionCodes
    <2>2. type # ListType
        BY <1>2 DEF IntType, ListType
    <2>3. decode_value(type, r) = Single(type, read_svarint(r))
        BY <1>2 DEF decode_value, Single, Bind, Chain,
               IntType, FloatType, AtomType, RefType, ListType
    <2> QED
        BY <1>1, <2>1, <2>2, <2>3
<1>3. CASE type = FloatType
    <2> DEFINE Small == 0 .. Power(ByteBase, U64Bytes) - 1
               short == {"Truncated"}
    <2>1. read_f64(r) \in Answers(short, Small)
        BY FixedAnswers, Widths DEF read_f64, read_u64
    <2>2. short \subseteq SectionCodes /\ Small \subseteq Int
        BY DEF SectionCodes, VarintCodes
    <2> HIDE DEF short, Small
    <2>3. read_f64(r) \in Answers(SectionCodes, Int)
        BY <2>1, <2>2, AnswersMore
    <2>4. type # ListType /\ type # IntType
        BY <1>3 DEF IntType, FloatType, ListType
    <2>5. decode_value(type, r) = Single(type, read_f64(r))
        BY <1>3, <2>4 DEF decode_value, Single, Bind, Chain,
               IntType, FloatType, AtomType, RefType, ListType
    <2> QED
        BY <1>1, <2>3, <2>4, <2>5
<1>4. CASE type \in {AtomType, RefType}
    <2>1. U32s \subseteq Int /\ VarintCodes \subseteq SectionCodes
        BY DEF U32s, SectionCodes
    <2>2. read_varint_u32(r) \in Answers(SectionCodes, Int)
        BY <2>1, VarintU32Answers, AnswersMore
    <2>3. type # ListType /\ type # IntType /\ type # FloatType
        BY <1>4 DEF IntType, FloatType, ListType, AtomType, RefType
    <2>4. decode_value(type, r) = Single(type, read_varint_u32(r))
        BY <1>4, <2>3 DEF decode_value, Single, Bind, Chain,
               IntType, FloatType, AtomType, RefType, ListType
    <2> QED
        BY <1>1, <2>2, <2>3, <2>4
<1>5. CASE type = ListType
    <2> DEFINE reader == [rest \in Bytes |-> read_varint_u32(rest)]
               b == ReadCounted(MaxListLen, Each(reader), r)
               c == Got([type |-> type, data |-> b.value], b.rest)
    <2>1. \A s \in Bytes : reader[s] \in Answers(SectionCodes, Int)
        <3>1. U32s \subseteq Int /\ VarintCodes \subseteq SectionCodes
            BY DEF U32s, SectionCodes
        <3> QED
            BY <3>1, VarintU32Answers, AnswersMore
    <2>2. b \in Answers(SectionCodes, UpTo(MaxListLen, Int))
        <3> HIDE DEF reader
        <3> QED
            BY <2>1, EachAnswers, Limits
    <2>3. decode_value(type, r) = Chain(b, c)
        BY <1>5 DEF decode_value, Bind, Chain, IntType, FloatType, AtomType, RefType, ListType
    <2> HIDE DEF b
    <2>4. b.code = "ok" => c \in Answers(SectionCodes, ValuesOf(type))
        <3>1. b.code = "ok" => [type |-> type, data |-> b.value] \in ValuesOf(type)
            BY <2>2, AnswerRead DEF ValuesOf, UpTo
        <3> QED
            BY <2>2, <3>1, AnswerRead, GotAnswers
    <2> HIDE DEF c
    <2> QED
        BY <2>2, <2>3, <2>4, ChainAnswers
<1> QED
    BY <1>2, <1>3, <1>4, <1>5
    DEF ValueTypes, IntType, FloatType, AtomType, RefType, ListType

\* Assigned one after another, every key holds what one of the pairs says of it.
LEMMA KeptIsOneOf ==
    ASSUME NEW S, NEW pairs \in Seq(S), NEW key \in DOMAIN KeepLast(pairs)
    PROVE  \E p \in S : p[1] = key /\ p[2] = KeepLast(pairs)[key]
<1> DEFINE places == {i \in DOMAIN pairs : pairs[i][1] = key}
<1>1. places # {} /\ KeepLast(pairs)[key] = pairs[Max(places)][2]
    BY DEF KeepLast
<1>2. places \in SUBSET Int /\ IsFiniteSet(places)
    <2>1. places \in SUBSET (1 .. Len(pairs)) /\ Len(pairs) \in Nat
        BY LenProperties
    <2> HIDE DEF places
    <2>2. IsFiniteSet(1 .. Len(pairs))
        BY <2>1, FS_Interval
    <2>3. IsFiniteSet(places)
        BY <2>1, <2>2, FS_Subset
    <2>4. \A i \in 1 .. Len(pairs) : i \in Int
        OBVIOUS
    <2>5. places \subseteq Int
        BY <2>1, <2>4
    <2> QED
        BY <2>3, <2>5
<1>3. Max(places) \in places
    <2> HIDE DEF places
    <2>1. \E m \in places : \A k \in places : k <= m
        BY <1>1, <1>2, GreatestElement
    <2>2. \E m \in places : \A k \in places : m >= k
        BY <1>2, <2>1
    <2> QED
        BY <2>2 DEF Max
<1>4. pairs[Max(places)] \in S /\ pairs[Max(places)][1] = key
    BY <1>3, LenProperties, ElementOfSeq
<1> QED
    BY <1>1, <1>4

\* A field of a kind and a value of the type it declares.
SettingsOf(kind) ==
    UNION {{<< f, v >> : v \in ValuesOf(kind.fields[f + 1].type)} : f \in IdsOf(kind.fields)}

NodesIn(atoms, kinds) ==
    UNION {{[kind |-> k, name |-> name, fields |-> KeepLast(pairs)] :
                name \in OrNone(IdsOf(atoms)), pairs \in Seq(SettingsOf(kinds[k + 1]))} :
           k \in IdsOf(kinds)}

\* A kind as the decoder of the schema leaves it.
IsKind(kind) ==
    kind.fields \in Seq([name : Nat, type : ValueTypes, flags : Nat])

LEMMA FieldValueAnswers ==
    ASSUME NEW kind, IsKind(kind), NEW r \in Bytes
    PROVE  read_field_value(kind, r) \in Answers(SectionCodes, SettingsOf(kind))
<1> DEFINE a == Require(read_varint_u32(r), IdsOf(kind.fields), "FieldOutOfRange")
           b == Renamed("BadHeap", decode_value(kind.fields[a.value + 1].type, a.rest))
           c == Got(<< a.value, b.value >>, b.rest)
<1>1. read_field_value(kind, r) = Chain(a, Chain(b, c))
    BY DEF read_field_value, Bind, Chain
<1>2. a \in Answers(SectionCodes, U32s \cap IdsOf(kind.fields))
    BY IdAnswers DEF SectionCodes
<1> HIDE DEF a
<1>3. ASSUME a.code = "ok"
      PROVE  Chain(b, c) \in Answers(SectionCodes, SettingsOf(kind))
    <2> DEFINE f == a.value
               type == kind.fields[f + 1].type
    <2>1. f \in IdsOf(kind.fields) /\ a.rest \in Bytes
        BY <1>2, <1>3, AnswerRead
    <2>2. type \in ValueTypes
        <3>1. f + 1 \in 1 .. Len(kind.fields)
            BY <2>1, SMTT(60) DEF IsKind, IdsOf
        <3>2. kind.fields[f + 1] \in [name : Nat, type : ValueTypes, flags : Nat]
            BY <3>1, ElementOfSeq DEF IsKind
        <3> QED
            BY <3>2
    <2>3. b \in Answers(SectionCodes, ValuesOf(type))
        <3> HIDE DEF type
        <3>1. decode_value(type, a.rest) \in Answers(SectionCodes, ValuesOf(type))
            BY <2>1, <2>2, ValueAnswers
        <3> QED
            BY <3>1, RenamedAnswers DEF SectionCodes, type
    <2> HIDE DEF b
    <2>4. b.code = "ok" => c \in Answers(SectionCodes, SettingsOf(kind))
        <3>1. b.code = "ok" => b.value \in ValuesOf(type) /\ b.rest \in Bytes
            BY <2>3, AnswerRead
        <3>2. b.code = "ok" => << f, b.value >> \in SettingsOf(kind)
            BY <2>1, <3>1 DEF SettingsOf
        <3> QED
            BY <3>1, <3>2, GotAnswers
    <2> HIDE DEF c
    <2> QED
        BY <2>3, <2>4, ChainAnswers
<1> HIDE DEF b, c
<1> QED
    BY <1>1, <1>2, <1>3, ChainAnswers

LEMMA ValuesAnswers ==
    ASSUME NEW kind, IsKind(kind), NEW r \in Bytes
    PROVE  read_values(kind, r) \in Answers(SectionCodes, Seq(SettingsOf(kind)))
<1> DEFINE reader == [rest \in Bytes |-> read_field_value(kind, rest)]
           a == Require(read_varint_u32(r), 0 .. Len(kind.fields), "BadHeap")
           b == Repeat(a.value, Each(reader), a.rest)
<1>1. read_values(kind, r) = Chain(a, b)
    BY DEF read_values, Bind, Chain
<1>2. a \in Answers(SectionCodes, U32s \cap (0 .. Len(kind.fields)))
    BY IdAnswers DEF SectionCodes
<1> HIDE DEF a
<1>3. ASSUME a.code = "ok"
      PROVE  b \in Answers(SectionCodes, Seq(SettingsOf(kind)))
    <2> DEFINE n == a.value
               Items == SettingsOf(kind)
               Same == [i \in 1 .. n |-> Items]
    <2>1. n \in Nat /\ a.rest \in Bytes
        BY <1>2, <1>3, AnswerRead DEF U32s
    <2>2. \A i \in 1 .. n : /\ Each(reader)[i] = reader /\ Same[i] = Items
                            /\ \A s \in Bytes : reader[s] \in Answers(SectionCodes, Items)
        BY FieldValueAnswers DEF Each
    <2>3. UNION {Same[i] : i \in 1 .. n} \subseteq Items
        OBVIOUS
    <2> HIDE DEF n, Items, Same, reader
    <2>4. b \in Answers(SectionCodes, Lists(n, Same))
        BY <2>1, <2>2, RepeatAnswers DEF n
    <2>5. Lists(n, Same) \subseteq Seq(Items)
        BY <2>3, SeqMonotonic DEF Lists
    <2> HIDE DEF b
    <2> QED
        BY <2>4, <2>5, AnswersMore DEF Items
<1> HIDE DEF b
<1> QED
    BY <1>1, <1>2, <1>3, ChainAnswers

LEMMA NodeAnswers ==
    ASSUME NEW id, NEW atoms, NEW kinds, NEW r \in Bytes,
           Len(kinds) \in Nat, \A i \in 1 .. Len(kinds) : IsKind(kinds[i])
    PROVE  read_heap_node(id, atoms, kinds, r) \in Answers(SectionCodes, NodesIn(atoms, kinds))
<1> DEFINE a == Require(read_varint_u32(r), {id}, "BadHeap")
           b == Require(read_varint_u32(a.rest), IdsOf(kinds), "KindOutOfRange")
           c == Require(read_varint_u32(b.rest), OrNone(IdsOf(atoms)), "AtomOutOfRange")
           d == read_values(kinds[b.value + 1], c.rest)
           e == Got([kind |-> b.value, name |-> c.value, fields |-> KeepLast(d.value)], d.rest)
<1>1. read_heap_node(id, atoms, kinds, r) = Chain(a, Chain(b, Chain(c, Chain(d, e))))
    BY DEF read_heap_node, Bind, Chain
<1>2. a.rest \in Bytes /\ a \in Answers(SectionCodes, U32s \cap {id})
    BY IdAnswers, AnswerRead, ZenonT(60) DEF SectionCodes
<1> HIDE DEF a
<1>3. b.rest \in Bytes /\ b \in Answers(SectionCodes, U32s \cap IdsOf(kinds))
    BY <1>2, IdAnswers, AnswerRead, ZenonT(60) DEF SectionCodes
<1> HIDE DEF b
<1>4. c.rest \in Bytes /\ c \in Answers(SectionCodes, U32s \cap OrNone(IdsOf(atoms)))
    BY <1>3, IdAnswers, AnswerRead, ZenonT(60) DEF SectionCodes
<1> HIDE DEF c
<1>5. ASSUME b.code = "ok", c.code = "ok"
      PROVE  Chain(d, e) \in Answers(SectionCodes, NodesIn(atoms, kinds))
    <2> DEFINE kind == kinds[b.value + 1]
    <2>1. b.value \in IdsOf(kinds) /\ c.value \in OrNone(IdsOf(atoms))
        BY <1>3, <1>4, <1>5, AnswerRead
    <2>2. IsKind(kind)
        <3>1. b.value + 1 \in 1 .. Len(kinds)
            BY <2>1 DEF IdsOf
        <3> QED
            BY <3>1
    <2> HIDE DEF kind
    <2>3. d \in Answers(SectionCodes, Seq(SettingsOf(kind)))
        BY <1>4, <2>2, ValuesAnswers DEF kind
    <2> HIDE DEF d
    <2>4. d.code = "ok" => e \in Answers(SectionCodes, NodesIn(atoms, kinds))
        <3>1. d.code = "ok" => d.value \in Seq(SettingsOf(kind)) /\ d.rest \in Bytes
            BY <2>3, AnswerRead
        <3>2. d.code = "ok" => [kind |-> b.value, name |-> c.value, fields |-> KeepLast(d.value)]
                                   \in NodesIn(atoms, kinds)
            BY <2>1, <3>1 DEF NodesIn, kind
        <3> QED
            BY <3>1, <3>2, GotAnswers
    <2> HIDE DEF e
    <2> QED
        BY <2>3, <2>4, ChainAnswers
<1> DEFINE de == Chain(d, e)
<1> HIDE DEF de
<1>6. b.code = "ok" => Chain(c, de) \in Answers(SectionCodes, NodesIn(atoms, kinds))
    BY <1>4, <1>5, ChainAnswers DEF de
<1>7. Chain(b, Chain(c, de)) \in Answers(SectionCodes, NodesIn(atoms, kinds))
    BY <1>3, <1>6, ChainAnswers
<1>8. Chain(a, Chain(b, Chain(c, de))) \in Answers(SectionCodes, NodesIn(atoms, kinds))
    BY <1>2, <1>7, ChainAnswers
<1> QED
    BY <1>1, <1>8 DEF de

LEMMA KindsTyped ==
    ASSUME NEW atoms, NEW kinds \in UpTo(MaxKinds, KindsIn(atoms))
    PROVE  /\ Len(kinds) \in Nat /\ Len(kinds) <= MaxKinds
           /\ \A i \in 1 .. Len(kinds) : kinds[i] \in KindsIn(atoms) /\ IsKind(kinds[i])
<1>1. ASSUME NEW kind \in KindsIn(atoms) PROVE IsKind(kind)
    <2>1. kind.fields \in Seq(FieldsIn(atoms))
        BY DEF KindsIn, UpTo
    <2>2. FieldsIn(atoms) \subseteq [name : Nat, type : ValueTypes, flags : Nat]
        BY DEF FieldsIn, IdsOf
    <2> QED
        BY <2>1, <2>2, SeqMonotonic DEF IsKind
<1>2. kinds \in Seq(KindsIn(atoms)) /\ Len(kinds) <= MaxKinds
    BY DEF UpTo
<1>3. Len(kinds) \in Nat /\ \A i \in 1 .. Len(kinds) : kinds[i] \in KindsIn(atoms)
    BY <1>2
<1> QED
    BY <1>1, <1>2, <1>3

\* Each node is as its kind says.
LEMMA HeapAnswers ==
    ASSUME NEW atoms, NEW kinds \in UpTo(MaxKinds, KindsIn(atoms)), NEW r \in Bytes
    PROVE  decode_heap(atoms, kinds, r)
               \in Answers(SectionCodes, UpTo(MaxNodes, NodesIn(atoms, kinds)))
<1> DEFINE Read == [i \in Nat |-> [rest \in Bytes |-> read_heap_node(i - 1, atoms, kinds, rest)]]
<1>1. \A i \in Nat \ {0} : \A s \in Bytes :
          Read[i][s] \in Answers(SectionCodes, NodesIn(atoms, kinds))
    <2> SUFFICES ASSUME NEW i \in Nat \ {0}, NEW s \in Bytes
                 PROVE  Read[i][s] \in Answers(SectionCodes, NodesIn(atoms, kinds))
        OBVIOUS
    <2>1. Read[i][s] = read_heap_node(i - 1, atoms, kinds, s)
        OBVIOUS
    <2> HIDE DEF Read
    <2> QED
        BY <2>1, KindsTyped, NodeAnswers
<1>2. decode_heap(atoms, kinds, r) = ReadCounted(MaxNodes, Read, r)
    BY DEF decode_heap
<1> HIDE DEF Read
<1> QED
    BY <1>1, <1>2, CountedAnswers, Limits

\* Pairs of ids.
LEMMA PairsAnswers ==
    ASSUME NEW limit \in Nat, NEW A, NEW B, NEW code \in SectionCodes, NEW r \in Bytes
    PROVE  ReadPairs(limit, A \X B, code, r) \in Answers(SectionCodes, UpTo(limit, A \X B))
<1> DEFINE reader == [rest \in Bytes |-> Require(ReadIds(2, rest), A \X B, code)]
           one == [rest \in Bytes |-> read_varint_u32(rest)]
           Same == [i \in 1 .. 2 |-> U32s]
<1>1. ASSUME NEW s \in Bytes PROVE reader[s] \in Answers(SectionCodes, A \X B)
    <2>1. \A i \in 1 .. 2 : \A t \in Bytes : Each(one)[i][t] \in Answers(SectionCodes, Same[i])
        <3>1. \A i \in 1 .. 2 : i \in Nat /\ Each(one)[i] = one /\ Same[i] = U32s
            BY DEF Each
        <3>2. \A t \in Bytes : one[t] \in Answers(SectionCodes, U32s)
            BY VarintU32Answers, AnswersMore DEF SectionCodes
        <3> HIDE DEF one, Same
        <3> QED
            BY <3>1, <3>2
    <2>2. ReadIds(2, s) \in Answers(SectionCodes, Lists(2, Same))
        <3>1. ReadIds(2, s) = Repeat(2, Each(one), s)
            BY DEF ReadIds
        <3> HIDE DEF one, Same
        <3> QED
            BY <2>1, <3>1, RepeatAnswers
    <2>3. Require(ReadIds(2, s), A \X B, code)
              \in Answers(SectionCodes, Lists(2, Same) \cap (A \X B))
        BY <2>2, RequireAnswers DEF SectionCodes, VarintCodes
    <2>4. Require(ReadIds(2, s), A \X B, code) \in Answers(SectionCodes, A \X B)
        BY <2>3, AnswersMore
    <2> QED
        BY <2>4
<1>2. ReadPairs(limit, A \X B, code, r) = ReadCounted(limit, Each(reader), r)
    BY DEF ReadPairs
<1> HIDE DEF reader
<1> QED
    BY <1>1, <1>2, EachAnswers, ZenonT(60)

\* What META holds is of the pool.
LEMMA MetaAnswers ==
    ASSUME NEW atoms, NEW r \in Bytes
    PROVE  decode_meta_section(atoms, r) \in Answers(SectionCodes,
               {KeepLast(pairs) : pairs \in Seq(IdsOf(atoms) \X OrNone(IdsOf(atoms)))})
<1> DEFINE Pairs == IdsOf(atoms) \X OrNone(IdsOf(atoms))
           Tables == {KeepLast(pairs) : pairs \in Seq(Pairs)}
           a == ReadPairs(MaxAtoms, Pairs, "AtomOutOfRange", r)
           b == Got(KeepLast(a.value), a.rest)
<1>1. decode_meta_section(atoms, r) = Chain(a, b)
    BY DEF decode_meta_section, Bind, Chain
<1>2. a \in Answers(SectionCodes, UpTo(MaxAtoms, Pairs))
    BY PairsAnswers, Limits DEF SectionCodes
<1> HIDE DEF a, Pairs
<1>3. a.code = "ok" => b \in Answers(SectionCodes, Tables)
    <2>1. a.code = "ok" => a.value \in Seq(Pairs) /\ a.rest \in Bytes
        BY <1>2, AnswerRead DEF UpTo
    <2> QED
        BY <2>1, GotAnswers
<1> HIDE DEF b, Tables
<1>4. Chain(a, b) \in Answers(SectionCodes, Tables)
    BY <1>2, <1>3, ChainAnswers
<1> QED
    BY <1>1, <1>4 DEF Tables, Pairs

-----------------------------------------------------------------------------
(* The writer *)

LEMMA PowerSteps ==
    ASSUME NEW base \in Nat, NEW n \in Nat
    PROVE  Power(base, 0) = 1 /\ Power(base, n + 1) = base * Power(base, n)
<1>1. Power(base, 0) = 1
    BY PowerRecursion, ZenonT(60)
<1>2. PICK p \in [0 .. n + 1 -> Nat] :
          /\ p[0] = 1 /\ \A k \in 1 .. n + 1 : p[k] = base * p[k - 1]
          /\ Power(base, n + 1) = p[n + 1]
    <2> DEFINE m == n + 1
    <2>1. m \in Nat
        OBVIOUS
    <2> HIDE DEF m
    <2>2. \E p \in [0 .. m -> Nat] :
              /\ p[0] = 1 /\ \A k \in 1 .. m : p[k] = base * p[k - 1]
              /\ Power(base, m) = p[m]
        BY <2>1, PowerRecursion
    <2> QED
        BY <2>2 DEF m
<1>3. PICK q \in [0 .. n -> Nat] :
          /\ q[0] = 1 /\ \A k \in 1 .. n : q[k] = base * q[k - 1]
          /\ Power(base, n) = q[n]
    BY PowerRecursion
<1> DEFINE P == {k \in 0 .. n : p[k] = q[k]}
<1>4. 0 \in P
    BY <1>2, <1>3
<1>5. ASSUME NEW k \in 1 .. n, k - 1 \in P PROVE k \in P
    BY <1>2, <1>3, <1>5
<1>6. n \in P
    <2> HIDE DEF P
    <2>1. 0 .. n \subseteq P
        BY <1>4, <1>5, UpTheInterval
    <2> QED
        BY <2>1
<1>7. n + 1 \in 1 .. n + 1 /\ (n + 1) - 1 = n
    OBVIOUS
<1>8. p[n + 1] = base * p[n]
    BY <1>2, <1>7
<1> QED
    BY <1>1, <1>2, <1>3, <1>6, <1>8

\* What is left after k digits, with k more zeros, is no more than the number.
LEMMA ShiftedBound ==
    ASSUME NEW base \in Nat \ {0}, NEW v \in Nat, NEW n \in Nat, NEW k \in 0 .. n
    PROVE  Shifted(base, v, n)[k] \in Nat /\ Shifted(base, v, n)[k] * Power(base, k) <= v
<1> DEFINE left0 == Shifted(base, v, n)
           P == {i \in 0 .. n : left0[i] \in Nat /\ left0[i] * Power(base, i) <= v}
<1>1. left0[0] = v /\ \A i \in 1 .. n : left0[i] = left0[i - 1] \div base
    <2>1. v \in Int
        OBVIOUS
    <2> QED
        BY <2>1, ShiftedRecursion, ZenonT(60)
<1> HIDE DEF left0
<1>2. 0 \in P
    <2>1. Power(base, 0) = 1
        BY PowerSteps
    <2> QED
        BY <1>1, <2>1
<1>3. ASSUME NEW i \in 1 .. n, i - 1 \in P PROVE i \in P
    <2> DEFINE x == left0[i - 1]
               p == Power(base, i - 1)
    <2>1. x \in Nat /\ p \in Nat /\ x * p <= v
        BY <1>3, PowerPositive
    <2>2. left0[i] = x \div base
        BY <1>1
    <2>3. Power(base, i) = base * p
        <3>1. (i - 1) + 1 = i /\ i - 1 \in Nat
            OBVIOUS
        <3> QED
            BY <3>1, PowerSteps
    <2> HIDE DEF x, p
    <2>4. x \div base \in Nat /\ (x \div base) * (base * p) <= v
        BY <2>1
    <2> QED
        BY <2>2, <2>3, <2>4
<1>4. 0 .. n \subseteq P
    <2> HIDE DEF P
    <2> QED
        BY <1>2, <1>3, UpTheInterval
<1> QED
    BY <1>4 DEF left0

\* A number below a power has one digit left where the power has one more.
LEMMA ShiftedShort ==
    ASSUME NEW base \in Nat \ {0}, NEW v \in Nat, NEW n \in Nat, NEW k \in 0 .. n,
           v < Power(base, k + 1)
    PROVE  Shifted(base, v, n)[k] < base
<1> DEFINE x == Shifted(base, v, n)[k]
           p == Power(base, k)
<1>1. x \in Nat /\ x * p <= v
    BY ShiftedBound
<1>2. p \in Nat \ {0} /\ Power(base, k + 1) = base * p
    <2>1. k \in Nat
        OBVIOUS
    <2> QED
        BY <2>1, PowerPositive, PowerSteps
<1> HIDE DEF x, p
<1>3. x * p < base * p
    <2>1. x * p \in Int /\ base * p \in Int
        BY <1>1, <1>2
    <2> QED
        BY <1>1, <1>2, <2>1
<1>4. x < base
    BY <1>1, <1>2, <1>3
<1> QED
    BY <1>4 DEF x

\* The groups of an argument of varint().
GroupsLeft(v) == Shifted(GroupBase, v % WordSize, MaxGroups)
Spells(bytes, v, n) ==
    /\ GroupsLeft(v)[n - 1] < GroupBase
    /\ \A i \in 1 .. n - 1 : GroupsLeft(v)[i - 1] >= GroupBase
    /\ bytes = [i \in 1 .. n |-> (GroupsLeft(v)[i - 1] % GroupBase)
                                + (IF i < n THEN GroupBase ELSE 0)]

\* A varint has room for a word, and is as short as its groups allow.
LEMMA VarintForm ==
    ASSUME NEW v \in Int
    PROVE  \E n \in 1 .. MaxGroups :
              /\ Spells(varint(v), v, n)
              /\ \A m \in 1 .. MaxGroups : v % WordSize < Power(GroupBase, m) => n <= m
<1> DEFINE w == v % WordSize
           ends == {i \in 1 .. MaxGroups : GroupsLeft(v)[i - 1] < GroupBase}
           n == Min(ends)
<1>1. w \in Nat /\ w < WordSize /\ MaxGroups \in Nat \ {0}
    BY Widths
<1> HIDE DEF w
<1>2. GroupsLeft(v) \in [0 .. MaxGroups -> Int]
    <2>1. w \in Int /\ MaxGroups \in Nat /\ GroupBase \in Nat \ {0}
        BY <1>1, Widths
    <2> QED
        BY <2>1, ShiftedRecursion DEF GroupsLeft, w
<1>3. ASSUME NEW m \in 1 .. MaxGroups, w < Power(GroupBase, m) PROVE m \in ends
    <2>1. m - 1 \in 0 .. MaxGroups /\ (m - 1) + 1 = m
        BY <1>1
    <2>2. GroupsLeft(v)[m - 1] < GroupBase
        BY <1>1, <1>3, <2>1, Widths, ShiftedShort DEF GroupsLeft, w
    <2> QED
        BY <2>2
<1>4. MaxGroups \in ends
    <2>1. Power(GroupBase, MaxGroups) >= WordSize
        BY CodecAssumption
    <2>2. Power(GroupBase, MaxGroups) \in Nat
        BY Widths, PowerPositive
    <2>3. w < Power(GroupBase, MaxGroups) /\ MaxGroups \in 1 .. MaxGroups
        BY <1>1, <2>1, <2>2, Widths
    <2> HIDE DEF ends
    <2> QED
        BY <1>3, <2>3
<1>5. n \in ends /\ \A k \in ends : n <= k
    <2>1. ends \in SUBSET Nat
        BY <1>1
    <2> HIDE DEF ends
    <2> QED
        BY <1>4, <2>1, MinIsLeast
<1>6. varint(v) = [i \in 1 .. n |-> (GroupsLeft(v)[i - 1] % GroupBase)
                                   + (IF i < n THEN GroupBase ELSE 0)]
    BY DEF varint, GroupsLeft
<1> HIDE DEF n
<1>7. n \in 1 .. MaxGroups /\ GroupsLeft(v)[n - 1] < GroupBase
    BY <1>5
<1>8. ASSUME NEW i \in 1 .. n - 1 PROVE GroupsLeft(v)[i - 1] >= GroupBase
    <2>1. i \in 1 .. MaxGroups /\ ~ (n <= i) /\ i - 1 \in 0 .. MaxGroups
        BY <1>1, <1>7
    <2>2. ~ (GroupsLeft(v)[i - 1] < GroupBase)
        BY <1>5, <2>1
    <2>3. GroupsLeft(v)[i - 1] \in Int
        BY <1>2, <2>1
    <2> QED
        BY <2>2, <2>3, Widths
<1>9. \A m \in 1 .. MaxGroups : w < Power(GroupBase, m) => n <= m
    BY <1>3, <1>5
<1> QED
    BY <1>6, <1>7, <1>8, <1>9 DEF Spells, w

LEMMA GroupDigits ==
    ASSUME NEW v \in Int
    PROVE  /\ GroupsLeft(v) \in [0 .. MaxGroups -> Nat]
           /\ GroupsLeft(v)[0] = v % WordSize
           /\ \A k \in 1 .. MaxGroups : GroupsLeft(v)[k] = GroupsLeft(v)[k - 1] \div GroupBase
<1>1. v % WordSize \in Nat /\ v % WordSize \in Int
    BY Widths
<1>2. MaxGroups \in Nat /\ GroupBase \in Nat \ {0}
    BY Widths
<1>3. /\ GroupsLeft(v) \in [0 .. MaxGroups -> Int]
      /\ GroupsLeft(v)[0] = v % WordSize
      /\ \A k \in 1 .. MaxGroups : GroupsLeft(v)[k] = GroupsLeft(v)[k - 1] \div GroupBase
    BY <1>1, <1>2, ShiftedRecursion, ZenonT(60) DEF GroupsLeft
<1>4. \A k \in 0 .. MaxGroups : GroupsLeft(v)[k] \in Nat
    BY <1>1, <1>2, ShiftedBound DEF GroupsLeft
<1> QED
    BY <1>3, <1>4

LEMMA VarintTyped ==
    ASSUME NEW v \in Int
    PROVE  varint(v) \in Bytes
<1>1. PICK n \in 1 .. MaxGroups : Spells(varint(v), v, n)
    BY VarintForm
<1>2. n \in Nat /\ \A i \in 1 .. n : i - 1 \in 0 .. MaxGroups
    BY Widths
<1>3. ASSUME NEW i \in 1 .. n
      PROVE  (GroupsLeft(v)[i - 1] % GroupBase) + (IF i < n THEN GroupBase ELSE 0) \in Byte
    <2> DEFINE x == GroupsLeft(v)[i - 1]
    <2>1. x \in Nat
        BY <1>2, GroupDigits
    <2> HIDE DEF x
    <2>2. x % GroupBase \in 0 .. GroupBase - 1
        BY <2>1, Widths
    <2>3. (x % GroupBase) + (IF i < n THEN GroupBase ELSE 0) \in 0 .. 2 * GroupBase - 1
        BY <2>2, Widths
    <2> QED
        BY <2>3 DEF x, Byte, ByteBase
<1>4. varint(v) = [i \in 1 .. n |-> (GroupsLeft(v)[i - 1] % GroupBase)
                                   + (IF i < n THEN GroupBase ELSE 0)]
    BY <1>1 DEF Spells
<1> QED
    BY <1>2, <1>3, <1>4 DEF Bytes

LEMMA FixedTyped ==
    ASSUME NEW n \in Nat, NEW v \in Int
    PROVE  fixed(n, v) \in Bytes /\ Len(fixed(n, v)) = n
<1> DEFINE left0 == Shifted(ByteBase, v, n)
<1>1. left0 \in [0 .. n -> Int]
    BY Widths, ShiftedRecursion
<1>2. fixed(n, v) = [i \in 1 .. n |-> left0[i - 1] % ByteBase]
    BY DEF fixed
<1> HIDE DEF left0
<1>3. ASSUME NEW i \in 1 .. n PROVE left0[i - 1] % ByteBase \in Byte
    <2>1. left0[i - 1] \in Int
        BY <1>1
    <2> QED
        BY <2>1, Widths DEF Byte
<1> QED
    BY <1>2, <1>3 DEF Bytes

LEMMA JoinTyped ==
    ASSUME NEW s \in Bytes, NEW t \in Bytes
    PROVE  s \o t \in Bytes
BY ConcatProperties DEF Bytes

\* A run of pieces, and a count of what they are made of before them.
LEMMA RunTyped ==
    ASSUME NEW n \in Nat, NEW pieces, pieces = [i \in 1 .. n |-> pieces[i]],
           \A i \in 1 .. n : pieces[i] \in Bytes
    PROVE  FlattenSeq(pieces) \in Bytes /\ varint(n) \o FlattenSeq(pieces) \in Bytes
<1>1. pieces \in Seq(Seq(Byte))
    BY DEF Bytes
<1>2. FlattenSeq(pieces) \in Bytes
    BY <1>1, FlattenTyped DEF Bytes
<1> QED
    BY <1>2, VarintTyped, JoinTyped

LEMMA IdsTyped ==
    ASSUME NEW ids \in Seq(Int)
    PROVE  Ids(ids) \in Bytes
<1> DEFINE n == Len(ids)
           pieces == [i \in 1 .. n |-> varint(ids[i])]
<1>1. n \in Nat /\ DOMAIN ids = 1 .. n /\ \A i \in 1 .. n : ids[i] \in Int
    OBVIOUS
<1>2. Ids(ids) = FlattenSeq(pieces)
    BY <1>1 DEF Ids
<1> HIDE DEF n
<1>3. pieces = [i \in 1 .. n |-> pieces[i]] /\ \A i \in 1 .. n : pieces[i] \in Bytes
    BY <1>1, VarintTyped
<1> HIDE DEF pieces
<1> QED
    BY <1>1, <1>2, <1>3, RunTyped

LEMMA EncTyped ==
    ASSUME NEW v \in Values
    PROVE  enc(v) \in Bytes
<1>1. v.type \in ValueTypes /\ v.data \in Seq(Int) /\ (v.type # ListType => Len(v.data) = 1)
    BY DEF Values
<1>2. v.type # ListType => v.data[1] \in Int
    BY <1>1
<1>3. CASE v.type = IntType
    <2>1. v.data[1] \in Int
        BY <1>2, <1>3 DEF IntType, ListType
    <2>2. svarint(v.data[1]) \in Bytes
        <3>1. (IF v.data[1] >= 0 THEN 2 * v.data[1] ELSE - 2 * v.data[1] - 1) \in Int
            BY <2>1
        <3> QED
            BY <3>1, VarintTyped DEF svarint
    <2> QED
        BY <1>3, <2>2 DEF enc, IntType, FloatType, AtomType, RefType, ListType
<1>4. CASE v.type = FloatType
    <2>1. v.data[1] \in Int
        BY <1>2, <1>4 DEF FloatType, ListType
    <2>2. u64(v.data[1]) \in Bytes
        BY <2>1, FixedTyped, Widths DEF u64
    <2> QED
        BY <1>4, <2>2 DEF enc, IntType, FloatType, AtomType, RefType, ListType
<1>5. CASE v.type \in {AtomType, RefType}
    <2>1. v.data[1] \in Int
        BY <1>2, <1>5 DEF AtomType, RefType, ListType
    <2>2. varint(v.data[1]) \in Bytes
        BY <2>1, VarintTyped
    <2> QED
        BY <1>5, <2>2 DEF enc, IntType, FloatType, AtomType, RefType, ListType
<1>6. CASE v.type = ListType
    <2>1. varint(Len(v.data)) \o Ids(v.data) \in Bytes
        <3>1. Len(v.data) \in Int
            BY <1>1
        <3> QED
            BY <1>1, <3>1, VarintTyped, IdsTyped, JoinTyped
    <2> QED
        BY <1>6, <2>1 DEF enc, IntType, FloatType, AtomType, RefType, ListType
<1> QED
    BY <1>1, <1>3, <1>4, <1>5, <1>6
    DEF ValueTypes, IntType, FloatType, AtomType, RefType, ListType

LEMMA AtomTyped ==
    ASSUME NEW c \in Builders
    PROVE  build_atom_section(c) \in Bytes
<1> DEFINE n == Len(c.atoms)
           pieces == [i \in 1 .. n |-> lp_string(c.atoms[i])]
<1>1. n \in Nat /\ DOMAIN c.atoms = 1 .. n
    BY DEF Builders
<1>2. build_atom_section(c) = varint(n) \o FlattenSeq(pieces)
    BY <1>1 DEF build_atom_section, Counted
<1> HIDE DEF n
<1>3. ASSUME NEW i \in 1 .. n PROVE lp_string(c.atoms[i]) \in Bytes
    <2>1. c.atoms[i] \in Bytes /\ Len(c.atoms[i]) \in Int
        BY <1>1 DEF Builders, Bytes, n
    <2> QED
        BY <2>1, VarintTyped, JoinTyped DEF lp_string
<1>4. pieces = [i \in 1 .. n |-> pieces[i]] /\ \A i \in 1 .. n : pieces[i] \in Bytes
    BY <1>3
<1> HIDE DEF pieces
<1> QED
    BY <1>1, <1>2, <1>4, RunTyped

LEMMA FieldsTyped ==
    ASSUME NEW fields \in Seq(FieldDefs)
    PROVE  Counted(fields, LAMBDA j, f : varint(f.name) \o u8(f.type) \o u8(f.flags)) \in Bytes
<1> DEFINE n == Len(fields)
           piece(f) == varint(f.name) \o u8(f.type) \o u8(f.flags)
           pieces == [i \in 1 .. n |-> piece(fields[i])]
<1>1. n \in Nat /\ DOMAIN fields = 1 .. n /\ \A i \in 1 .. n : fields[i] \in FieldDefs
    OBVIOUS
<1>2. Counted(fields, LAMBDA j, f : varint(f.name) \o u8(f.type) \o u8(f.flags))
          = varint(n) \o FlattenSeq(pieces)
    BY <1>1 DEF Counted
<1> HIDE DEF n
<1>3. ASSUME NEW f \in FieldDefs PROVE piece(f) \in Bytes
    <2>1. f.name \in Int /\ f.type \in Int /\ f.flags \in Int
        BY DEF FieldDefs, ValueTypes
    <2> QED
        BY <2>1, VarintTyped, FixedTyped, JoinTyped DEF u8
<1> HIDE DEF piece
<1>4. pieces = [i \in 1 .. n |-> pieces[i]] /\ \A i \in 1 .. n : pieces[i] \in Bytes
    BY <1>1, <1>3
<1> HIDE DEF pieces
<1> QED
    BY <1>1, <1>2, <1>4, RunTyped

Setters == [field : Nat, value : Values]

LEMMA SettersTyped ==
    ASSUME NEW fields \in Seq(Setters)
    PROVE  Counted(fields, LAMBDA j, fv : varint(fv.field) \o enc(fv.value)) \in Bytes
<1> DEFINE n == Len(fields)
           piece(fv) == varint(fv.field) \o enc(fv.value)
           pieces == [i \in 1 .. n |-> piece(fields[i])]
<1>1. /\ n \in Nat /\ DOMAIN fields = 1 .. n
      /\ \A i \in 1 .. n : fields[i] \in Setters
    OBVIOUS
<1>2. Counted(fields, LAMBDA j, fv : varint(fv.field) \o enc(fv.value))
          = varint(n) \o FlattenSeq(pieces)
    BY <1>1 DEF Counted
<1> HIDE DEF n
<1>3. ASSUME NEW fv \in Setters PROVE piece(fv) \in Bytes
    BY VarintTyped, EncTyped, JoinTyped DEF Setters
<1> HIDE DEF piece
<1>4. pieces = [i \in 1 .. n |-> pieces[i]] /\ \A i \in 1 .. n : pieces[i] \in Bytes
    BY <1>1, <1>3
<1> HIDE DEF pieces
<1> QED
    BY <1>1, <1>2, <1>4, RunTyped

LEMMA SchemaTyped ==
    ASSUME NEW c \in Builders
    PROVE  build_schema_section(c) \in Bytes
<1> DEFINE n == Len(c.kinds)
           pieces == [i \in 1 .. n |-> varint(c.kinds[i].name) \o
                   Counted(c.kinds[i].fields,
                           LAMBDA j, f : varint(f.name) \o u8(f.type) \o u8(f.flags))]
<1>1. n \in Nat /\ DOMAIN c.kinds = 1 .. n
    BY DEF Builders
<1>2. build_schema_section(c) = varint(n) \o FlattenSeq(pieces)
    BY <1>1 DEF build_schema_section, Counted
<1> HIDE DEF n
<1>3. ASSUME NEW i \in 1 .. n PROVE varint(c.kinds[i].name) \o
                   Counted(c.kinds[i].fields,
                           LAMBDA j, f : varint(f.name) \o u8(f.type) \o u8(f.flags)) \in Bytes
    <2>1. c.kinds[i].name \in Int /\ c.kinds[i].fields \in Seq(FieldDefs)
        <3> DEFINE Kinds == [name : Nat, fields : Seq(FieldDefs)]
        <3>1. c.kinds \in Seq(Kinds)
            BY DEF Builders
        <3> HIDE DEF Kinds
        <3>2. c.kinds[i] \in Kinds
            BY <3>1, ElementOfSeq DEF n
        <3> QED
            BY <3>2 DEF Kinds
    <2> QED
        BY <2>1, VarintTyped, FieldsTyped, JoinTyped
<1>4. pieces = [i \in 1 .. n |-> pieces[i]] /\ \A i \in 1 .. n : pieces[i] \in Bytes
    BY <1>3
<1> HIDE DEF pieces
<1> QED
    BY <1>1, <1>2, <1>4, RunTyped

LEMMA HeapTyped ==
    ASSUME NEW c \in Builders
    PROVE  build_heap_section(c) \in Bytes
<1> DEFINE n == Len(c.heap)
           pieces == [i \in 1 .. n |-> Ids(<< i - 1, c.heap[i].kind, c.heap[i].name >>) \o
                   Counted(c.heap[i].fields, LAMBDA j, fv : varint(fv.field) \o enc(fv.value))]
<1>1. n \in Nat /\ DOMAIN c.heap = 1 .. n
    BY DEF Builders
<1>2. build_heap_section(c) = varint(n) \o FlattenSeq(pieces)
    BY <1>1 DEF build_heap_section, Counted
<1> HIDE DEF n
<1>3. ASSUME NEW i \in 1 .. n PROVE Ids(<< i - 1, c.heap[i].kind, c.heap[i].name >>) \o
                   Counted(c.heap[i].fields, LAMBDA j, fv : varint(fv.field) \o enc(fv.value)) \in Bytes
    <2>1. /\ c.heap[i].kind \in Int /\ c.heap[i].name \in Int
          /\ c.heap[i].fields \in Seq(Setters)
        <3> DEFINE Nodes == [kind : Nat, name : Nat, fields : Seq(Setters)]
        <3>1. c.heap \in Seq(Nodes)
            BY DEF Builders, Setters
        <3> HIDE DEF Nodes
        <3>2. c.heap[i] \in Nodes
            BY <3>1, ElementOfSeq DEF n
        <3> QED
            BY <3>2 DEF Nodes
    <2>2. << i - 1, c.heap[i].kind, c.heap[i].name >> \in Seq(Int)
        BY <2>1
    <2> QED
        BY <2>1, <2>2, IdsTyped, SettersTyped, JoinTyped
<1>4. pieces = [i \in 1 .. n |-> pieces[i]] /\ \A i \in 1 .. n : pieces[i] \in Bytes
    BY <1>3
<1> HIDE DEF pieces
<1> QED
    BY <1>1, <1>2, <1>4, RunTyped

LEMMA JournalTyped ==
    ASSUME NEW c \in Builders
    PROVE  build_journal_section(c) \in Bytes
<1> DEFINE n == Len(c.journal)
           pieces == [i \in 1 .. n |-> u8(c.journal[i].code) \o Ids(c.journal[i].args) \o
                   (IF c.journal[i].value = << >> THEN << >> ELSE enc(c.journal[i].value[1]))]
<1>1. n \in Nat /\ DOMAIN c.journal = 1 .. n
    BY DEF Builders
<1>2. build_journal_section(c) = varint(n) \o FlattenSeq(pieces)
    BY <1>1 DEF build_journal_section, Counted
<1> HIDE DEF n
<1>3. ASSUME NEW i \in 1 .. n PROVE u8(c.journal[i].code) \o Ids(c.journal[i].args) \o
                   (IF c.journal[i].value = << >> THEN << >> ELSE enc(c.journal[i].value[1])) \in Bytes
    <2> DEFINE op == c.journal[i]
    <2>1. op.code \in Int /\ op.args \in Seq(Int) /\ op.value \in Seq(Values)
        <3> DEFINE Ops == [code : OpCodes, args : Seq(Nat), value : Seq(Values)]
        <3>1. c.journal \in Seq(Ops)
            BY DEF Builders
        <3> HIDE DEF Ops
        <3>2. op \in Ops
            BY <3>1, ElementOfSeq DEF n
        <3>3. op.args \in Seq(Nat) /\ op.code \in Int /\ op.value \in Seq(Values)
            BY <3>2, SMTT(60) DEF Ops, OpCodes
        <3> QED
            BY <3>3, SeqMonotonic
    <2> HIDE DEF op
    <2>2. (IF op.value = << >> THEN << >> ELSE enc(op.value[1])) \in Bytes
        <3>1. << >> \in Bytes
            BY DEF Bytes
        <3>2. op.value # << >> => op.value[1] \in Values
            BY <2>1
        <3> QED
            BY <3>1, <3>2, EncTyped
    <2>3. u8(op.code) \in Bytes /\ Ids(op.args) \in Bytes
        BY <2>1, FixedTyped, IdsTyped DEF u8
    <2>4. u8(op.code) \o Ids(op.args)
              \o (IF op.value = << >> THEN << >> ELSE enc(op.value[1])) \in Bytes
        BY <2>2, <2>3, JoinTyped
    <2> QED
        BY <2>4 DEF op
<1>4. pieces = [i \in 1 .. n |-> pieces[i]] /\ \A i \in 1 .. n : pieces[i] \in Bytes
    BY <1>3
<1> HIDE DEF pieces
<1> QED
    BY <1>1, <1>2, <1>4, RunTyped

LEMMA XrefTyped ==
    ASSUME NEW c \in Builders
    PROVE  build_xref_section(c) \in Bytes
<1> DEFINE n == Len(c.xref)
           pieces == [i \in 1 .. n |-> Ids(c.xref[i])]
<1>1. n \in Nat /\ DOMAIN c.xref = 1 .. n
    BY DEF Builders
<1>2. build_xref_section(c) = varint(n) \o FlattenSeq(pieces)
    BY <1>1 DEF build_xref_section, Counted
<1> HIDE DEF n
<1>3. ASSUME NEW i \in 1 .. n PROVE Ids(c.xref[i]) \in Bytes
    <2>1. c.xref \in Seq(Nat \X Nat)
        BY DEF Builders
    <2>2. c.xref[i] \in Nat \X Nat
        BY <1>1, <2>1, ElementOfSeq DEF n
    <2>3. c.xref[i] \in Seq(Int)
        <3>1. PICK a, b \in Nat : c.xref[i] = << a, b >>
            BY <2>2
        <3>2. << a, b >> \in Seq(Int)
            OBVIOUS
        <3> QED
            BY <3>1, <3>2
    <2> QED
        BY <2>3, IdsTyped
<1>4. pieces = [i \in 1 .. n |-> pieces[i]] /\ \A i \in 1 .. n : pieces[i] \in Bytes
    BY <1>3
<1> HIDE DEF pieces
<1> QED
    BY <1>1, <1>2, <1>4, RunTyped

LEMMA MetaTyped ==
    ASSUME NEW c \in Builders
    PROVE  build_meta_section(c) \in Bytes
<1> DEFINE n == Len(c.meta)
           pieces == [i \in 1 .. n |-> Ids(c.meta[i])]
<1>1. n \in Nat /\ DOMAIN c.meta = 1 .. n
    BY DEF Builders
<1>2. build_meta_section(c) = varint(n) \o FlattenSeq(pieces)
    BY <1>1 DEF build_meta_section, Counted
<1> HIDE DEF n
<1>3. ASSUME NEW i \in 1 .. n PROVE Ids(c.meta[i]) \in Bytes
    <2>1. c.meta \in Seq(Nat \X Nat)
        BY DEF Builders
    <2>2. c.meta[i] \in Nat \X Nat
        BY <1>1, <2>1, ElementOfSeq DEF n
    <2>3. c.meta[i] \in Seq(Int)
        <3>1. PICK a, b \in Nat : c.meta[i] = << a, b >>
            BY <2>2
        <3>2. << a, b >> \in Seq(Int)
            OBVIOUS
        <3> QED
            BY <3>1, <3>2
    <2> QED
        BY <2>3, IdsTyped
<1>4. pieces = [i \in 1 .. n |-> pieces[i]] /\ \A i \in 1 .. n : pieces[i] \in Bytes
    BY <1>3
<1> HIDE DEF pieces
<1> QED
    BY <1>1, <1>2, <1>4, RunTyped

LEMMA PayloadTyped ==
    ASSUME NEW c \in Builders, NEW tag \in Atom .. Meta
    PROVE  payload(tag, c) \in Bytes
BY AtomTyped, SchemaTyped, HeapTyped, JournalTyped, XrefTyped, MetaTyped
DEF payload, Atom, Schema, Heap, Journal, Xref, Meta

LEMMA PatchTyped ==
    ASSUME NEW bytes \in Bytes, NEW at \in Int, NEW v \in Int
    PROVE  patch_u32(bytes, at, v) \in Bytes /\ Len(patch_u32(bytes, at, v)) = Len(bytes)
<1> DEFINE n == Len(bytes)
           new == u32(v)
           Place(i) == IF i \in at + 1 .. at + U32Bytes THEN new[i - at] ELSE bytes[i]
<1>1. n \in Nat /\ DOMAIN bytes = 1 .. n /\ \A i \in 1 .. n : bytes[i] \in Byte
    BY DEF Bytes
<1>2. \A k \in 1 .. U32Bytes : new[k] \in Byte
    <2>1. new \in Seq(Byte) /\ Len(new) = U32Bytes
        BY FixedTyped, Widths DEF u32, Bytes
    <2> HIDE DEF new
    <2> QED
        BY <2>1, ElementOfSeq
<1> HIDE DEF new
<1>3. ASSUME NEW i \in 1 .. n PROVE Place(i) \in Byte
    <2>1. i \in at + 1 .. at + U32Bytes => i - at \in 1 .. U32Bytes
        BY Widths
    <2> QED
        BY <1>1, <1>2, <2>1
<1>4. patch_u32(bytes, at, v) = [i \in 1 .. n |-> Place(i)]
    BY <1>1 DEF patch_u32, new
<1> HIDE DEF Place, n
<1>5. [i \in 1 .. n |-> Place(i)] \in Seq(Byte) /\ Len([i \in 1 .. n |-> Place(i)]) = n
    BY <1>1, <1>3
<1> QED
    BY <1>4, <1>5 DEF n, Bytes

LEMMA HeaderTyped ==
    ASSUME NEW c \in Builders
    PROVE  /\ Written(c) \in Seq(Atom .. Meta)
           /\ header(c) \in Bytes
           /\ \A tag \in Int : blank_entry(tag) \in Bytes
           /\ kSectionEntrySize \in Int
<1>1. Written(c) \in Seq(Atom .. Meta)
    BY DEF Written, Atom, Schema, Heap, Journal, Xref, Meta
<1>2. ASSUME NEW v \in Int PROVE u8(v) \in Bytes /\ u16(v) \in Bytes /\ u32(v) \in Bytes
    BY FixedTyped, Widths DEF u8, u16, u32
<1>3. header(c) \in Bytes
    <2>1. Magic \in Bytes
        BY FormatAssumption DEF Bytes
    <2>2. c.header_flags \in Int /\ Len(Written(c)) \in Int
        BY <1>1 DEF Builders
    <2>3. kVersionMajor \in Int /\ kVersionMinor \in Int
        BY DEF kVersionMajor, kVersionMinor
    <2> QED
        BY <1>2, <2>1, <2>2, <2>3, JoinTyped DEF header
<1>4. ASSUME NEW tag \in Int PROVE blank_entry(tag) \in Bytes
    <2>1. u32(tag) \in Bytes /\ u8(1) \in Bytes /\ u8(0) \in Bytes /\ u16(0) \in Bytes
          /\ u32(0) \in Bytes
        BY <1>2
    <2> QED
        BY <2>1, JoinTyped DEF blank_entry
<1>5. kSectionEntrySize \in Int
    <2>1. Unknown \in Int
        BY FormatAssumption
    <2>2. blank_entry(Unknown) \in Seq(Byte)
        BY <1>4, <2>1 DEF Bytes
    <2> QED
        BY <2>2, LenProperties DEF kSectionEntrySize
<1> QED
    BY <1>1, <1>3, <1>4, <1>5

\* The file is bytes.
LEMMA SerializeTyped ==
    ASSUME NEW c \in Builders
    PROVE  serialize(c) \in Bytes
<1> DEFINE tags == Written(c)
           n == Len(tags)
           table == FlattenSeq([i \in DOMAIN tags |-> blank_entry(tags[i])])
           slot(i) == Len(header(c)) + i * kSectionEntrySize - 2 * U32Bytes
           S == [k \in 0 .. n |-> Bytes]
           Step == [k \in 1 .. n |-> [x \in Bytes |-> place(x, slot(k), payload(tags[k], c))]]
           Unfold(f) == [i \in 0 .. n |-> IF i = 0 THEN header(c) \o table
                                           ELSE place(f[i - 1], slot(i), payload(tags[i], c))]
           out == CHOOSE f : f = Unfold(f)
<1>1. /\ tags \in Seq(Atom .. Meta) /\ n \in Nat /\ DOMAIN tags = 1 .. n
      /\ \A i \in 1 .. n : tags[i] \in Atom .. Meta
    <2> DEFINE Known == Atom .. Meta
    <2>1. tags \in Seq(Known)
        BY HeaderTyped
    <2> HIDE DEF tags, Known
    <2>2. /\ Len(tags) \in Nat /\ DOMAIN tags = 1 .. Len(tags)
          /\ \A i \in 1 .. Len(tags) : tags[i] \in Known
        BY <2>1
    <2> QED
        BY <2>1, <2>2 DEF Known
<1>2. header(c) \o table \in Bytes
    <2> DEFINE pieces == [i \in 1 .. n |-> blank_entry(tags[i])]
    <2>1. table = FlattenSeq(pieces)
        BY <1>1
    <2> HIDE DEF tags, n, table
    <2>2. \A i \in 1 .. n : pieces[i] \in Bytes
        BY <1>1, HeaderTyped
    <2>3. pieces = [i \in 1 .. n |-> pieces[i]]
        OBVIOUS
    <2> HIDE DEF pieces
    <2>4. table \in Bytes
        BY <1>1, <2>1, <2>2, <2>3, RunTyped
    <2> QED
        BY <2>4, HeaderTyped, JoinTyped
<1>3. ASSUME NEW k \in 1 .. n, NEW x \in Bytes
      PROVE  place(x, slot(k), payload(tags[k], c)) \in Bytes
    <2> DEFINE p == payload(tags[k], c)
               at == slot(k)
    <2>1. p \in Bytes
        BY <1>1, PayloadTyped
    <2>2. at \in Int
        <3>1. Len(header(c)) \in Int
            BY HeaderTyped DEF Bytes
        <3> QED
            BY <1>1, <3>1, HeaderTyped, Widths, SMTT(60)
    <2> HIDE DEF p, at
    <2>3. x \o p \in Bytes /\ Len(x) \in Int /\ Len(p) \in Int
        BY <2>1, JoinTyped DEF Bytes
    <2>4. patch_u32(x \o p, at, Len(x)) \in Bytes /\ at + U32Bytes \in Int
        BY <2>2, <2>3, PatchTyped, Widths
    <2>5. place(x, at, p) \in Bytes
        BY <2>3, <2>4, PatchTyped DEF place
    <2> QED
        BY <2>5 DEF p, at
<1> HIDE DEF table, slot, tags, n
<1>4. PICK g : Recursive(g, n, S, header(c) \o table, Step)
    <2>1. S[0] = Bytes /\ \A k \in 1 .. n : S[k - 1] = Bytes /\ S[k] = Bytes
        BY <1>1
    <2>2. \A k \in 1 .. n : \A x \in Bytes : Step[k][x] \in Bytes
        BY <1>3
    <2> HIDE DEF S, Step
    <2>3. Leads(n, S, header(c) \o table, Step)
        BY <1>2, <2>1, <2>2 DEF Leads
    <2> QED
        BY <1>1, <2>3, RecursionHasSolution
<1>5. g = Unfold(g)
    <2>1. \A k \in 1 .. n : Step[k][g[k - 1]] = place(g[k - 1], slot(k), payload(tags[k], c))
        BY <1>1, <1>4 DEF Recursive
    <2>2. \A k \in 0 .. n : k # 0 => k \in 1 .. n
        BY <1>1
    <2> HIDE DEF Step
    <2>3. \A k \in 0 .. n : g[k] = IF k = 0 THEN header(c) \o table
                                  ELSE place(g[k - 1], slot(k), payload(tags[k], c))
        BY <1>4, <2>1, <2>2 DEF Recursive
    <2> QED
        BY <1>4, <2>3 DEF Recursive
<1>6. out = Unfold(out)
    <2> HIDE DEF Unfold
    <2> QED
        BY <1>5
<1>7. serialize(c) = out[n]
    BY DEF serialize, table, slot, tags, n
<1> HIDE DEF out, S, Step
<1>8. \A k \in 0 .. n : out[k] = IF k = 0 THEN header(c) \o table
                               ELSE place(out[k - 1], slot(k), payload(tags[k], c))
    BY <1>6
<1> DEFINE P == {k \in 0 .. n : out[k] \in Bytes}
<1>9. 0 \in P
    BY <1>1, <1>2, <1>8
<1>10. ASSUME NEW k \in 1 .. n, k - 1 \in P PROVE k \in P
    BY <1>1, <1>3, <1>8, <1>10, SMTT(60)
<1>11. n \in P
    <2> HIDE DEF P
    <2>1. 0 .. n \subseteq P
        BY <1>1, <1>9, <1>10, UpTheInterval
    <2> QED
        BY <1>1, <2>1
<1> QED
    BY <1>7, <1>11

-----------------------------------------------------------------------------
(* The directory is read out of the file *)

Widest(n) == 0 .. Power(ByteBase, n) - 1
Short == {"Truncated"}

LEMMA FieldsAnswers ==
    ASSUME NEW widths \in Seq(Nat), NEW r \in Bytes
    PROVE  read_fields(widths, r)
               \in Answers(Short, Lists(Len(widths), [i \in 1 .. Len(widths) |-> Widest(widths[i])]))
<1> DEFINE n == Len(widths)
           Items == [i \in 1 .. n |-> Widest(widths[i])]
           Read == [i \in Nat |-> [rest \in Bytes |-> read_fixed(widths[i], rest)]]
<1>1. n \in Nat /\ \A i \in 1 .. n : widths[i] \in Nat /\ i \in Nat
    OBVIOUS
<1> HIDE DEF n
<1>2. ASSUME NEW i \in 1 .. n, NEW s \in Bytes PROVE Read[i][s] \in Answers(Short, Items[i])
    <2>1. Read[i][s] = read_fixed(widths[i], s)
        BY <1>1
    <2>2. Items[i] = Widest(widths[i])
        OBVIOUS
    <2> HIDE DEF Read, Items
    <2> QED
        BY <1>1, <2>1, <2>2, FixedAnswers DEF Widest, Short
<1>3. read_fields(widths, r) = Repeat(n, Read, r)
    BY DEF read_fields, n
<1> HIDE DEF Read, Items
<1>4. read_fields(widths, r) \in Answers(Short, Lists(n, Items))
    BY <1>1, <1>2, <1>3, RepeatAnswers
<1> QED
    BY <1>4 DEF n, Items

\* The header states a number of sections within the limit or is refused.
LEMMA HeaderAnswers ==
    ASSUME NEW r \in Bytes
    PROVE  read_header(r) \in Answers(HeaderCodes, 0 .. MaxSections)
<1> DEFINE Version == {kVersionMajor} \X Nat \X Nat \X Nat
           Sections == Nat \X Nat \X Nat \X (0 .. MaxSections)
           a == Require(read_bytes(Len(Magic), r), {Magic}, "BadMagic")
           b == Require(read_version(a.rest), Sections, "LimitExceeded")
           c == Got(b.value[4], b.rest)
           L == Lists(4, [i \in 1 .. 4 |-> Widest(<< 1, 1, U16Bytes, U32Bytes >>[i])])
<1>1. read_header(r) = Chain(a, Chain(b, c))
    BY DEF read_header, Bind, Chain
<1>2. a.rest \in Bytes /\ a \in Answers(HeaderCodes, {s \in Bytes : Len(s) = Len(Magic)} \cap {Magic})
    <2> DEFINE Exact == {s \in Bytes : Len(s) = Len(Magic)}
    <2>1. read_bytes(Len(Magic), r) \in Answers({"Truncated"}, Exact)
        BY BytesAnswers, FormatAssumption
    <2> HIDE DEF Exact
    <2>2. read_bytes(Len(Magic), r) \in Answers(HeaderCodes, Exact)
        BY <2>1, AnswersMore DEF HeaderCodes
    <2>3. a \in Answers(HeaderCodes, Exact \cap {Magic})
        BY <2>2, RequireAnswers DEF HeaderCodes
    <2> QED
        BY <2>3, AnswerRead DEF Exact
<1> HIDE DEF a
<1>3. b \in Answers(HeaderCodes, Sections)
    <2> DEFINE widths == << 1, 1, U16Bytes, U32Bytes >>
    <2>1. read_fields(widths, a.rest) \in Answers(Short, L)
        <3>1. widths \in Seq(Nat) /\ Len(widths) = 4
            BY Widths
        <3> QED
            BY <1>2, <3>1, FieldsAnswers
    <2> HIDE DEF L
    <2>2. read_fields(widths, a.rest) \in Answers(HeaderCodes, L)
        BY <2>1, AnswersMore DEF HeaderCodes, Short
    <2>3. read_version(a.rest) \in Answers(HeaderCodes, L \cap Version)
        <3>1. read_version(a.rest) = Require(read_fields(widths, a.rest), Version, "UnsupportedVersion")
            BY DEF read_version
        <3> HIDE DEF widths, Version
        <3> QED
            BY <2>2, <3>1, RequireAnswers DEF HeaderCodes
    <2> HIDE DEF Version, Sections
    <2>4. b \in Answers(HeaderCodes, (L \cap Version) \cap Sections)
        BY <2>3, RequireAnswers DEF HeaderCodes
    <2> QED
        BY <2>4, AnswersMore
<1> HIDE DEF b
<1>4. b.code = "ok" => c \in Answers(HeaderCodes, 0 .. MaxSections)
    <2>1. b.code = "ok" => b.value[4] \in 0 .. MaxSections /\ b.rest \in Bytes
        BY <1>3, AnswerRead
    <2> QED
        BY <2>1, GotAnswers
<1> HIDE DEF c
<1>5. Chain(b, c) \in Answers(HeaderCodes, 0 .. MaxSections)
    BY <1>3, <1>4, ChainAnswers
<1> QED
    BY <1>1, <1>2, <1>5, ChainAnswers

\* An entry read is one that the directory's model has, whatever the bytes.
LEMMA EntryAnswers ==
    ASSUME NEW r \in Bytes
    PROVE  read_entry(r) \in Answers(Short, Entry)
<1> DEFINE widths == << U32Bytes, 1, 1, U16Bytes, U32Bytes, U32Bytes >>
           L == Lists(6, [i \in 1 .. 6 |-> Widest(widths[i])])
           a == read_fields(widths, r)
           b == Got([tag |-> a.value[1], offset |-> a.value[5], length |-> a.value[6]], a.rest)
<1>1. read_entry(r) = Chain(a, b)
    BY DEF read_entry, Bind, Chain
<1>2. a \in Answers(Short, L)
    <2>1. widths \in Seq(Nat) /\ Len(widths) = 6
        BY Widths
    <2> QED
        BY <2>1, FieldsAnswers
<1> HIDE DEF a
<1>3. a.code = "ok" => b \in Answers(Short, Entry)
    <2>1. \A s \in L : s[1] \in Widest(U32Bytes) /\ s[5] \in Widest(U32Bytes) /\ s[6] \in Widest(U32Bytes)
        BY DEF Lists
    <2>2. Widest(U32Bytes) = 0 .. TopU32 /\ TopU32 \in Nat
        BY Widths DEF Widest, TopU32
    <2>3. MaxU32 = TopU32 /\ 0 .. TopU32 \subseteq Tags
        <3>1. \A t \in 0 .. TopU32 : t \in 1 .. 6 \/ t \in 6 + 1 .. TopU32 \/ t = 0
            BY <2>2
        <3> QED
            BY <3>1, FormatAssumption DEF Tags, Atom, Meta
    <2> HIDE DEF L
    <2>4. a.code = "ok" =>
              [tag |-> a.value[1], offset |-> a.value[5], length |-> a.value[6]] \in Entry
        BY <1>2, <2>1, <2>2, <2>3, AnswerRead DEF Entry
    <2> QED
        BY <1>2, <2>4, AnswerRead, GotAnswers
<1> HIDE DEF b, L
<1> QED
    BY <1>1, <1>2, <1>3, ChainAnswers

-----------------------------------------------------------------------------
(* The builder *)

KindDefs == [name : Nat, fields : Seq(FieldDefs)]
NodeSpecs == [kind : Nat, name : Nat, fields : Seq(Setters)]
Ops == [code : OpCodes, args : Seq(Nat), value : Seq(Values)]
PairLists == Seq(Nat \X Nat)

\* A builder with one member changed.
LEMMA BuilderWith ==
    ASSUME NEW b \in Builders
    PROVE  /\ b.atoms \in Seq(Bytes) /\ b.kinds \in Seq(KindDefs) /\ b.heap \in Seq(NodeSpecs)
           /\ b.journal \in Seq(Ops) /\ b.xref \in PairLists /\ b.meta \in PairLists
           /\ \A s \in Seq(Bytes) : [b EXCEPT !.atoms = s] \in Builders
           /\ \A s \in Seq(KindDefs) : [b EXCEPT !.kinds = s] \in Builders
           /\ \A s \in Seq(NodeSpecs) : [b EXCEPT !.heap = s] \in Builders
           /\ \A s \in Seq(Ops) : [b EXCEPT !.journal = s] \in Builders
           /\ \A s \in PairLists : [b EXCEPT !.xref = s, !.emit_xref = TRUE] \in Builders
           /\ \A s \in PairLists : [b EXCEPT !.meta = s, !.emit_meta = TRUE] \in Builders
           /\ \A on \in BOOLEAN : /\ [b EXCEPT !.emit_xref = on] \in Builders
                                  /\ [b EXCEPT !.emit_meta = on] \in Builders
           /\ \A bits \in Nat : [b EXCEPT !.header_flags = bits] \in Builders
<1> DEFINE AtomsSet == Seq(Bytes)
           KindsSet == Seq(KindDefs)
           HeapSet == Seq(NodeSpecs)
           JournalSet == Seq(Ops)
<1>1. Builders = [ atoms : AtomsSet, kinds : KindsSet, heap : HeapSet, journal : JournalSet,
                   xref : PairLists, meta : PairLists,
                   emit_xref : BOOLEAN, emit_meta : BOOLEAN, header_flags : Nat ]
    BY DEF Builders, KindDefs, NodeSpecs, Setters, Ops, PairLists
<1> HIDE DEF AtomsSet, KindsSet, HeapSet, JournalSet
<1>2. /\ b.atoms \in AtomsSet /\ b.kinds \in KindsSet /\ b.heap \in HeapSet
      /\ b.journal \in JournalSet /\ b.xref \in PairLists /\ b.meta \in PairLists
    BY <1>1
<1>3. /\ \A s \in AtomsSet : [b EXCEPT !.atoms = s] \in Builders
      /\ \A s \in KindsSet : [b EXCEPT !.kinds = s] \in Builders
      /\ \A s \in HeapSet : [b EXCEPT !.heap = s] \in Builders
      /\ \A s \in JournalSet : [b EXCEPT !.journal = s] \in Builders
    BY <1>1, SMTT(60)
<1>4. /\ \A s \in PairLists : [b EXCEPT !.xref = s, !.emit_xref = TRUE] \in Builders
      /\ \A s \in PairLists : [b EXCEPT !.meta = s, !.emit_meta = TRUE] \in Builders
    BY <1>1
<1>5. /\ \A on \in BOOLEAN : /\ [b EXCEPT !.emit_xref = on] \in Builders
                             /\ [b EXCEPT !.emit_meta = on] \in Builders
      /\ \A bits \in Nat : [b EXCEPT !.header_flags = bits] \in Builders
    BY <1>1
<1> QED
    BY <1>2, <1>3, <1>4, <1>5 DEF AtomsSet, KindsSet, HeapSet, JournalSet

LEMMA ValuesAtTyped ==
    ASSUME builder \in Builders, NEW node \in HeapIds, NEW field \in Inputs.fields
    PROVE  /\ node \in Nat /\ field \in Nat /\ node + 1 \in 1 .. Len(builder.heap)
           /\ builder.heap[node + 1] \in NodeSpecs
           /\ ValuesAt(node, field) \subseteq Values
<1>1. builder.heap \in Seq(NodeSpecs) /\ builder.kinds \in Seq(KindDefs)
    BY BuilderWith
<1>2. node \in Nat /\ node + 1 \in 1 .. Len(builder.heap) /\ field \in Nat
    BY <1>1, InputAssumption DEF HeapIds
<1>3. builder.heap[node + 1] \in NodeSpecs
    BY <1>1, <1>2, ElementOfSeq
<1> DEFINE kind == builder.heap[node + 1].kind
<1>4. kind \in Nat
    BY <1>3 DEF NodeSpecs
<1> HIDE DEF kind
<1>5. TypeAt(node, field) \in ValueTypes
    <2>1. CASE kind < Len(builder.kinds) /\ field < Len(builder.kinds[kind + 1].fields)
        <3>1. kind + 1 \in 1 .. Len(builder.kinds)
            BY <1>1, <1>4, <2>1
        <3>a. builder.kinds[kind + 1] \in KindDefs
            BY <1>1, <3>1, ElementOfSeq
        <3>2. builder.kinds[kind + 1].fields \in Seq(FieldDefs)
            BY <3>a DEF KindDefs
        <3> DEFINE fields == builder.kinds[kind + 1].fields
        <3>3. field + 1 \in 1 .. Len(fields)
            BY <1>2, <2>1, <3>2, SMTT(60)
        <3> HIDE DEF fields
        <3>4. fields[field + 1] \in FieldDefs
            BY <3>2, <3>3, ElementOfSeq DEF fields
        <3>5. TypeAt(node, field) = fields[field + 1].type
            BY <2>1 DEF TypeAt, kind, fields
        <3> QED
            BY <3>4, <3>5 DEF FieldDefs
    <2>2. CASE ~ (kind < Len(builder.kinds) /\ field < Len(builder.kinds[kind + 1].fields))
        <3>1. TypeAt(node, field) = IntType
            BY <2>2 DEF TypeAt, kind
        <3> QED
            BY <3>1, SMTT(60) DEF IntType, ValueTypes
    <2> QED
        BY <2>1, <2>2
<1>6. ValuesAt(node, field) \subseteq Values
    BY <1>5, InputAssumption DEF ValuesAt
<1> QED
    BY <1>2, <1>3, <1>6, SMTT(60)

\* Every method of the builder leaves it one.
LEMMA BuildTyped ==
    ASSUME builder \in Builders, Build
    PROVE  builder' \in Builders
<1> USE InputAssumption
<1>1. ASSUME NEW text \in Inputs.texts, atom(text) PROVE builder' \in Builders
    <2>1. Append(builder.atoms, text) \in Seq(Bytes)
        <3>1. text \in Bytes /\ builder.atoms \in Seq(Bytes)
            BY BuilderWith, ZenonT(60)
        <3> QED
            BY <3>1, SMTT(60)
    <2> QED
        BY <1>1, <2>1, BuilderWith DEF atom, Author
<1>2. ASSUME NEW name \in Inputs.ids, NEW fields \in Inputs.kinds, define_kind(name, fields)
      PROVE  builder' \in Builders
    <2> DEFINE kind == [name |-> name, fields |-> fields]
    <2>1. kind \in KindDefs /\ builder.kinds \in Seq(KindDefs)
        BY BuilderWith DEF KindDefs
    <2> HIDE DEF kind
    <2>2. Append(builder.kinds, kind) \in Seq(KindDefs)
        BY <2>1, SMTT(60)
    <2> QED
        BY <1>2, <2>2, BuilderWith, ZenonT(60) DEF define_kind, Author, kind
<1>3. ASSUME NEW kind \in Inputs.ids, NEW name \in Inputs.ids, heap_node(kind, name)
      PROVE  builder' \in Builders
    <2> DEFINE node == [kind |-> kind, name |-> name, fields |-> << >>]
    <2>1. node \in NodeSpecs /\ builder.heap \in Seq(NodeSpecs)
        BY BuilderWith, EmptySeq DEF NodeSpecs
    <2> HIDE DEF node
    <2>2. Append(builder.heap, node) \in Seq(NodeSpecs)
        BY <2>1, SMTT(60)
    <2> QED
        BY <1>3, <2>2, BuilderWith, ZenonT(60) DEF heap_node, Author, node
<1>4. ASSUME NEW node \in HeapIds, NEW field \in Inputs.fields, NEW v \in ValuesAt(node, field),
             heap_set(node, field, v)
      PROVE  builder' \in Builders
    <2> DEFINE set == [field |-> field, value |-> v]
               spec == builder.heap[node + 1]
               new == [spec EXCEPT !.fields = Append(@, set)]
               heap == [builder.heap EXCEPT ![node + 1] = new]
    <2>1. set \in Setters /\ spec \in NodeSpecs /\ node + 1 \in 1 .. Len(builder.heap)
        BY ValuesAtTyped, SMTT(60) DEF Setters
    <2>2. builder.heap \in Seq(NodeSpecs)
        BY BuilderWith
    <2>3. builder' = [builder EXCEPT !.heap = heap]
        BY <1>4 DEF heap_set, Author
    <2> HIDE DEF set, spec
    <2>4. new \in NodeSpecs
        <3>1. Append(spec.fields, set) \in Seq(Setters)
            BY <2>1 DEF NodeSpecs
        <3> QED
            BY <2>1, <3>1 DEF NodeSpecs
    <2> HIDE DEF new
    <2>5. heap \in Seq(NodeSpecs)
        BY <2>1, <2>2, <2>4, ExceptSeq
    <2> HIDE DEF heap
    <2> QED
        BY <2>3, <2>5, BuilderWith
<1>5. ASSUME NEW code \in OpCodes, NEW args \in Seq(Nat), NEW value \in Seq(Values),
             emit(code, args, value)
      PROVE  builder' \in Builders
    <2> DEFINE op == [code |-> code, args |-> args, value |-> value]
    <2>1. op \in Ops /\ builder.journal \in Seq(Ops)
        BY BuilderWith DEF Ops
    <2> HIDE DEF op
    <2>2. Append(builder.journal, op) \in Seq(Ops)
        BY <2>1
    <2> QED
        BY <1>5, <2>2, BuilderWith DEF emit, Author, op
<1>6. ASSUME NEW node \in HeapIds, NEW field \in Inputs.fields, NEW v \in ValuesAt(node, field),
             emit(SetField, << node, field >>, << v >>)
      PROVE  builder' \in Builders
    <2>1. node \in Nat /\ field \in Nat /\ v \in Values
        BY ValuesAtTyped
    <2>2. << node, field >> \in Seq(Nat) /\ << v >> \in Seq(Values)
        BY <2>1
    <2>3. SetField \in OpCodes
        BY DEF SetField, OpCodes
    <2> QED
        BY <1>5, <1>6, <2>2, <2>3
<1>7. ASSUME NEW code \in Inputs.codes, NEW args \in [1..Varints[code] -> Inputs.ids],
             emit(code, args, << >>)
      PROVE  builder' \in Builders
    <2>1. code \in OpCodes /\ Varints[code] \in Nat
        BY DEF OpCodes, Varints
    <2>2. args \in Seq(Nat) /\ << >> \in Seq(Values)
        <3> DEFINE n == Varints[code]
        <3>1. n \in Nat /\ args \in [1 .. n -> Nat]
            BY <2>1, SMTT(60)
        <3> HIDE DEF n
        <3> QED
            BY <3>1, EmptySeq
    <2> QED
        BY <1>5, <1>7, <2>1, <2>2
<1>8. ASSUME NEW name \in Inputs.ids, NEW node \in Inputs.ids, xref_entry(name, node)
      PROVE  builder' \in Builders
    <2>1. Append(builder.xref, << name, node >>) \in PairLists
        <3>1. << name, node >> \in Nat \X Nat /\ builder.xref \in Seq(Nat \X Nat)
            BY BuilderWith, ZenonT(60) DEF PairLists
        <3> QED
            BY <3>1 DEF PairLists
    <2> QED
        BY <1>8, <2>1, BuilderWith DEF xref_entry, Author
<1>9. ASSUME NEW key \in Inputs.ids, NEW value \in Inputs.ids, meta_entry(key, value)
      PROVE  builder' \in Builders
    <2>1. Append(builder.meta, << key, value >>) \in PairLists
        <3>1. << key, value >> \in Nat \X Nat /\ builder.meta \in Seq(Nat \X Nat)
            BY BuilderWith, ZenonT(60) DEF PairLists
        <3> QED
            BY <3>1 DEF PairLists
    <2> QED
        BY <1>9, <2>1, BuilderWith DEF meta_entry, Author
<1>10. ASSUME NEW on \in BOOLEAN, set_emit_xref(on) \/ set_emit_meta(on)
       PROVE  builder' \in Builders
    BY <1>10, BuilderWith DEF set_emit_xref, set_emit_meta, Author
<1>11. ASSUME NEW bits \in Inputs.flags, set_header_flags(bits)
       PROVE  builder' \in Builders
    BY <1>11, BuilderWith, ZenonT(60) DEF set_header_flags, Author
<1> QED
    BY <1>1, <1>2, <1>3, <1>4, <1>6, <1>7, <1>8, <1>9, <1>10, <1>11 DEF Build

-----------------------------------------------------------------------------
(* A file on its way, and the directory it is read with *)

\* Members hold what they are declared to; the directory is read out of a file
\* that nothing changes any more.
FileTyped ==
    /\ builder \in Builders /\ file \in Bytes /\ unread \in Bytes
    /\ status # "closed" => file # << >> /\ file_size = Len(file)

\* A method of the builder is called before there is a file.
LEMMA BuildFrame == Build => file = << >> /\ UNCHANGED << vars, file, fault, loading >>
BY DEF Build, atom, define_kind, heap_node, heap_set, emit, xref_entry, meta_entry,
       set_emit_xref, set_emit_meta, set_header_flags, Authoring, Author

LoadStep == LoadAtoms \/ LoadSchema \/ LoadHeap \/ LoadJournal \/ LoadXref \/ LoadMeta \/ Return

\* A section's decoder changes nothing but what is loaded.
LEMMA LoadFrame == LoadStep => UNCHANGED << vars, authoring, file, fault, unread >>
BY DEF LoadStep, LoadAtoms, LoadSchema, LoadHeap, LoadJournal, LoadXref, LoadMeta, LoadSection,
       Return

LEMMA FileInit == ContainerInit => FileTyped
<1>1. << >> \in Bytes
    BY EmptySeq DEF Bytes
<1> QED
    BY <1>1, InputAssumption DEF ContainerInit, Init, FileTyped

LEMMA FileStep == FileTyped /\ [ContainerNext]_containerVars => FileTyped'
<1> SUFFICES ASSUME FileTyped, [ContainerNext]_containerVars PROVE FileTyped'
    OBVIOUS
<1>1. CASE Build
    <2>1. builder' \in Builders
        BY <1>1, BuildTyped DEF FileTyped
    <2> QED
        BY <1>1, <2>1, BuildFrame DEF FileTyped, vars, loading
<1>2. CASE Serialize
    <2>1. serialize(builder) \in Bytes
        BY SerializeTyped DEF FileTyped
    <2> QED
        BY <1>2, <2>1 DEF Serialize, FileTyped, vars, authoring, loading
<1>3. ASSUME NEW i \in DOMAIN file, NEW byte \in DamageBytes, Damage(i, byte)
      PROVE  FileTyped'
    <2>1. [file EXCEPT ![i] = byte] \in Bytes
        <3>1. byte \in Byte /\ file \in Seq(Byte)
            BY InputAssumption DEF FileTyped, Bytes
        <3> QED
            BY <3>1, ExceptSeq DEF Bytes
    <2> QED
        BY <1>3, <2>1 DEF Damage, InTransit, FileTyped, vars, authoring, loading
<1>4. ASSUME NEW n \in 1 .. Len(file) - 1, Cut(n) PROVE FileTyped'
    <2>1. n \in 0 .. Len(file)
        BY DEF FileTyped, Bytes
    <2>2. SubSeq(file, 1, n) \in Bytes
        BY <2>1, SkipTyped DEF FileTyped
    <2> QED
        BY <1>4, <2>2 DEF Cut, InTransit, FileTyped, vars, authoring, loading
<1>5. CASE OpenFile
    BY <1>5 DEF OpenFile, Open, FileTyped, authoring
<1>6. CASE DecodeHeader
    <2>1. read_header(unread).rest \in Bytes
        BY HeaderAnswers, AnswerRead DEF FileTyped
    <2>2. status = "header" /\ file_size' = file_size
        BY <1>6 DEF DecodeHeader, ReadHeader, RejectHeader
    <2> QED
        BY <1>6, <2>1, <2>2 DEF DecodeHeader, FileTyped, authoring
<1>7. CASE DecodeEntry
    <2>1. read_entry(unread).rest \in Bytes
        BY EntryAnswers, AnswerRead DEF FileTyped
    <2>2. status = "reading" /\ file_size' = file_size
        BY <1>7 DEF DecodeEntry, ReadEntry, RejectEntry, RejectHeader
    <2> QED
        BY <1>7, <2>1, <2>2 DEF DecodeEntry, FileTyped, authoring
<1>8. CASE FinishDirectory
    BY <1>8 DEF FinishDirectory, Finish, FileTyped, authoring, loading
<1>9. CASE LoadStep
    BY <1>9, LoadFrame DEF FileTyped, vars, authoring
<1>10. CASE UNCHANGED containerVars
    BY <1>10 DEF FileTyped, containerVars, vars, authoring, loading
<1> QED
    BY <1>1, <1>2, <1>3, <1>4, <1>5, <1>6, <1>7, <1>8, <1>9, <1>10 DEF ContainerNext, LoadStep

\* Reading a file is reading a directory: the bytes decide which step it takes.
LEMMA DirectoryStep == FileTyped /\ [ContainerNext]_containerVars => [Next]_vars
<1> SUFFICES ASSUME FileTyped, [ContainerNext]_containerVars PROVE [Next]_vars
    OBVIOUS
<1>1. CASE OpenFile
    <2>1. Len(file) \in Nat
        BY DEF FileTyped, Bytes
    <2> QED
        BY <1>1, <2>1 DEF OpenFile, Next
<1>2. CASE DecodeHeader
    <2> DEFINE res == read_header(unread)
    <2>1. res \in Answers(HeaderCodes, 0 .. MaxSections)
        BY HeaderAnswers DEF FileTyped
    <2>2. IF res.code = "ok" THEN ReadHeader(res.value) ELSE RejectHeader(res.code)
        BY <1>2 DEF DecodeHeader
    <2> HIDE DEF res
    <2>3. CASE res.code = "ok"
        <3>1. res.value \in 0 .. MaxSections + 1
            BY <2>1, <2>3, AnswerRead, DirectoryAssumption
        <3> QED
            BY <2>2, <2>3, <3>1 DEF Next
    <2>4. CASE res.code # "ok"
        <3>1. res.code \in HeaderCodes
            BY <2>1, <2>4, AnswerRead
        <3> QED
            BY <2>2, <2>4, <3>1 DEF Next
    <2> QED
        BY <2>3, <2>4
<1>3. CASE DecodeEntry
    <2> DEFINE res == read_entry(unread)
    <2>1. res \in Answers(Short, Entry)
        BY EntryAnswers DEF FileTyped
    <2>2. IF res.code = "ok" THEN ReadEntry(res.value) \/ RejectEntry(res.value)
          ELSE RejectHeader(res.code)
        BY <1>3 DEF DecodeEntry
    <2> HIDE DEF res
    <2>3. CASE res.code = "ok"
        <3>1. res.value \in Entry
            BY <2>1, <2>3, AnswerRead
        <3> QED
            BY <2>2, <2>3, <3>1 DEF Next
    <2>4. CASE res.code # "ok"
        <3>1. res.code \in HeaderCodes
            BY <2>1, <2>4, AnswerRead DEF Short, HeaderCodes
        <3> QED
            BY <2>2, <2>4, <3>1 DEF Next
    <2> QED
        BY <2>3, <2>4
<1>4. CASE FinishDirectory
    BY <1>4 DEF FinishDirectory, Next
<1>5. CASE Build
    BY <1>5, BuildFrame
<1>6. CASE LoadStep
    BY <1>6, LoadFrame
<1>7. ASSUME NEW i \in DOMAIN file, NEW byte \in DamageBytes, Damage(i, byte)
      PROVE  UNCHANGED vars
    BY <1>7 DEF Damage
<1>8. ASSUME NEW n \in 1 .. Len(file) - 1, Cut(n) PROVE UNCHANGED vars
    BY <1>8 DEF Cut
<1>9. CASE Serialize
    BY <1>9 DEF Serialize
<1>10. CASE UNCHANGED containerVars
    BY <1>10 DEF containerVars
<1> QED
    BY <1>1, <1>2, <1>3, <1>4, <1>5, <1>6, <1>7, <1>8, <1>9, <1>10 DEF ContainerNext, LoadStep

LEMMA FileInvariant == ContainerSpec => []FileTyped
BY FileInit, FileStep, PTL DEF ContainerSpec

\* load() of any file, written by any builder and damaged or not, is a behaviour
\* of the directory as SectionTable states it: every count and every entry that
\* the bytes spell is one that it has, and so is every refusal.
THEOREM FilesAreDirectories == ContainerSpec => Spec
<1>1. ContainerInit => Init
    BY DEF ContainerInit
<1> QED
    BY <1>1, FileInvariant, DirectoryStep, PTL DEF ContainerSpec, Spec

LEMMA ContainerDirectory == ContainerSpec => []IInv
BY FilesAreDirectories, Invariant, PTL

\* So what holds of every directory holds of the one in every file.
THEOREM SectionsOfFiles == ContainerSpec => [](WindowsInFile /\ FindIsUnambiguous)
<1>1. IInv => WindowsInFile /\ FindIsUnambiguous
  BY OnceIsUnambiguous DEF IInv
<1> QED BY ContainerDirectory, <1>1, PTL

-----------------------------------------------------------------------------
(* What load() accepts *)

IsContainer(l) ==
    \E a, k, h, j, x, m :
        l = [atoms |-> a, kinds |-> k, heap |-> h, journal |-> j, xref |-> x, meta |-> m]

\* What META may be when the pool is this one.
Tables(atoms) ==
    {<< >>} \cup {KeepLast(pairs) : pairs \in Seq(IdsOf(atoms) \X OrNone(IdsOf(atoms)))}

\* Every section fits those that were read before it, and those that are still
\* to come are empty: when a pool replaces the empty one, nothing refers to it.
LoadedSoFar ==
    /\ stage \in Nat /\ IsContainer(loaded)
    /\ loaded.atoms \in UpTo(MaxAtoms, Texts)
    /\ loaded.kinds \in UpTo(MaxKinds, KindsIn(loaded.atoms))
    /\ loaded.heap \in UpTo(MaxNodes, NodesIn(loaded.atoms, loaded.kinds))
    /\ loaded.meta \in Tables(loaded.atoms)
    /\ stage <= Schema => loaded.kinds = << >>
    /\ stage <= Heap => loaded.heap = << >>
    /\ stage <= Meta => loaded.meta = << >>

LEMMA FoundIsListed ==
    ASSUME TypeOK, NEW tag, find(tag) # 0
    PROVE  find(tag) \in DOMAIN entries
<1> DEFINE hits == {i \in DOMAIN entries : entries[i].tag = tag}
           first == CHOOSE i \in hits : \A j \in hits : i <= j
<1>1. hits # {} /\ find(tag) = first
    BY DEF find
<1>2. hits \in SUBSET Nat /\ hits \subseteq DOMAIN entries
    BY DEF TypeOK
<1> HIDE DEF hits
<1>3. \E i \in hits : \A j \in hits : i <= j
    BY <1>1, <1>2, LeastElement
<1>4. first \in hits
    BY <1>3
<1> QED
    BY <1>1, <1>2, <1>4

\* The window of an accepted section is bytes of the file.
LEMMA SectionTyped ==
    ASSUME IInv, FileTyped, status = "ok", NEW tag, find(tag) # 0
    PROVE  section_reader(tag) \in Bytes
<1> DEFINE e == entries[find(tag)]
<1>1. find(tag) \in 1 .. Len(entries) /\ entries \in Seq(Entry)
    BY FoundIsListed DEF IInv, TypeOK
<1>2. e \in Entry
    BY <1>1, ElementOfSeq
<1>3. e.offset + e.length <= file_size
    BY <1>1 DEF IInv, WindowsInFile
<1>4. section_reader(tag) = SubSeq(file, e.offset + 1, e.offset + e.length)
    BY DEF section_reader, window
<1> HIDE DEF e
<1>5. e.offset \in Nat /\ e.length \in Nat
    BY <1>2, DirectoryAssumption DEF Entry
<1>6. file \in Seq(Byte) /\ e.offset + e.length <= Len(file)
    BY <1>3 DEF FileTyped, Bytes
<1>7. SubSeq(file, e.offset + 1, e.offset + e.length) \in Seq(Byte)
    BY <1>5, <1>6, SubSeqProperties
<1> QED
    BY <1>4, <1>7 DEF Bytes

\* A container with one section replaced.
Parts == {"atoms", "kinds", "heap", "journal", "xref", "meta"}
Replaces(l, part, v, n) == n = [l EXCEPT ![part] = v]

LEMMA LoadedWith ==
    ASSUME NEW l, IsContainer(l), NEW part \in Parts, NEW v, NEW n, Replaces(l, part, v, n)
    PROVE  /\ IsContainer(n)
           /\ n.atoms = IF part = "atoms" THEN v ELSE l.atoms
           /\ n.kinds = IF part = "kinds" THEN v ELSE l.kinds
           /\ n.heap = IF part = "heap" THEN v ELSE l.heap
           /\ n.meta = IF part = "meta" THEN v ELSE l.meta
<1>1. PICK a, k, h, j, x, m :
          l = [atoms |-> a, kinds |-> k, heap |-> h, journal |-> j, xref |-> x, meta |-> m]
    BY DEF IsContainer
<1>2. CASE part = "atoms"
    <2>1. n = [atoms |-> v, kinds |-> k, heap |-> h, journal |-> j,
              xref |-> x, meta |-> m]
        BY <1>1, <1>2 DEF Replaces
    <2> QED
        BY <1>1, <1>2, <2>1 DEF IsContainer
<1>3. CASE part = "kinds"
    <2>1. n = [atoms |-> a, kinds |-> v, heap |-> h, journal |-> j,
              xref |-> x, meta |-> m]
        BY <1>1, <1>3 DEF Replaces
    <2> QED
        BY <1>1, <1>3, <2>1 DEF IsContainer
<1>4. CASE part = "heap"
    <2>1. n = [atoms |-> a, kinds |-> k, heap |-> v, journal |-> j,
              xref |-> x, meta |-> m]
        BY <1>1, <1>4 DEF Replaces
    <2> QED
        BY <1>1, <1>4, <2>1 DEF IsContainer
<1>5. CASE part = "journal"
    <2>1. n = [atoms |-> a, kinds |-> k, heap |-> h, journal |-> v,
              xref |-> x, meta |-> m]
        BY <1>1, <1>5 DEF Replaces
    <2> QED
        BY <1>1, <1>5, <2>1 DEF IsContainer
<1>6. CASE part = "xref"
    <2>1. n = [atoms |-> a, kinds |-> k, heap |-> h, journal |-> j,
              xref |-> v, meta |-> m]
        BY <1>1, <1>6 DEF Replaces
    <2> QED
        BY <1>1, <1>6, <2>1 DEF IsContainer
<1>7. CASE part = "meta"
    <2>1. n = [atoms |-> a, kinds |-> k, heap |-> h, journal |-> j,
              xref |-> x, meta |-> v]
        BY <1>1, <1>7 DEF Replaces
    <2> QED
        BY <1>1, <1>7, <2>1 DEF IsContainer
<1> QED
    BY <1>2, <1>3, <1>4, <1>5, <1>6, <1>7 DEF Parts

LEMMA LoadedInit == ContainerInit => LoadedSoFar
<1> SUFFICES ASSUME ContainerInit PROVE LoadedSoFar
    OBVIOUS
<1>1. loaded = [atoms |-> << >>, kinds |-> << >>, heap |-> << >>, journal |-> << >>,
                xref |-> << >>, meta |-> << >>] /\ stage = 1
    BY DEF ContainerInit, Atom
<1>2. \A limit \in Nat : \A S : << >> \in UpTo(limit, S)
    BY EmptySeq DEF UpTo
<1>3. IsContainer(loaded)
    BY <1>1 DEF IsContainer
<1> QED
    BY <1>1, <1>2, <1>3, Limits DEF LoadedSoFar, Tables

\* The six tables, one at a time, where the sections before it are there.
LEMMA LoadedStep ==
    ASSUME IInv, FileTyped, LoadedSoFar, [ContainerNext]_containerVars
    PROVE  LoadedSoFar'
<1>0. /\ stage \in Nat /\ IsContainer(loaded)
      /\ \A limit \in Nat : \A S : << >> \in UpTo(limit, S)
    BY EmptySeq DEF LoadedSoFar, UpTo
<1>1. CASE UNCHANGED << stage, loaded >>
    BY <1>1 DEF LoadedSoFar
<1>2. ASSUME loaded' = loaded, stage' = stage + 1 PROVE LoadedSoFar'
    BY <1>0, <1>2 DEF LoadedSoFar, Schema, Heap, Meta
<1>3. CASE LoadAtoms
    <2> DEFINE res == decode_atoms(section_reader(Atom))
    <2>1. /\ status = "ok" /\ stage = Atom
          /\ \/ UNCHANGED << stage, loaded >>
             \/ loaded' = loaded /\ stage' = stage + 1
             \/ /\ find(Atom) # 0 /\ res.code = "ok"
                /\ loaded' = [loaded EXCEPT !.atoms = res.value] /\ stage' = stage + 1
        BY <1>3 DEF LoadAtoms, LoadSection
    <2>2. find(Atom) # 0 => res \in Answers(SectionCodes, UpTo(MaxAtoms, Texts))
        BY <2>1, SectionTyped, AtomsAnswers
    <2> HIDE DEF res
    <2>3. ASSUME find(Atom) # 0, res.code = "ok",
                 loaded' = [loaded EXCEPT !.atoms = res.value], stage' = stage + 1
          PROVE  LoadedSoFar'
        <3>0. Replaces(loaded, "atoms", res.value, loaded')
            BY <2>3 DEF Replaces
        <3>1. res.value \in UpTo(MaxAtoms, Texts)
            BY <2>2, <2>3, AnswerRead
        <3>2. loaded.kinds = << >> /\ loaded.heap = << >> /\ loaded.meta = << >>
            BY <2>1 DEF LoadedSoFar, Atom, Schema, Heap, Meta
        <3>3. /\ IsContainer(loaded') /\ loaded'.atoms = res.value /\ loaded'.kinds = << >>
              /\ loaded'.heap = << >> /\ loaded'.meta = << >>
            BY <1>0, <3>0, <2>3, <3>2, LoadedWith DEF Parts
        <3>4. stage' \in Nat
            BY <1>0, <2>3
        <3> QED
            BY <1>0, <3>1, <3>3, <3>4, Limits, SMTT(60) DEF LoadedSoFar, Tables
    <2> QED
        BY <1>1, <1>2, <2>1, <2>3
<1>4. CASE LoadSchema
    <2> DEFINE res == decode_schema(loaded.atoms, section_reader(Schema))
    <2>1. /\ status = "ok" /\ stage = Schema
          /\ \/ UNCHANGED << stage, loaded >>
             \/ loaded' = loaded /\ stage' = stage + 1
             \/ /\ find(Schema) # 0 /\ res.code = "ok"
                /\ loaded' = [loaded EXCEPT !.kinds = res.value] /\ stage' = stage + 1
        BY <1>4 DEF LoadSchema, LoadSection
    <2>2. find(Schema) # 0 =>
              res \in Answers(SectionCodes, UpTo(MaxKinds, KindsIn(loaded.atoms)))
        BY <2>1, SectionTyped, SchemaAnswers
    <2> HIDE DEF res
    <2>3. ASSUME find(Schema) # 0, res.code = "ok",
                 loaded' = [loaded EXCEPT !.kinds = res.value], stage' = stage + 1
          PROVE  LoadedSoFar'
        <3>0. Replaces(loaded, "kinds", res.value, loaded')
            BY <2>3 DEF Replaces
        <3>1. res.value \in UpTo(MaxKinds, KindsIn(loaded.atoms))
            BY <2>2, <2>3, AnswerRead
        <3>2. /\ loaded.heap = << >> /\ loaded.meta = << >>
              /\ loaded.atoms \in UpTo(MaxAtoms, Texts)
            BY <2>1 DEF LoadedSoFar, Schema, Heap, Meta
        <3>3. /\ IsContainer(loaded') /\ loaded'.atoms = loaded.atoms /\ loaded'.kinds = res.value
              /\ loaded'.heap = << >> /\ loaded'.meta = << >>
            BY <1>0, <3>0, <2>3, <3>2, LoadedWith DEF Parts
        <3>4. stage' \in Nat /\ stage' = 3
            BY <1>0, <2>1, <2>3 DEF Schema
        <3> QED
            BY <1>0, <3>1, <3>2, <3>3, <3>4, Limits DEF LoadedSoFar, Tables, Schema
    <2> QED
        BY <1>1, <1>2, <2>1, <2>3
<1>5. CASE LoadHeap
    <2> DEFINE res == decode_heap(loaded.atoms, loaded.kinds, section_reader(Heap))
    <2>1. /\ status = "ok" /\ stage = Heap
          /\ \/ UNCHANGED << stage, loaded >>
             \/ loaded' = loaded /\ stage' = stage + 1
             \/ /\ find(Heap) # 0 /\ res.code = "ok"
                /\ loaded' = [loaded EXCEPT !.heap = res.value] /\ stage' = stage + 1
        BY <1>5 DEF LoadHeap, LoadSection
    <2>0. /\ loaded.meta = << >> /\ loaded.atoms \in UpTo(MaxAtoms, Texts)
          /\ loaded.kinds \in UpTo(MaxKinds, KindsIn(loaded.atoms))
        BY <2>1 DEF LoadedSoFar, Heap, Meta
    <2>2. find(Heap) # 0 =>
              res \in Answers(SectionCodes, UpTo(MaxNodes, NodesIn(loaded.atoms, loaded.kinds)))
        BY <2>0, <2>1, SectionTyped, HeapAnswers
    <2> HIDE DEF res
    <2>3. ASSUME find(Heap) # 0, res.code = "ok",
                 loaded' = [loaded EXCEPT !.heap = res.value], stage' = stage + 1
          PROVE  LoadedSoFar'
        <3>0. Replaces(loaded, "heap", res.value, loaded')
            BY <2>3 DEF Replaces
        <3>1. res.value \in UpTo(MaxNodes, NodesIn(loaded.atoms, loaded.kinds))
            BY <2>2, <2>3, AnswerRead
        <3>3. /\ IsContainer(loaded') /\ loaded'.atoms = loaded.atoms
              /\ loaded'.kinds = loaded.kinds /\ loaded'.heap = res.value /\ loaded'.meta = << >>
            BY <1>0, <3>0, <2>0, <2>3, LoadedWith DEF Parts
        <3>4. stage' \in Nat /\ stage' = 4
            BY <1>0, <2>1, <2>3 DEF Heap
        <3> QED
            BY <2>0, <3>1, <3>3, <3>4 DEF LoadedSoFar, Tables, Schema, Heap
    <2> QED
        BY <1>1, <1>2, <2>1, <2>3
<1>6. CASE LoadJournal \/ LoadXref
    <2>1. /\ stage = Journal \/ stage = Xref
          /\ \/ UNCHANGED << stage, loaded >>
             \/ loaded' = loaded /\ stage' = stage + 1
             \/ /\ \E v : \E part \in {"journal", "xref"} : loaded' = [loaded EXCEPT ![part] = v]
                /\ stage' = stage + 1
        BY <1>6 DEF LoadJournal, LoadXref, LoadSection
    <2>2. ASSUME NEW v, NEW part \in {"journal", "xref"},
                 loaded' = [loaded EXCEPT ![part] = v], stage' = stage + 1
          PROVE  LoadedSoFar'
        <3>0. Replaces(loaded, part, v, loaded')
            BY <2>2 DEF Replaces
        <3>1. /\ IsContainer(loaded') /\ loaded'.atoms = loaded.atoms
              /\ loaded'.kinds = loaded.kinds /\ loaded'.heap = loaded.heap
              /\ loaded'.meta = loaded.meta
            BY <1>0, <3>0, <2>2, LoadedWith DEF Parts
        <3>2. stage' \in Nat /\ stage' \in {5, 6} /\ loaded.meta = << >>
            BY <1>0, <2>1, <2>2 DEF LoadedSoFar, Journal, Xref, Meta
        <3> QED
            BY <3>1, <3>2 DEF LoadedSoFar, Schema, Heap
    <2> QED
        BY <1>1, <1>2, <2>1, <2>2
<1>7. CASE LoadMeta
    <2> DEFINE res == decode_meta_section(loaded.atoms, section_reader(Meta))
    <2>1. /\ status = "ok" /\ stage = Meta
          /\ \/ UNCHANGED << stage, loaded >>
             \/ loaded' = loaded /\ stage' = stage + 1
             \/ /\ find(Meta) # 0 /\ res.code = "ok"
                /\ loaded' = [loaded EXCEPT !.meta = res.value] /\ stage' = stage + 1
        BY <1>7 DEF LoadMeta, LoadSection
    <2>2. find(Meta) # 0 => res \in Answers(SectionCodes,
              {KeepLast(pairs) : pairs \in Seq(IdsOf(loaded.atoms) \X OrNone(IdsOf(loaded.atoms)))})
        BY <2>1, SectionTyped, MetaAnswers
    <2> HIDE DEF res
    <2>3. ASSUME find(Meta) # 0, res.code = "ok",
                 loaded' = [loaded EXCEPT !.meta = res.value], stage' = stage + 1
          PROVE  LoadedSoFar'
        <3>0. Replaces(loaded, "meta", res.value, loaded')
            BY <2>3 DEF Replaces
        <3>1. res.value \in Tables(loaded.atoms)
            BY <2>2, <2>3, AnswerRead DEF Tables
        <3>3. /\ IsContainer(loaded') /\ loaded'.atoms = loaded.atoms
              /\ loaded'.kinds = loaded.kinds /\ loaded'.heap = loaded.heap
              /\ loaded'.meta = res.value
            BY <1>0, <3>0, <2>3, LoadedWith DEF Parts
        <3>4. stage' \in Nat /\ stage' = 7
            BY <1>0, <2>1, <2>3 DEF Meta
        <3> QED
            BY <3>1, <3>3, <3>4 DEF LoadedSoFar, Schema, Heap, Meta
    <2> QED
        BY <1>1, <1>2, <2>1, <2>3
<1>8. CASE Return
    BY <1>1, <1>8 DEF Return
<1>9. CASE Build
    BY <1>1, <1>9, BuildFrame DEF loading
<1>10. CASE Serialize \/ OpenFile \/ DecodeHeader \/ DecodeEntry \/ FinishDirectory
    BY <1>1, <1>10 DEF Serialize, OpenFile, DecodeHeader, DecodeEntry, FinishDirectory, loading
<1>11. ASSUME NEW i \in DOMAIN file, NEW byte \in DamageBytes, Damage(i, byte)
       PROVE  LoadedSoFar'
    BY <1>1, <1>11 DEF Damage, loading
<1>12. ASSUME NEW n \in 1 .. Len(file) - 1, Cut(n) PROVE LoadedSoFar'
    BY <1>1, <1>12 DEF Cut, loading
<1>13. CASE UNCHANGED containerVars
    BY <1>1, <1>13 DEF containerVars, loading
<1> QED
    BY <1>3, <1>4, <1>5, <1>6, <1>7, <1>8, <1>9, <1>10, <1>11, <1>12, <1>13 DEF ContainerNext

LEMMA LoadedInvariant == ContainerSpec => []LoadedSoFar
<1>1. IInv /\ FileTyped /\ LoadedSoFar /\ [ContainerNext]_containerVars => LoadedSoFar'
    BY LoadedStep
<1> QED
    BY LoadedInit, <1>1, FileInvariant, ContainerDirectory, PTL DEF ContainerSpec

\* A setting that the heap's decoder made is one of the kind of its node.
LEMMA SettingsFit ==
    ASSUME NEW kinds, NEW kind, NEW p \in SettingsOf(kinds[kind + 1]),
           Len(kinds[kind + 1].fields) \in Nat
    PROVE  ValueFits(kinds, kind, p[1], p[2])
<1>1. PICK f \in IdsOf(kinds[kind + 1].fields) :
          \E v \in ValuesOf(kinds[kind + 1].fields[f + 1].type) : p = << f, v >>
    BY DEF SettingsOf
<1>2. PICK v \in ValuesOf(kinds[kind + 1].fields[f + 1].type) : p = << f, v >>
    BY <1>1
<1>3. f < Len(kinds[kind + 1].fields)
    BY DEF IdsOf
<1>4. v.type = kinds[kind + 1].fields[f + 1].type
      /\ (v.type = ListType => Len(v.data) <= MaxListLen)
    BY DEF ValuesOf
<1> QED
    BY <1>2, <1>3, <1>4 DEF ValueFits

\* What the sections hold of each other is what the replay machine starts from.
LEMMA SoFarIsWellFormed == LoadedSoFar => LoadedIsWellFormed
<1> SUFFICES ASSUME LoadedSoFar PROVE LoadedIsWellFormed
    OBVIOUS
<1> DEFINE atoms == loaded.atoms
           kinds == loaded.kinds
           heap == loaded.heap
           meta == loaded.meta
<1>1. /\ atoms \in UpTo(MaxAtoms, Texts) /\ kinds \in UpTo(MaxKinds, KindsIn(atoms))
      /\ heap \in UpTo(MaxNodes, NodesIn(atoms, kinds)) /\ meta \in Tables(atoms)
    BY DEF LoadedSoFar
<1> HIDE DEF atoms, kinds, heap, meta
<1>2. PoolFits(atoms)
    <2>1. atoms \in Seq(Texts) /\ Len(atoms) <= MaxAtoms
        BY <1>1 DEF UpTo
    <2>2. \A i \in DOMAIN atoms : atoms[i] \in Texts
        BY <2>1, ElementOfSeq, LenProperties
    <2> QED
        BY <2>1, <2>2 DEF PoolFits, Texts
<1>3. SchemaFits(atoms, kinds)
    <2>1. /\ Len(kinds) <= MaxKinds /\ DOMAIN kinds = 1 .. Len(kinds)
          /\ \A i \in 1 .. Len(kinds) : kinds[i] \in KindsIn(atoms)
        <3>1. kinds \in Seq(KindsIn(atoms))
            BY <1>1 DEF UpTo
        <3> QED
            BY <1>1, <3>1, KindsTyped, LenProperties
    <2>2. ASSUME NEW kind \in KindsIn(atoms)
          PROVE  /\ InPool(atoms, kind.name) /\ Len(kind.fields) <= MaxFieldsPerKind
                 /\ \A j \in DOMAIN kind.fields : /\ InPool(atoms, kind.fields[j].name)
                                                  /\ kind.fields[j].type \in ValueTypes
        <3>1. /\ kind.name \in IdsOf(atoms) /\ kind.fields \in Seq(FieldsIn(atoms))
              /\ Len(kind.fields) <= MaxFieldsPerKind
            BY DEF KindsIn, UpTo
        <3>2. \A j \in DOMAIN kind.fields : kind.fields[j] \in FieldsIn(atoms)
            BY <3>1, ElementOfSeq, LenProperties
        <3> QED
            BY <3>1, <3>2 DEF InPool, FieldsIn
    <2> QED
        BY <2>1, <2>2 DEF SchemaFits
<1>4. HeapFits(atoms, kinds, heap, Held)
    <2>1. /\ heap \in Seq(NodesIn(atoms, kinds)) /\ Len(heap) <= MaxNodes
          /\ \A i \in DOMAIN heap : heap[i] \in NodesIn(atoms, kinds)
        <3>1. heap \in Seq(NodesIn(atoms, kinds)) /\ Len(heap) <= MaxNodes
            BY <1>1 DEF UpTo
        <3> QED
            BY <3>1, ElementOfSeq, LenProperties
    <2>2. ASSUME NEW node \in NodesIn(atoms, kinds)
          PROVE  /\ node.kind < Len(kinds) /\ InPoolOrNone(atoms, node.name)
                 /\ \A fv \in Held(node) : ValueFits(kinds, node.kind, fv[1], fv[2])
        <3>0. PICK k \in IdsOf(kinds) :
                  \E name \in OrNone(IdsOf(atoms)), pairs \in Seq(SettingsOf(kinds[k + 1])) :
                      node = [kind |-> k, name |-> name, fields |-> KeepLast(pairs)]
            BY DEF NodesIn
        <3>1. PICK name \in OrNone(IdsOf(atoms)), pairs \in Seq(SettingsOf(kinds[k + 1])) :
                  node = [kind |-> k, name |-> name, fields |-> KeepLast(pairs)]
            BY <3>0
        <3> DEFINE kept == KeepLast(pairs)
        <3>2. node.kind = k /\ node.name = name /\ node.fields = kept
            BY <3>1
        <3>3. k < Len(kinds) /\ k + 1 \in 1 .. Len(kinds) /\ InPoolOrNone(atoms, name)
            BY <1>1, KindsTyped DEF IdsOf, OrNone, InPoolOrNone, InPool
        <3>4. Len(kinds[k + 1].fields) \in Nat
            <4>1. IsKind(kinds[k + 1])
                BY <1>1, <3>3, KindsTyped
            <4> QED
                BY <4>1, LenProperties DEF IsKind
        <3>5. ASSUME NEW key \in DOMAIN kept PROVE ValueFits(kinds, k, key, kept[key])
            <4>1. PICK p \in SettingsOf(kinds[k + 1]) : p[1] = key /\ p[2] = kept[key]
                BY KeptIsOneOf
            <4> HIDE DEF kept
            <4>2. ValueFits(kinds, k, p[1], p[2])
                BY <3>4, SettingsFit
            <4> QED
                BY <4>1, <4>2
        <3> HIDE DEF kept
        <3>6. \A fv \in Held(node) : fv[1] \in DOMAIN kept /\ fv[2] = kept[fv[1]]
            BY <3>2 DEF Held
        <3> QED
            BY <3>2, <3>3, <3>5, <3>6
    <2> QED
        BY <2>1, <2>2 DEF HeapFits
<1>5. \A key \in DOMAIN meta : InPool(atoms, key) /\ InPoolOrNone(atoms, meta[key])
    <2>1. CASE meta = << >>
        BY <2>1
    <2>2. CASE meta # << >>
        <3> DEFINE Pairs == IdsOf(atoms) \X OrNone(IdsOf(atoms))
        <3>1. PICK pairs \in Seq(Pairs) : meta = KeepLast(pairs)
            BY <1>1, <2>2 DEF Tables
        <3>2. ASSUME NEW key \in DOMAIN meta
              PROVE  \E p \in Pairs : p[1] = key /\ p[2] = meta[key]
            <4> HIDE DEF Pairs
            <4> QED
                BY <3>1, <3>2, KeptIsOneOf
        <3> QED
            BY <3>2 DEF InPool, InPoolOrNone, OrNone
    <2> QED
        BY <2>1, <2>2
<1> QED
    BY <1>2, <1>3, <1>4, <1>5 DEF LoadedIsWellFormed, atoms, kinds, heap, meta

\* Whatever the bytes of a file and whatever has happened to them, the container
\* that load() holds after any section is one that the replay machine can start
\* from: every check of a decoder is one against what is already there.
THEOREM LoadedCorrect == ContainerSpec => []LoadedIsWellFormed
BY LoadedInvariant, SoFarIsWellFormed, PTL

-----------------------------------------------------------------------------
(* The numbers written are the numbers read *)

\* The digits that division takes off a number until nothing is left.
DigitsOf(base, n, L, digits) ==
    /\ \A k \in 0 .. n : L[k] \in Nat
    /\ \A k \in 1 .. n : L[k] = L[k - 1] \div base
    /\ L[n] = 0
    /\ digits \in Seq(Nat) /\ Len(digits) = n
    /\ \A i \in 1 .. n : digits[i] = L[i - 1] % base

LEMMA DigitsSpell ==
    ASSUME NEW base \in Nat \ {0}, NEW n \in Nat, NEW L, NEW digits,
           DigitsOf(base, n, L, digits)
    PROVE  Number(base, digits) = L[0]
<1>0. /\ \A k \in 0 .. n : L[k] \in Nat
      /\ \A k \in 1 .. n : L[k] = L[k - 1] \div base
      /\ L[n] = 0
      /\ digits \in Seq(Nat) /\ Len(digits) = n
      /\ \A i \in 1 .. n : digits[i] = L[i - 1] % base
    BY DEF DigitsOf
<1>a. digits \in Seq(Nat) /\ Len(digits) = n /\ base \in Nat
    BY <1>0
<1>b. PICK last \in [0 .. Len(digits) -> Nat] :
          /\ last[0] = 0
          /\ \A k \in 1 .. Len(digits) :
                last[k] = digits[Len(digits) - k + 1] + base * last[k - 1]
          /\ Number(base, digits) = last[Len(digits)]
    BY <1>a, NumberRecursion
<1>1. /\ last \in [0 .. n -> Nat] /\ last[0] = 0
      /\ \A k \in 1 .. n : last[k] = digits[n - k + 1] + base * last[k - 1]
      /\ Number(base, digits) = last[n]
    BY <1>a, <1>b
<1> DEFINE P == {k \in 0 .. n : last[k] = L[n - k]}
<1>2. 0 \in P
    BY <1>0, <1>1
<1>3. ASSUME NEW k \in 1 .. n, k - 1 \in P PROVE k \in P
    <2> DEFINE i == n - k + 1
               x == L[n - k]
    <2>1. i \in 1 .. n /\ i - 1 = n - k /\ n - (k - 1) = i
        OBVIOUS
    <2>2. last[k] = digits[i] + base * last[k - 1] /\ last[k - 1] = L[i]
        BY <1>1, <1>3, <2>1
    <2>3. digits[i] = x % base /\ L[i] = x \div base /\ x \in Nat
        BY <1>0, <2>1, SMTT(60)
    <2> HIDE DEF i, x
    <2>4. (x % base) + base * (x \div base) = x
        BY <2>3
    <2>5. last[k] = (x % base) + base * (x \div base)
        BY <2>2, <2>3
    <2>6. last[k] = x
        BY <2>4, <2>5
    <2> QED
        BY <2>6 DEF x
<1>4. 0 .. n \subseteq P
    <2> HIDE DEF P
    <2> QED
        BY <1>2, <1>3, UpTheInterval
<1>5. n \in 0 .. n /\ n - n = 0
    OBVIOUS
<1> QED
    BY <1>1, <1>4, <1>5

LEMMA PowerMonotone ==
    ASSUME NEW base \in Nat \ {0}, NEW n \in Nat, NEW m \in 0 .. n
    PROVE  Power(base, m) <= Power(base, n)
<1> DEFINE P == {k \in 0 .. n - m : Power(base, m) <= Power(base, m + k)}
<1>0. n - m \in Nat /\ m \in Nat /\ Power(base, m) \in Nat
    BY PowerPositive
<1>1. 0 \in P
    BY <1>0
<1>2. ASSUME NEW k \in 1 .. n - m, k - 1 \in P PROVE k \in P
    <2> DEFINE j == m + (k - 1)
    <2>1. j \in Nat /\ j + 1 = m + k
        BY <1>0
    <2> HIDE DEF j
    <2>2. Power(base, j) \in Nat /\ Power(base, j + 1) = base * Power(base, j)
        BY <2>1, PowerPositive, PowerSteps
    <2>3. Power(base, m) <= Power(base, j)
        BY <1>2 DEF j
    <2>4. Power(base, j) <= base * Power(base, j)
        BY <2>2
    <2>5. Power(base, m) <= Power(base, m + k)
        BY <1>0, <2>1, <2>2, <2>3, <2>4
    <2> QED
        BY <2>5
<1>3. 0 .. n - m \subseteq P
    <2> HIDE DEF P
    <2> QED
        BY <1>0, <1>1, <1>2, UpTheInterval
<1>4. n - m \in 0 .. n - m /\ m + (n - m) = n
    BY <1>0
<1> QED
    BY <1>3, <1>4

\* A word has room for an even number of numbers, and for more than two.
LEMMA WordIsEven ==
    \E half \in Nat : WordSize = 2 * half /\ WordSize >= 4
<1>1. U64Bytes - 1 \in Nat /\ (U64Bytes - 1) + 1 = U64Bytes
    BY Widths
<1> DEFINE p == Power(ByteBase, U64Bytes - 1)
<1>2. p \in Nat \ {0} /\ WordSize = ByteBase * p
    BY <1>1, Widths, PowerPositive, PowerSteps DEF WordSize
<1> HIDE DEF p
<1>3. ByteBase = 2 * GroupBase /\ GroupBase \in Nat /\ GroupBase >= 2
    BY Widths DEF ByteBase
<1>4. WordSize = 2 * (GroupBase * p)
    BY <1>2, <1>3
<1>5. GroupBase * p \in Nat /\ GroupBase * p >= 2
    BY <1>2, <1>3
<1> QED
    BY <1>4, <1>5

\* The byte that ends a varint is the first that has no bit for more.
LEMMA EndIs ==
    ASSUME NEW r, NEW n \in Ends(r), \A i \in 1 .. n - 1 : i \notin Ends(r)
    PROVE  read_varint(r) = Got(Groups(r, n), Skip(r, n))
<1>1. Ends(r) \in SUBSET Nat /\ Ends(r) # {} /\ n \in Nat
    BY Widths, SMTT(60) DEF Ends
<1>2. Min(Ends(r)) \in Ends(r) /\ Min(Ends(r)) <= n
    BY <1>1, MinIsLeast
<1> DEFINE m == Min(Ends(r))
<1>3. m = n
    <2>1. m \in Nat /\ m >= 1
        BY <1>2 DEF Ends
    <2>2. m \notin 1 .. n - 1
        BY <1>2
    <2> HIDE DEF m
    <2> QED
        BY <1>1, <1>2, <2>1, <2>2 DEF m
<1>4. read_varint(r) = Got(Groups(r, m), Skip(r, m))
    BY <1>1 DEF read_varint, Ends
<1> QED
    BY <1>3, <1>4

\* Two sequences, one after the other, come apart again.
LEMMA ConcatParts ==
    ASSUME NEW S, NEW b \in Seq(S), NEW tail \in Seq(S), NEW n, n = Len(b)
    PROVE  /\ SubSeq(b \o tail, 1, n) = b
           /\ SubSeq(b \o tail, n + 1, Len(b \o tail)) = tail
           /\ Len(b \o tail) = n + Len(tail) /\ Len(tail) \in Nat /\ n \in Nat
           /\ \A i \in 1 .. n : (b \o tail)[i] = b[i]
<1> DEFINE s == b \o tail
<1>1. /\ s \in Seq(S) /\ Len(s) = n + Len(tail) /\ Len(tail) \in Nat /\ n \in Nat
      /\ \A i \in 1 .. n : s[i] = b[i]
      /\ \A i \in 1 .. Len(tail) : s[n + i] = tail[i]
    OBVIOUS
<1> HIDE DEF s
<1>2. /\ SubSeq(s, 1, n) \in Seq(S) /\ Len(SubSeq(s, 1, n)) = n
      /\ \A i \in 1 .. n : SubSeq(s, 1, n)[i] = s[i]
    BY <1>1
<1>3. SubSeq(s, 1, n) = b
    BY <1>1, <1>2, SeqEqual
<1> DEFINE t == SubSeq(s, n + 1, n + Len(tail))
<1>4. t \in Seq(S) /\ Len(t) = Len(tail) /\ \A i \in 1 .. Len(tail) : t[i] = s[n + i]
    BY <1>1
<1> HIDE DEF t
<1>5. t = tail
    BY <1>1, <1>4, SeqEqual
<1> QED
    BY <1>1, <1>3, <1>5 DEF s, t

\* varint() and read_varint() agree on every word, whatever follows it.
LEMMA VarintRoundTrip ==
    ASSUME NEW w \in Words, NEW tail \in Bytes
    PROVE  read_varint(varint(w) \o tail) = Got(w, tail)
<1> DEFINE L == GroupsLeft(w)
           b == varint(w)
           s == b \o tail
<1>1. w \in Int /\ w \in Nat /\ w % WordSize = w
    BY Widths DEF Words
<1>2. PICK n \in 1 .. MaxGroups : Spells(varint(w), w, n)
    BY <1>1, VarintForm
<1>3. /\ \A k \in 0 .. n : L[k] \in Nat
      /\ \A k \in 1 .. n : L[k] = L[k - 1] \div GroupBase
      /\ L[0] = w /\ n \in Nat
    <2>1. \A k \in 0 .. n : k \in 0 .. MaxGroups
        BY Widths
    <2>2. \A k \in 1 .. n : k \in 1 .. MaxGroups
        BY Widths
    <2>3. \A k \in 0 .. MaxGroups : L[k] \in Nat
        BY <1>1, GroupDigits
    <2>4. \A k \in 1 .. MaxGroups : L[k] = L[k - 1] \div GroupBase
        BY <1>1, GroupDigits
    <2>5. L[0] = w
        BY <1>1, GroupDigits
    <2> HIDE DEF L
    <2> QED
        BY <2>1, <2>2, <2>3, <2>4, <2>5, Widths
<1>4. /\ L[n - 1] < GroupBase
      /\ \A i \in 1 .. n : b[i] = (L[i - 1] % GroupBase) + (IF i < n THEN GroupBase ELSE 0)
      /\ Len(b) = n
    BY <1>2, <1>3 DEF Spells
<1>5. b \in Bytes
    BY <1>1, VarintTyped
<1> HIDE DEF L, b
<1>6. /\ s \in Bytes /\ Len(s) = n + Len(tail) /\ Len(tail) \in Nat
      /\ \A i \in 1 .. n : s[i] = b[i]
    BY <1>4, <1>5, SMTT(60) DEF Bytes
<1>7. Skip(s, n) = tail
    BY <1>4, <1>5, ConcatParts DEF Skip, Bytes
<1> HIDE DEF s
<1>8. \A i \in 1 .. n : /\ L[i - 1] % GroupBase \in 0 .. GroupBase - 1
                        /\ s[i] % GroupBase = L[i - 1] % GroupBase
                        /\ s[i] < GroupBase <=> i = n
    <2> SUFFICES ASSUME NEW i \in 1 .. n
                 PROVE  /\ L[i - 1] % GroupBase \in 0 .. GroupBase - 1
                        /\ s[i] % GroupBase = L[i - 1] % GroupBase
                        /\ s[i] < GroupBase <=> i = n
        OBVIOUS
    <2> DEFINE x == L[i - 1] % GroupBase
    <2>1. x \in 0 .. GroupBase - 1
        <3>1. i - 1 \in 0 .. n
            BY <1>3
        <3>2. L[i - 1] \in Nat
            BY <1>3, <3>1
        <3> QED
            BY <3>2, Widths
    <2>2. s[i] = x + (IF i < n THEN GroupBase ELSE 0)
        BY <1>4, <1>6
    <2> HIDE DEF x
    <2>0. GroupBase \in Nat /\ x % GroupBase = x /\ (x + GroupBase) % GroupBase = x
        BY <2>1, Widths
    <2>3. CASE i < n
        <3>1. s[i] % GroupBase = x /\ ~ (s[i] < GroupBase) /\ i # n
            BY <1>3, <2>0, <2>1, <2>2, <2>3
        <3> QED
            BY <2>1, <3>1 DEF x
    <2>4. CASE ~ (i < n)
        <3>1. s[i] % GroupBase = x /\ s[i] < GroupBase /\ i = n
            BY <1>3, <2>0, <2>1, <2>2, <2>4
        <3> QED
            BY <2>1, <3>1 DEF x
    <2> QED
        BY <2>3, <2>4
<1>9. n \in Ends(s) /\ \A i \in 1 .. n - 1 : i \notin Ends(s)
    BY <1>3, <1>6, <1>8 DEF Ends
<1>10. read_varint(s) = Got(Groups(s, n), tail)
    BY <1>7, <1>9, EndIs
<1> DEFINE digits == [i \in 1 .. n |-> s[i] % GroupBase]
<1>11. Spelt(s, n) = w
    <2>1. L[n] = 0
        <3> DEFINE x == L[n - 1]
        <3>1. x \in Nat /\ L[n] = x \div GroupBase /\ x < GroupBase
            BY <1>3, <1>4
        <3> HIDE DEF x
        <3>2. x \div GroupBase = 0
            BY <3>1, Widths
        <3> QED
            BY <3>1, <3>2
    <2>2. /\ digits \in Seq(Nat) /\ Len(digits) = n
          /\ \A i \in 1 .. n : digits[i] = L[i - 1] % GroupBase
        BY <1>3, <1>8
    <2>3. Spelt(s, n) = Number(GroupBase, digits)
        BY DEF Spelt
    <2> HIDE DEF digits
    <2>4. GroupBase \in Nat \ {0}
        BY Widths
    <2>5. DigitsOf(GroupBase, n, L, digits)
        BY <1>3, <2>1, <2>2 DEF DigitsOf
    <2>6. Number(GroupBase, digits) = L[0]
        BY <1>3, <2>4, <2>5, DigitsSpell
    <2> QED
        BY <1>3, <2>3, <2>6
<1> QED
    BY <1>1, <1>10, <1>11 DEF Groups, s, b

\* Zig-zag folds the numbers of one word, half of them negative, into a word.
LEMMA SvarintRoundTrip ==
    ASSUME NEW v \in Int, NEW half \in Nat, WordSize = 2 * half, -half <= v, v < half,
           NEW tail \in Bytes
    PROVE  read_svarint(svarint(v) \o tail) = Got(v, tail)
<1> DEFINE w == IF v >= 0 THEN 2 * v ELSE -2 * v - 1
           back == IF w % 2 = 0 THEN w \div 2 ELSE - (w \div 2) - 1
<1>1. w \in Words /\ back = v
    <2>1. CASE v >= 0
        <3>1. w = 2 * v
            BY <2>1
        <3>2. w % 2 = 0 /\ w \div 2 = v
            BY <2>1, <3>1
        <3>3. back = v
            BY <3>2
        <3> QED
            BY <2>1, <3>1, <3>3 DEF Words
    <2>2. CASE v < 0
        <3>1. w = -2 * v - 1
            BY <2>2
        <3>2. w % 2 = 1 /\ w \div 2 = -v - 1
            BY <2>2, <3>1
        <3>3. back = - (-v - 1) - 1
            BY <3>2
        <3> QED
            BY <2>2, <3>1, <3>3 DEF Words
    <2> QED
        BY <2>1, <2>2
<1>2. svarint(v) = varint(w)
    BY DEF svarint
<1>3. read_varint(varint(w) \o tail) = Got(w, tail)
    BY <1>1, VarintRoundTrip
<1> DEFINE a == read_varint(varint(w) \o tail)
           c == Got(IF a.value % 2 = 0 THEN a.value \div 2 ELSE - (a.value \div 2) - 1, a.rest)
<1>4. read_svarint(varint(w) \o tail) = Chain(a, c)
    BY DEF read_svarint, Bind, Chain
<1> HIDE DEF w
<1>5. a.code = "ok" /\ a.value = w /\ a.rest = tail
    BY <1>3 DEF Got
<1> HIDE DEF a
<1>6. c = Got(v, tail)
    BY <1>1, <1>5
<1> QED
    BY <1>2, <1>4, <1>5, <1>6 DEF Chain

\* An integer of n bytes is what its bytes spell.
LEMMA FixedRoundTrip ==
    ASSUME NEW n \in Nat, NEW v \in Widest(n), NEW tail \in Bytes
    PROVE  read_fixed(n, fixed(n, v) \o tail) = Got(v, tail)
<1> DEFINE L == Shifted(ByteBase, v, n)
           digits == fixed(n, v)
           s == digits \o tail
<1>1. v \in Nat /\ v < Power(ByteBase, n) /\ Power(ByteBase, n) \in Nat \ {0} /\ v \in Int
      /\ ByteBase \in Nat \ {0}
    BY Widths, PowerPositive DEF Widest
<1>2. /\ L[0] = v /\ \A k \in 1 .. n : L[k] = L[k - 1] \div ByteBase
      /\ \A k \in 0 .. n : L[k] \in Nat
    <2>1. ByteBase \in Nat \ {0} /\ v \in Int /\ v \in Nat
        BY ONLY <1>1
    <2>2. L[0] = v /\ \A k \in 1 .. n : L[k] = L[k - 1] \div ByteBase
        BY ONLY <2>1, n \in Nat, ShiftedRecursion, ZenonT(60)
    <2>3. \A k \in 0 .. n : L[k] \in Nat
        BY ONLY <2>1, n \in Nat, ShiftedBound
    <2> QED
        BY <2>2, <2>3
<1>3. L[n] = 0
    <2> DEFINE x == L[n]
               p == Power(ByteBase, n)
    <2>1. x \in Nat /\ x * p <= v
        <3>1. n \in 0 .. n
            OBVIOUS
        <3> QED
            BY <1>1, <3>1, ShiftedBound
    <2>2. p \in Nat \ {0} /\ v < p
        BY <1>1
    <2> HIDE DEF x, p
    <2>3. x = 0
        BY <1>1, <2>1, <2>2
    <2> QED
        BY <2>3 DEF x
<1>4. digits = [i \in 1 .. n |-> L[i - 1] % ByteBase] /\ digits \in Bytes /\ Len(digits) = n
    BY <1>1, FixedTyped DEF fixed
<1> HIDE DEF L, digits
<1>5. DigitsOf(ByteBase, n, L, digits)
    <2>1. digits \in Seq(Nat)
        <3>1. Byte \subseteq Nat
            BY DEF Byte
        <3> QED
            BY <1>4, <3>1, SeqMonotonic DEF Bytes
    <2> QED
        BY <1>2, <1>3, <1>4, <2>1 DEF DigitsOf
<1>6. Word(digits) = v
    BY <1>1, <1>2, <1>5, DigitsSpell DEF Word
<1>7. SubSeq(s, 1, n) = digits /\ Skip(s, n) = tail /\ ~ (Len(s) < n)
    <2>1. digits \in Seq(Byte) /\ tail \in Seq(Byte) /\ Len(digits) = n
        BY <1>4 DEF Bytes
    <2> QED
        BY <2>1, ConcatParts DEF Skip
<1> DEFINE a == read_bytes(n, s)
<1>8. a = Got(digits, tail)
    BY <1>7 DEF read_bytes
<1>9. read_fixed(n, s) = Chain(a, Got(Word(a.value), a.rest))
    BY DEF read_fixed, Bind, Chain
<1> HIDE DEF a, s
<1>10. a.code = "ok" /\ a.value = digits /\ a.rest = tail
    BY <1>8 DEF Got
<1>11. read_fixed(n, s) = Got(v, tail)
    BY <1>6, <1>9, <1>10 DEF Chain
<1> QED
    BY <1>11 DEF s, digits

\* What the reader takes of bytes that no writer may have written.
LEMMA VarintTaken ==
    ASSUME NEW r \in Bytes, read_varint(r).code = "ok"
    PROVE  \E n \in 1 .. MaxGroups :
              /\ n <= Len(r)
              /\ read_varint(r) = Got(Groups(r, n), Skip(r, n))
              /\ Len(r) - Len(Skip(r, n)) = n
              /\ \A i \in 1 .. n : r[i] >= GroupBase <=> i < n
<1>1. Ends(r) # {}
    <2>1. CASE Ends(r) = {}
        <3>1. read_varint(r) = Failed(IF Len(r) < MaxGroups THEN "Truncated" ELSE "BadValue", r)
            BY <2>1 DEF read_varint, Ends
        <3> QED
            BY <3>1 DEF Failed
    <2> QED
        BY <2>1
<1> DEFINE n == Min(Ends(r))
<1>2. n \in Ends(r) /\ \A k \in Ends(r) : n <= k
    <2>1. Ends(r) \in SUBSET Nat
        BY Widths DEF Ends
    <2> QED
        BY <1>1, <2>1, MinIsLeast
<1>3. read_varint(r) = Got(Groups(r, n), Skip(r, n))
    BY <1>1 DEF read_varint, Ends
<1> HIDE DEF n
<1>4. n \in 1 .. MaxGroups /\ n \in Nat /\ n <= Len(r) /\ r[n] < GroupBase /\ Len(r) \in Nat
    BY <1>2, Widths DEF Ends, Bytes
<1>5. Len(r) - Len(Skip(r, n)) = n
    <2>1. n \in 0 .. Len(r)
        BY <1>4
    <2>2. Len(Skip(r, n)) = Len(r) - n
        BY <2>1, SkipTyped
    <2> QED
        BY <1>4, <2>2
<1>6. ASSUME NEW i \in 1 .. n PROVE r[i] >= GroupBase <=> i < n
    <2>1. r[i] \in Nat /\ i \in 1 .. MaxGroups /\ i <= Len(r)
        <3>1. i \in 1 .. Len(r) /\ r \in Seq(Byte)
            BY <1>4 DEF Bytes
        <3>2. r[i] \in Byte
            BY <3>1, ElementOfSeq
        <3> QED
            BY <1>4, <3>1, <3>2, Widths DEF Byte
    <2>2. CASE i < n
        <3>1. ~ (n <= i)
            BY <1>4, <2>2
        <3>2. i \notin Ends(r)
            BY <1>2, <3>1
        <3>3. ~ (r[i] < GroupBase)
            BY <2>1, <3>2 DEF Ends
        <3> QED
            BY <2>1, <2>2, <3>3, Widths
    <2>3. CASE ~ (i < n)
        <3>1. i = n
            BY <1>4, <2>3
        <3> QED
            BY <1>4, <2>1, <3>1, Widths
    <2> QED
        BY <2>2, <2>3
<1> QED
    BY <1>3, <1>4, <1>5, <1>6

\* A number read is what its groups spell, as far as a word has room for it; only
\* the longest varint is wider than a word, and no varint is shorter than the
\* one the writer would write.
LEMMA VarintMeans ==
    ASSUME NEW r \in Bytes, NEW n \in 1 .. MaxGroups, n <= Len(r)
    PROVE  /\ (Spelt(r, n) - Groups(r, n)) % WordSize = 0
           /\ Spelt(r, n) # Groups(r, n) => n = MaxGroups
           /\ Len(varint(Groups(r, n))) <= n
<1> DEFINE x == Spelt(r, n)
           g == Groups(r, n)
           p == Power(GroupBase, n)
<1>1. n \in Nat /\ n \in 0 .. Len(r) /\ MaxGroups \in Nat /\ GroupBase \in Nat \ {0}
    BY Widths DEF Bytes
<1>2. x \in 0 .. p - 1 /\ g = x % WordSize /\ p \in Nat
    BY <1>1, SpeltBound, PowerPositive DEF Groups
<1> HIDE DEF x, g, p
<1>3. /\ x \in Nat /\ x < p /\ WordSize \in Nat \ {0}
      /\ g \in Nat /\ g <= x /\ g < WordSize /\ (x < WordSize => g = x)
      /\ (x - g) % WordSize = 0 /\ g % WordSize = g
    <2>1. x \in Nat /\ x < p /\ WordSize \in Nat \ {0}
        BY <1>2, Widths
    <2>2. g \in Nat /\ g < WordSize /\ (x < WordSize => g = x)
        BY <1>2, <2>1
    <2>3. x = g + WordSize * (x \div WordSize) /\ x \div WordSize \in Nat
        BY <1>2, <2>1
    <2>4. g <= x
        BY <2>1, <2>2, <2>3
    <2>5. (x - g) % WordSize = 0
        <3>1. (x - (x % WordSize)) % WordSize = 0
            BY <2>1
        <3> QED
            BY <1>2, <3>1
    <2>6. g % WordSize = g
        BY <2>1, <2>2
    <2> QED
        BY <2>1, <2>2, <2>4, <2>5, <2>6
<1>4. x # g => n = MaxGroups
    <2>1. CASE n # MaxGroups
        <3>1. n \in 0 .. MaxGroups - 1 /\ MaxGroups - 1 \in Nat
            BY <1>1, <2>1
        <3>2. p <= Power(GroupBase, MaxGroups - 1)
            BY <1>1, <3>1, PowerMonotone DEF p
        <3>3. Power(GroupBase, MaxGroups - 1) < WordSize
            BY CodecAssumption
        <3>4. Power(GroupBase, MaxGroups - 1) \in Nat
            BY <1>1, <3>1, PowerPositive
        <3>5. x < WordSize
            BY <1>2, <1>3, <3>2, <3>3, <3>4
        <3> QED
            BY <1>3, <3>5
    <2> QED
        BY <2>1
<1>5. Len(varint(g)) <= n
    <2>0. g \in Int
        BY <1>3
    <2>1. PICK k \in 1 .. MaxGroups :
              /\ Spells(varint(g), g, k)
              /\ \A m \in 1 .. MaxGroups : g % WordSize < Power(GroupBase, m) => k <= m
        BY <2>0, VarintForm
    <2>2. g % WordSize < Power(GroupBase, n)
        BY <1>2, <1>3 DEF p
    <2>3. k <= n /\ k \in Nat
        BY <1>1, <2>1, <2>2
    <2>4. Len(varint(g)) = k
        BY <2>1, <2>3 DEF Spells
    <2> QED
        BY <2>3, <2>4
<1> QED
    BY <1>3, <1>4, <1>5 DEF x, g

LEMMA EdgesAreWords == EdgeWords \subseteq Words /\ EdgeBytes \subseteq Byte
<1>1. WordSize \in Nat /\ WordSize >= 4
    BY WordIsEven
<1>2. EdgeWords \subseteq Words
    BY <1>1 DEF EdgeWords, Words
<1>3. ASSUME NEW p \in {0, 1, GroupBase \div 2, GroupBase - 1}
      PROVE  p \in Byte /\ GroupBase + p \in Byte
    <2>1. GroupBase \in Nat /\ GroupBase >= 2 /\ ByteBase = 2 * GroupBase
        BY Widths DEF ByteBase
    <2>2. p \in 0 .. GroupBase - 1
        BY <2>1
    <2> QED
        BY <2>1, <2>2 DEF Byte
<1>4. EdgeBytes \subseteq Byte
    BY <1>3 DEF EdgeBytes
<1> QED
    BY <1>2, <1>4

LEMMA VarintsAreRead == VarintsRead
<1>1. EdgeWords \subseteq Words /\ EdgeBytes \subseteq Byte
    BY EdgesAreWords
<1>2. ASSUME NEW w \in EdgeWords, NEW tail \in {<< >>, << 0 >>}
      PROVE  /\ read_varint(varint(w) \o tail) = Got(w, tail)
             /\ \A v \in {w - WordSize \div 2, w \div 2, - (w \div 2) - 1} :
                   read_svarint(svarint(v) \o tail) = Got(v, tail)
    <2>1. tail \in Bytes
        <3>1. 0 \in Byte
            BY Widths DEF Byte
        <3>2. << 0 >> \in Seq(Byte)
            BY <3>1
        <3> QED
            BY <3>2, EmptySeq DEF Bytes
    <2>2. w \in Words
        BY <1>1
    <2>3. PICK half \in Nat : WordSize = 2 * half
        BY WordIsEven
    <2>4. ASSUME NEW v \in {w - WordSize \div 2, w \div 2, - (w \div 2) - 1}
          PROVE  v \in Int /\ -half <= v /\ v < half
        <3>1. WordSize \div 2 = half /\ w \in 0 .. 2 * half - 1
            BY <2>2, <2>3 DEF Words
        <3>2. w \div 2 \in 0 .. half - 1
            BY <3>1
        <3> QED
            BY <3>1, <3>2
    <2> QED
        BY <2>1, <2>2, <2>3, <2>4, VarintRoundTrip, SvarintRoundTrip
<1>3. ASSUME NEW length \in 0 .. MaxGroups, NEW bytes \in [1 .. length -> EdgeBytes],
             read_varint(bytes).code = "ok"
      PROVE  LET res == read_varint(bytes)
                 n == Len(bytes) - Len(res.rest)
                 spelt == Spelt(bytes, n)
             IN  /\ \A i \in 1..n : bytes[i] >= GroupBase <=> i < n
                 /\ (spelt - res.value) % WordSize = 0
                 /\ spelt # res.value => n = MaxGroups
                 /\ Len(varint(res.value)) <= n
    <2>1. bytes \in Bytes
        <3>1. length \in Nat /\ bytes \in [1 .. length -> Byte]
            BY <1>1, Widths
        <3> QED
            BY <3>1 DEF Bytes
    <2>2. PICK n \in 1 .. MaxGroups :
              /\ n <= Len(bytes)
              /\ read_varint(bytes) = Got(Groups(bytes, n), Skip(bytes, n))
              /\ Len(bytes) - Len(Skip(bytes, n)) = n
              /\ \A i \in 1 .. n : bytes[i] >= GroupBase <=> i < n
        BY <1>3, <2>1, VarintTaken
    <2>3. /\ read_varint(bytes).rest = Skip(bytes, n)
          /\ read_varint(bytes).value = Groups(bytes, n)
        BY <2>2 DEF Got
    <2>4. /\ (Spelt(bytes, n) - Groups(bytes, n)) % WordSize = 0
          /\ Spelt(bytes, n) # Groups(bytes, n) => n = MaxGroups
          /\ Len(varint(Groups(bytes, n))) <= n
        BY <2>1, <2>2, VarintMeans
    <2> QED
        BY <2>2, <2>3, <2>4
<1> QED
    BY <1>2, <1>3 DEF VarintsRead

\* Whatever the width of groups, bytes and words: a varint, zig-zag folded or not,
\* is read as the number that was written, and bytes that no writer wrote are
\* read as the number they spell modulo the word.
THEOREM NumbersCorrect == ContainerSpec => []NumbersAreRead
<1>1. NumbersAreRead
    BY VarintsAreRead DEF NumbersAreRead
<1> QED
    BY <1>1, PTL

\* The round trip itself, of every number that the container's primitives write
\* and whatever bytes follow: words, the signed numbers of a word, and integers
\* of a fixed number of bytes (test_byte_rw tries a few of each).
THEOREM NumbersRoundTrip ==
    \A tail \in Bytes :
        /\ \A w \in Words : read_varint(varint(w) \o tail) = Got(w, tail)
        /\ \A v \in - (WordSize \div 2) .. (WordSize \div 2) - 1 :
              read_svarint(svarint(v) \o tail) = Got(v, tail)
        /\ \A n \in Nat : \A v \in Widest(n) : read_fixed(n, fixed(n, v) \o tail) = Got(v, tail)
<1> SUFFICES ASSUME NEW tail \in Bytes
             PROVE  /\ \A w \in Words : read_varint(varint(w) \o tail) = Got(w, tail)
                    /\ \A v \in - (WordSize \div 2) .. (WordSize \div 2) - 1 :
                          read_svarint(svarint(v) \o tail) = Got(v, tail)
                    /\ \A n \in Nat : \A v \in Widest(n) :
                          read_fixed(n, fixed(n, v) \o tail) = Got(v, tail)
    OBVIOUS
<1>1. PICK half \in Nat : WordSize = 2 * half
    BY WordIsEven
<1>2. WordSize \div 2 = half
    BY <1>1
<1>3. ASSUME NEW v \in - (WordSize \div 2) .. (WordSize \div 2) - 1
      PROVE  read_svarint(svarint(v) \o tail) = Got(v, tail)
    <2>1. v \in Int /\ -half <= v /\ v < half
        BY <1>2
    <2> QED
        BY <1>1, <2>1, SvarintRoundTrip
<1> QED
    BY <1>3, VarintRoundTrip, FixedRoundTrip
=============================================================================
