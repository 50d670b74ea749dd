------------------------- MODULE SendAnythingProofs -------------------------
(***************************************************************************)
(* Proofs of the type invariant of SendAnything and of what its answers    *)
(* mean.  What is in flight and what the client still has to send is       *)
(* related to what the handler has done so far: Position names the entries *)
(* that are not finished, and the line carries their messages.             *)
(***************************************************************************)
EXTENDS SendAnything, WellFoundedInduction, TLAPS

-----------------------------------------------------------------------------
(* The inductive invariant *)

Codes == {"kanban", "fileInfo", "cont", "changed", "eof", "dirInfo", "endDir", "failed", "eos"}
Message == [code : Codes, arg : Transfer \cup Item \cup File \cup Int]
Path == Seq(STRING)
Active == {"kanban", "top", "dir", "file", "write", "check"}

\* The types of everything, the messages and the paths included.
SendTypes ==
  /\ fileList \in [Transfer -> Seq(Item)]
  /\ spc \in [Transfer -> {"sending", "closing", "done"}]
  /\ todo \in [Transfer -> Seq(Message)]
  /\ wire \in [Transfer -> Seq(Message)]
  /\ \A t \in Transfer : Len(wire[t]) <= MaxWire
  /\ broken \in [Transfer -> BOOLEAN]
  /\ rpc \in [Transfer -> Active \cup {"handover", "answer", "done"}]
  /\ rdir \in [Transfer -> Item \cup {NoItem}]
  /\ rfile \in [Transfer -> File \cup {NoFile}]
  /\ rbuf \in [Transfer -> Nat]
  /\ rgood \in [Transfer -> BOOLEAN]
  /\ rdirCnt \in [Transfer -> Nat]
  /\ lists \in [Transfer -> [dirs : Seq(Path), files : Seq(Path)]]
  /\ cnt \in [Transfer -> Nat]
  /\ result \in [Transfer -> {"none", "ok", "failed"}]
  /\ linked \in [Transfer -> BOOLEAN]
  /\ brokerCh \in Seq(Transfer) /\ Len(brokerCh) <= 1
  /\ handed \in [Transfer -> Nat]
  /\ fault \in [Transfer -> BOOLEAN]

\* What is on the disk lies in directories that exist.
DiskTypes ==
  /\ dirs \subseteq Path
  /\ \A p \in DOMAIN disk : Front(p) \in dirs /\ disk[p] \subseteq File \cup {Garbage}

\* A received message is the one that was to come, or a chunk of it was changed.
Alike(a, b) == a = b \/ (a.code = "changed" /\ b.code = "cont" /\ a.arg = b.arg)

\* A line of messages carries X and then e, or a part of it, or a part and a
\* notice of failure instead of the rest.
Follows(line, X, e) ==
  \/ Len(line) <= Len(X) + 1 /\ \A k \in 1..Len(line) : Alike(line[k], Append(X, e)[k])
  \/ \E m \in 1..Len(X) :
       /\ m <= Len(line)
       /\ line[m].code = "failed"
       /\ \A k \in 1..(m - 1) : Alike(line[k], Append(X, e)[k])

\* What the handler may still receive.
Line(t) == IF broken[t] THEN wire[t] ELSE wire[t] \o todo[t]
EOS(t) == Msg("eos", SentFileCnt(fileList[t]))
Exactly(line, X, e) == line = Append(X, e)
Carries(t, X) ==
  /\ Follows(Line(t), X, EOS(t))
  /\ ~fault[t] => Exactly(Line(t), X, EOS(t))

\* The messages that are left of a file, of the handler's file and of a directory.
FileRest(f, k) == [n \in 1..(ChunkCnt[f] - k) |-> Msg("cont", k + n - 1)] \o <<Msg("eof", f)>>
Current(t) == IF rpc[t] = "file" THEN FileRest(rfile[t], rbuf[t]) ELSE <<>>
DirRest(i, fs) == MessagesOf(fs) \o <<Msg("endDir", i)>>

\* The lists and the count lack the entries in rest, which are of the kanban's list.
Progress(t, rest) ==
  /\ lists[t].dirs \o DirPaths(t, rest) = DirPaths(t, fileList[t])
  /\ lists[t].files \o FilePaths(t, rest) = FilePaths(t, fileList[t])
  /\ cnt[t] + SentFileCnt(rest) = SentFileCnt(fileList[t])
  /\ Len(lists[t].dirs) + Len(lists[t].files) + Len(rest) <= Len(fileList[t])
  /\ LandingsOf(t, rest) \subseteq Landings(t)

\* The files that are not owed any more are on the disk, but for one that the
\* handler writes once more.
LandingsIn(t, i, fs) == {Landing(t, i, f) : f \in Range(fs)}
OnDisk(q) == q.place \in DOMAIN disk /\ disk[q.place] = {q.file}
UnderWay(t, q) == rpc[t] \in {"write", "check"} /\ DequeuePath(t) = q.place
Settled(t, owed) ==
  Alone(t) => \A q \in Landings(t) : q \in owed \/ OnDisk(q) \/ UnderWay(t, q)

\* Between two entries, in a single file, between two files of a directory and
\* in one of them, with fs the files that follow.
AtTop(t, rest) ==
  /\ rpc[t] = "top" /\ rdir[t] = NoItem
  /\ Carries(t, ListMessages(rest))
  /\ Settled(t, LandingsOf(t, rest))
InFile(t, rest) ==
  /\ rpc[t] \in {"file", "write", "check"} /\ rdir[t] = NoItem
  /\ rest # <<>> /\ Kind[Head(rest)] = "file" /\ Files[Head(rest)] = <<rfile[t]>>
  /\ Carries(t, Current(t) \o ListMessages(Tail(rest)))
  /\ Settled(t, LandingsOf(t, rest))
AtDir(t, rest, fs) ==
  /\ rpc[t] = "dir"
  /\ rest # <<>> /\ Kind[Head(rest)] = "dir" /\ rdir[t] = Head(rest)
  /\ Range(fs) \subseteq Range(Files[rdir[t]])
  /\ rdirCnt[t] + Len(fs) = Len(Files[rdir[t]])
  /\ Carries(t, DirRest(rdir[t], fs) \o ListMessages(Tail(rest)))
  /\ Settled(t, LandingsIn(t, rdir[t], fs) \cup LandingsOf(t, Tail(rest)))
InDirFile(t, rest, fs) ==
  /\ rpc[t] \in {"file", "write", "check"}
  /\ rest # <<>> /\ Kind[Head(rest)] = "dir" /\ rdir[t] = Head(rest)
  /\ Range(fs) \cup {rfile[t]} \subseteq Range(Files[rdir[t]])
  /\ rdirCnt[t] + 1 + Len(fs) = Len(Files[rdir[t]])
  /\ Carries(t, Current(t) \o (DirRest(rdir[t], fs) \o ListMessages(Tail(rest))))
  /\ Settled(t, {Landing(t, rdir[t], rfile[t])} \cup LandingsIn(t, rdir[t], fs) \cup LandingsOf(t, Tail(rest)))

Begins(t) ==
  /\ rpc[t] = "kanban" /\ rdir[t] = NoItem
  /\ Progress(t, fileList[t])
  /\ Carries(t, <<Msg("kanban", t)>> \o ListMessages(fileList[t]))
Position(t) ==
  \/ rpc[t] \notin Active
  \/ Begins(t)
  \/ \E rest \in Seq(Item) :
       /\ Progress(t, rest)
       /\ \/ AtTop(t, rest)
          \/ InFile(t, rest)
          \/ \E fs \in Seq(File) : AtDir(t, rest, fs) \/ InDirFile(t, rest, fs)

\* The result is there when the handler has left its loop, and what OK means.
Ended(t) ==
  /\ result[t] = "none" <=> rpc[t] \in Active
  /\ result[t] = "ok" =>
       /\ lists[t].dirs = DirPaths(t, fileList[t])
       /\ lists[t].files = FilePaths(t, fileList[t])
       /\ cnt[t] = SentFileCnt(fileList[t])
       /\ Settled(t, {})

\* The client has something to send while it sends, and a break is a fault.
Sending(t) ==
  /\ spc[t] = "sending" <=> todo[t] # <<>>
  /\ broken[t] => fault[t]

Positions == \A t \in Transfer : Position(t) /\ Ended(t) /\ Sending(t)
SendInv == SendTypes /\ DiskTypes /\ Positions

\* What a handler has when nothing stands in its way: the right chunks, an empty
\* file that is its own and then the file.
Good(t) ==
  /\ result[t] # "failed"
  /\ rpc[t] \in {"file", "write", "check"} => rgood[t] /\ rbuf[t] <= ChunkCnt[rfile[t]]
  /\ rpc[t] \in {"write", "check"} => rbuf[t] = ChunkCnt[rfile[t]]
  /\ rpc[t] = "write" => linked[t] /\ FilePath(t) \in DOMAIN disk /\ disk[FilePath(t)] = {}
  /\ rpc[t] = "check" => FilePath(t) \in DOMAIN disk /\ disk[FilePath(t)] = {rfile[t]}
GoesWell(t) == ~fault[t] /\ Alone(t) /\ Flat(t) => Good(t)
WellInv == SendInv /\ \A t \in Transfer : GoesWell(t)
-----------------------------------------------------------------------------
(* Sequences of sequences; FlattenSeq is recursive, so this takes induction *)

\* Every set of natural numbers that is not empty has a least element.
LEMMA Least ==
  ASSUME NEW S \in SUBSET Nat, S # {}
  PROVE  \E n \in S : \A m \in S : n <= m
<1>1. IsWellFoundedOn(OpToRel(<, Nat), Nat)
  BY NatLessThanWellFounded
<1>2. \E x \in S : \A y \in S : ~(<<y, x>> \in OpToRel(<, Nat))
  BY <1>1, WFMin
<1>3. PICK x \in S : \A y \in S : ~(<<y, x>> \in OpToRel(<, Nat))
  BY <1>2
<1>4. \A y \in S : ~(y < x)
  BY <1>3 DEF OpToRel
<1> QED
  BY <1>4

\* A set of natural numbers with 0 and the successor of each is all of them.
LEMMA Induction ==
  ASSUME NEW T \in SUBSET Nat, 0 \in T, \A n \in T : n + 1 \in T
  PROVE  T = Nat
<1> SUFFICES ASSUME Nat \ T # {} PROVE FALSE
  OBVIOUS
<1>1. PICK n \in Nat \ T : \A m \in Nat \ T : n <= m
  BY Least
<1>2. n # 0 /\ n - 1 \in Nat
  BY <1>1
<1>3. n - 1 \in T
  BY <1>1, <1>2
<1>4. (n - 1) + 1 \in T
  BY <1>3
<1> QED
  BY <1>1, <1>2, <1>4

\* Joining two sequences.
LEMMA JoinType ==
  ASSUME NEW S, NEW a \in Seq(S), NEW b \in Seq(S)
  PROVE  a \o b \in Seq(S) /\ Len(a \o b) = Len(a) + Len(b)
  OBVIOUS

\* Joining is associative.
LEMMA JoinAssoc ==
  ASSUME NEW S, NEW a \in Seq(S), NEW b \in Seq(S), NEW c \in Seq(S)
  PROVE  (a \o b) \o c = a \o (b \o c)
  OBVIOUS

\* Appending to the second of two sequences.
LEMMA JoinAppend ==
  ASSUME NEW S, NEW a \in Seq(S), NEW b \in Seq(S), NEW x \in S
  PROVE  /\ Append(a, x) \in Seq(S)
         /\ a \o Append(b, x) \in Seq(S)
         /\ Append(a \o b, x) = a \o Append(b, x)
  OBVIOUS

\* A sequence of one element.
LEMMA OneElement ==
  ASSUME NEW S, NEW l \in Seq(S), Len(l) = 1
  PROVE  l[1] \in S /\ l = <<l[1]>> /\ l # <<>> /\ Head(l) = l[1] /\ Tail(l) = <<>>
<1>1. l[1] \in S /\ l # <<>> /\ Head(l) = l[1]
  OBVIOUS
<1>2. Tail(l) \in Seq(S) /\ Len(Tail(l)) = 0
  BY <1>1
<1>3. l = <<l[1]>>
  <2> DEFINE k == <<l[1]>>
  <2>1. Len(k) = 1 /\ k \in Seq(S) /\ k[1] = l[1]
    BY <1>1
  <2> HIDE DEF k
  <2>2. \A j \in 1..Len(l) : l[j] = k[j]
    BY <2>1
  <2>3. l = k
    BY <2>1, <2>2
  <2> QED BY <2>3 DEF k
<1>4. Tail(l) = <<>>
  <2> DEFINE k == Tail(l)
  <2>1. k \in Seq(S) /\ Len(k) = 0
    BY <1>2
  <2> HIDE DEF k
  <2>2. k = <<>>
    BY <2>1
  <2> QED BY <2>2 DEF k
<1> QED BY ONLY <1>1, <1>3, <1>4

\* The function that FlattenSeq is defined by.
Flatten(ss, n) ==
  CHOOSE f : f = [i \in 1..n |-> IF i = 1 THEN ss[i] ELSE f[i - 1] \o ss[i]]

\* There is such a function, so its recursion holds.
LEMMA FlattenExists ==
  ASSUME NEW ss, NEW n \in Nat
  PROVE  \A i \in 1..n : Flatten(ss, n)[i] = IF i = 1 THEN ss[i] ELSE Flatten(ss, n)[i - 1] \o ss[i]
<1> DEFINE Is(f, k) == f = [i \in 1..k |-> IF i = 1 THEN ss[i] ELSE f[i - 1] \o ss[i]]
           T == {k \in Nat : \E f : Is(f, k)}
<1>1. 0 \in T
  <2>1. Is([i \in 1..0 |-> 0], 0)
    OBVIOUS
  <2> QED BY <2>1
<1>2. ASSUME NEW k \in T PROVE k + 1 \in T
  <2>1. PICK f : Is(f, k)
    BY <1>2
  <2>k. k \in Nat
    OBVIOUS
  <2> DEFINE H(i) == IF i <= k THEN f[i] ELSE IF i = 1 THEN ss[i] ELSE f[i - 1] \o ss[i]
             h == [i \in 1..(k + 1) |-> H(i)]
  <2>2. ASSUME NEW i \in 1..(k + 1)
        PROVE  H(i) = IF i = 1 THEN ss[i] ELSE h[i - 1] \o ss[i]
    <3>1. \A j \in 1..k : f[j] = IF j = 1 THEN ss[j] ELSE f[j - 1] \o ss[j]
      BY <2>1
    <3>2. CASE i = 1
      BY <3>1, <3>2, <2>k
    <3>3. CASE i # 1
      <4>1. i - 1 \in 1..(k + 1) /\ i - 1 <= k
        BY <3>3, <2>k
      <4>2. h[i - 1] = f[i - 1]
        BY <4>1
      <4>3. H(i) = f[i - 1] \o ss[i]
        <5>1. CASE i <= k
          <6>1. i \in 1..k
            BY <5>1, <2>k
          <6>2. f[i] = f[i - 1] \o ss[i]
            BY <3>1, <3>3, <6>1
          <6> QED BY <6>2, <5>1
        <5>2. CASE ~(i <= k)
          BY <5>2, <3>3
        <5> QED BY <5>1, <5>2
      <4> QED BY <4>2, <4>3, <3>3
    <3> QED BY <3>2, <3>3
  <2>3. h = [i \in 1..(k + 1) |-> IF i = 1 THEN ss[i] ELSE h[i - 1] \o ss[i]]
    <3> HIDE DEF H
    <3> DEFINE g == [i \in 1..(k + 1) |-> IF i = 1 THEN ss[i] ELSE h[i - 1] \o ss[i]]
    <3>1. \A i \in 1..(k + 1) : h[i] = H(i)
      OBVIOUS
    <3>2. DOMAIN h = 1..(k + 1) /\ h = [i \in 1..(k + 1) |-> h[i]]
      BY <3>1
    <3>3. \A i \in 1..(k + 1) : h[i] = IF i = 1 THEN ss[i] ELSE h[i - 1] \o ss[i]
      BY <3>1, <2>2
    <3> HIDE DEF h
    <3> QED BY <3>2, <3>3
  <2> HIDE DEF h
  <2>4. \E g : Is(g, k + 1)
    BY <2>3
  <2>5. k + 1 \in Nat
    BY <2>k
  <2> HIDE DEF Is
  <2> QED BY <2>4, <2>5
<1>3. T = Nat
  <2> HIDE DEF T
  <2>1. T \in SUBSET Nat
    BY DEF T
  <2> QED BY <1>1, <1>2, <2>1, Induction
<1>4. \E f : Is(f, n)
  BY <1>3
<1>5. Is(Flatten(ss, n), n)
  BY <1>4 DEF Flatten
<1> QED
  BY <1>5

\* FlattenSeq is its last value.
LEMMA FlattenIs ==
  ASSUME NEW ss, Len(ss) # 0
  PROVE  FlattenSeq(ss) = Flatten(ss, Len(ss))[Len(ss)]
  BY DEF FlattenSeq, Flatten

\* Nothing is flattened to nothing.
LEMMA FlattenEmpty == FlattenSeq(<<>>) = <<>>
  BY DEF FlattenSeq

\* Sequences over S are flattened to a sequence over S.
LEMMA FlattenType ==
  ASSUME NEW S, NEW ss \in Seq(Seq(S))
  PROVE  FlattenSeq(ss) \in Seq(S)
<1>1. CASE ss = <<>>
  <2>1. FlattenSeq(ss) = <<>>
    BY <1>1, FlattenEmpty
  <2> QED BY <2>1
<1>2. CASE ss # <<>>
  <2> DEFINE n == Len(ss)
             f == Flatten(ss, n)
             T == {k \in Nat : k \in 1..n => f[k] \in Seq(S)}
  <2>0. n \in Nat /\ n # 0 /\ n \in 1..n /\ \A i \in 1..n : ss[i] \in Seq(S)
    BY <1>2
  <2>1. \A i \in 1..n : f[i] = IF i = 1 THEN ss[i] ELSE f[i - 1] \o ss[i]
    BY <2>0, FlattenExists
  <2>i. FlattenSeq(ss) = f[n]
    BY <2>0, FlattenIs
  <2> HIDE DEF f, n
  <2>2. 0 \in T
    OBVIOUS
  <2>3. ASSUME NEW k \in T PROVE k + 1 \in T
    <3>1. CASE k + 1 \notin 1..n
      BY <3>1
    <3>2. CASE k + 1 \in 1..n
      <4>1. ss[k + 1] \in Seq(S)
        BY <3>2, <2>0
      <4>2. f[k + 1] = IF k + 1 = 1 THEN ss[k + 1] ELSE f[k] \o ss[k + 1]
        <5>1. (k + 1) - 1 = k
          OBVIOUS
        <5> QED BY <2>1, <3>2, <5>1
      <4>3. CASE k = 0
        BY <4>1, <4>2, <4>3
      <4>4. CASE k # 0
        <5>1. f[k] \in Seq(S)
          BY <2>3, <3>2, <4>4, <2>0
        <5>2. f[k + 1] = f[k] \o ss[k + 1]
          <6>1. k + 1 # 1
            BY <4>4
          <6> QED BY <4>2, <6>1
        <5>3. f[k + 1] \in Seq(S)
          BY <4>1, <5>1, <5>2
        <5> QED BY <5>3
      <4> QED BY <4>3, <4>4
    <3> QED BY <3>1, <3>2
  <2>4. T = Nat
    <3> HIDE DEF T
    <3>1. T \in SUBSET Nat
      BY DEF T
    <3> QED BY <2>2, <2>3, <3>1, Induction
  <2>6. f[n] \in Seq(S)
    BY <2>4, <2>0
  <2> QED BY <2>6, <2>i
<1> QED BY <1>1, <1>2

\* The first of the sequences comes first.
LEMMA FlattenCons ==
  ASSUME NEW S, NEW x \in Seq(S), NEW ss \in Seq(Seq(S)), NEW xs \in Seq(Seq(S)),
         xs # <<>>, x = Head(xs), ss = Tail(xs)
  PROVE  FlattenSeq(xs) = x \o FlattenSeq(ss)
<1> DEFINE n == Len(xs)
           f == Flatten(xs, n)
           g == Flatten(ss, n - 1)
<1>0. /\ n \in Nat /\ n # 0 /\ n - 1 \in Nat /\ Len(ss) = n - 1
      /\ xs[1] = x
      /\ \A i \in 1..(n - 1) : xs[i + 1] = ss[i] /\ ss[i] \in Seq(S)
  OBVIOUS
<1>1. \A i \in 1..n : f[i] = IF i = 1 THEN xs[i] ELSE f[i - 1] \o xs[i]
  BY <1>0, FlattenExists
<1>2. \A i \in 1..(n - 1) : g[i] = IF i = 1 THEN ss[i] ELSE g[i - 1] \o ss[i]
  BY <1>0, FlattenExists
<1>3. FlattenSeq(xs) = f[n]
  BY <1>0, FlattenIs
<1>9. n # 1 => FlattenSeq(ss) = g[n - 1]
  <2>1. n # 1 => Len(ss) # 0
    BY <1>0
  <2> QED BY <1>0, <2>1, FlattenIs
<1> HIDE DEF f, g, n
<1>4. CASE n = 1
  <2>1. f[1] = x
    BY <1>0, <1>1, <1>4
  <2>2. ss = <<>>
    BY <1>0, <1>4
  <2>3. FlattenSeq(ss) = <<>>
    BY <2>2, FlattenEmpty
  <2>4. x = x \o <<>>
    OBVIOUS
  <2> QED BY <1>3, <1>4, <2>1, <2>3, <2>4
<1>5. CASE n # 1
  <2> DEFINE T == {k \in Nat : k \in 1..(n - 1) => g[k] \in Seq(S) /\ f[k + 1] = x \o g[k]}
  <2>1. 0 \in T
    OBVIOUS
  <2>2. ASSUME NEW k \in T PROVE k + 1 \in T
    <3>1. CASE k + 1 \notin 1..(n - 1)
      <4>1. k + 1 \in Nat
        OBVIOUS
      <4> QED BY <3>1, <4>1
    <3>2. CASE k + 1 \in 1..(n - 1)
      <4>0. k \in Nat /\ k + 1 \in 1..n /\ k + 2 \in 1..n /\ (k + 1) + 1 = k + 2 /\ k + 2 # 1
        BY <3>2, <1>0
      <4>1. ss[k + 1] \in Seq(S) /\ xs[k + 2] = ss[k + 1]
        BY <3>2, <1>0, <4>0
      <4>2. f[k + 2] = f[(k + 2) - 1] \o xs[k + 2]
        BY <1>1, <4>0
      <4>p. (k + 2) - 1 = k + 1 /\ (k + 1) - 1 = k
        BY <4>0
      <4>3. g[k + 1] = IF k + 1 = 1 THEN ss[k + 1] ELSE g[k] \o ss[k + 1]
        BY <1>2, <3>2, <4>p
      <4>4. CASE k = 0
        <5>1. f[1] = x
          BY <1>0, <1>1
        <5>0. k + 1 = 1 /\ k + 2 = 2
          BY <4>4
        <5>2. g[1] = ss[1]
          BY <4>3, <5>0
        <5>3. f[2] = x \o ss[1]
          BY <4>1, <4>2, <4>p, <5>0, <5>1
        <5>4. ss[1] \in Seq(S)
          BY <4>1, <5>0
        <5>5. (k + 1) + 1 = 2 /\ k + 1 = 1
          BY <4>4
        <5>6. g[k + 1] \in Seq(S) /\ f[(k + 1) + 1] = x \o g[k + 1]
          BY <5>2, <5>3, <5>4, <5>5
        <5>7. k + 1 \in Nat
          BY <4>0
        <5> HIDE DEF T
        <5> QED BY <5>6, <5>7 DEF T
      <4>5. CASE k # 0
        <5>1. g[k] \in Seq(S) /\ f[k + 1] = x \o g[k]
          BY <2>2, <3>2, <4>5, <4>0, <1>0
        <5>2. g[k + 1] = g[k] \o ss[k + 1]
          <6>1. k + 1 # 1
            BY <4>0, <4>5
          <6> QED BY <4>3, <6>1
        <5>3. f[k + 2] = (x \o g[k]) \o ss[k + 1]
          BY <4>1, <4>2, <4>p, <5>1
        <5>4. (x \o g[k]) \o ss[k + 1] = x \o (g[k] \o ss[k + 1])
          <6> DEFINE b == g[k]
                     c == ss[k + 1]
          <6>1. x \in Seq(S) /\ b \in Seq(S) /\ c \in Seq(S)
            BY <4>1, <5>1
          <6> HIDE DEF b, c, T
          <6>2. (x \o b) \o c = x \o (b \o c)
            BY ONLY <6>1, JoinAssoc
          <6> QED BY <6>2 DEF b, c
        <5>5. g[k + 1] \in Seq(S)
          BY ONLY <4>1, <5>1, <5>2
        <5>6. f[(k + 1) + 1] = x \o g[k + 1]
          BY <4>0, <5>2, <5>3, <5>4
        <5>7. k + 1 \in Nat
          BY <4>0
        <5> HIDE DEF T
        <5> QED BY <5>5, <5>6, <5>7 DEF T
      <4> QED BY <4>4, <4>5
    <3> QED BY <3>1, <3>2
  <2>3. T = Nat
    <3> HIDE DEF T
    <3>1. T \in SUBSET Nat
      BY DEF T
    <3> QED BY <2>1, <2>2, <3>1, Induction
  <2>4. n - 1 \in 1..(n - 1) /\ (n - 1) + 1 = n
    BY <1>0, <1>5
  <2>5. f[n] = x \o g[n - 1]
    BY <2>3, <2>4, <1>0
  <2>6. FlattenSeq(ss) = g[n - 1]
    BY <1>5, <1>9
  <2> QED BY <1>3, <2>5, <2>6
<1> QED BY <1>4, <1>5

\* What a function gives for the elements of a list, one after the other.
FlatMap(g, l) == FlattenSeq([n \in 1..Len(l) |-> g[l[n]]])

\* It begins with what it gives for the first.
LEMMA FlattenMap ==
  ASSUME NEW S, NEW D, NEW g \in [D -> Seq(S)], NEW l \in Seq(D)
  PROVE  /\ FlatMap(g, l) \in Seq(S)
         /\ l = <<>> => FlatMap(g, l) = <<>>
         /\ l # <<>> => FlatMap(g, l) = g[Head(l)] \o FlatMap(g, Tail(l))
<1> DEFINE xs == [n \in 1..Len(l) |-> g[l[n]]]
           ts == [n \in 1..Len(Tail(l)) |-> g[Tail(l)[n]]]
<1>1. xs \in Seq(Seq(S)) /\ Len(xs) = Len(l)
  OBVIOUS
<1>2. FlattenSeq(xs) \in Seq(S)
  <2> HIDE DEF xs
  <2> QED BY <1>1, FlattenType
<1>3. ASSUME l = <<>> PROVE FlattenSeq(xs) = <<>>
  <2>1. xs = <<>>
    BY <1>3, <1>1
  <2> QED BY <2>1, FlattenEmpty
<1>4. ASSUME l # <<>> PROVE FlattenSeq(xs) = g[Head(l)] \o FlattenSeq(ts)
  <2>1. Tail(l) \in Seq(D) /\ Head(l) \in D
    BY <1>4
  <2>2. ts \in Seq(Seq(S)) /\ Len(ts) = Len(Tail(l))
    BY <2>1
  <2>3. xs # <<>> /\ Head(xs) = g[Head(l)] /\ g[Head(l)] \in Seq(S)
    <3>1. Len(l) # 0 /\ 1 \in 1..Len(l)
      BY <1>4
    <3>2. xs # <<>> /\ Head(xs) = xs[1]
      BY <1>1, <3>1
    <3>3. xs[1] = g[l[1]] /\ l[1] = Head(l)
      BY <3>1
    <3>4. g[Head(l)] \in Seq(S)
      BY <2>1
    <3> QED BY <3>2, <3>3, <3>4
  <2>4. Tail(xs) = ts
    <3>1. Len(Tail(xs)) = Len(ts) /\ Tail(xs) \in Seq(Seq(S))
      <4>1. Len(Tail(l)) = Len(l) - 1
        BY <1>4
      <4> DEFINE T == Seq(S)
      <4>2. xs \in Seq(T) /\ xs # <<>> /\ Len(xs) = Len(l)
        BY <1>1, <2>3
      <4> HIDE DEF xs, T
      <4>3. Tail(xs) \in Seq(T) /\ Len(Tail(xs)) = Len(xs) - 1
        BY ONLY <4>2
      <4> QED BY ONLY <2>2, <4>1, <4>2, <4>3 DEF T
    <3>2. ASSUME NEW k \in 1..Len(ts) PROVE Tail(xs)[k] = ts[k]
      <4>1. k + 1 \in 1..Len(l) /\ k \in 1..Len(Tail(l)) /\ Tail(l)[k] = l[k + 1]
        BY <1>4, <2>2
      <4>2. Tail(xs)[k] = xs[k + 1]
        BY <4>1, <1>1, <2>3
      <4> QED BY <4>1, <4>2
    <3> QED BY <3>1, <3>2, <2>2
  <2> DEFINE x == g[Head(l)]
  <2>5. x = Head(xs) /\ x \in Seq(S)
    BY <2>3
  <2> HIDE DEF xs, ts, x
  <2>6. FlattenSeq(xs) = x \o FlattenSeq(ts)
    BY <1>1, <2>2, <2>3, <2>4, <2>5, FlattenCons
  <2> QED BY <2>6 DEF x
<1>5. FlatMap(g, l) = FlattenSeq(xs) /\ FlatMap(g, Tail(l)) = FlattenSeq(ts)
  BY DEF FlatMap
<1> HIDE DEF xs, ts
<1> QED BY <1>2, <1>3, <1>4, <1>5

-----------------------------------------------------------------------------
(* What the client sends *)

\* Every message has its type.
LEMMA MsgType ==
  ASSUME NEW c \in Codes, NEW a \in Transfer \cup Item \cup File \cup Int
  PROVE  Msg(c, a) \in Message /\ Msg(c, a).code = c /\ Msg(c, a).arg = a
  BY DEF Msg, Message

\* One message and then others.
LEMMA OneMore ==
  ASSUME NEW S, NEW h \in S, NEW X \in Seq(S)
  PROVE  /\ <<h>> \o X \in Seq(S)
         /\ <<h>> \o X # <<>>
         /\ Len(<<h>> \o X) = Len(X) + 1
         /\ Head(<<h>> \o X) = h /\ Tail(<<h>> \o X) = X
         /\ <<>> \o X = X /\ X \o <<>> = X
  OBVIOUS

\* The rest of a file is its next chunk, or its end when there is none.
LEMMA FileRestFacts ==
  ASSUME NEW f \in File, NEW k \in Nat
  PROVE  /\ FileRest(f, k) \in Seq(Message)
         /\ k < ChunkCnt[f] => FileRest(f, k) = <<Msg("cont", k)>> \o FileRest(f, k + 1)
         /\ ~(k < ChunkCnt[f]) => FileRest(f, k) = <<Msg("eof", f)>>
<1> DEFINE n == ChunkCnt[f]
           cs == [j \in 1..(n - k) |-> Msg("cont", k + j - 1)]
           ds == [j \in 1..(n - (k + 1)) |-> Msg("cont", (k + 1) + j - 1)]
           e == Msg("eof", f)
<1>0. n \in Nat
  BY ListAssumption
<1>1. e \in Message
  BY MsgType DEF Codes
<1>2. \A j \in Nat : Msg("cont", j) \in Message
  BY MsgType DEF Codes
<1>3. \A j \in 1..(n - k) : k + j - 1 \in Nat
  BY <1>0
<1>4. \A j \in 1..(n - k) : cs[j] = Msg("cont", k + j - 1) /\ cs[j] \in Message
  BY <1>2, <1>3
<1>5. ~(k < n) => cs = <<>> /\ n - k <= 0
  BY <1>0
<1>6. k < n => n - k \in Nat /\ n - (k + 1) \in Nat /\ n - k = (n - (k + 1)) + 1
  BY <1>0
<1>7. k < n => cs \in Seq(Message) /\ Len(cs) = n - k
  <2> SUFFICES ASSUME k < n PROVE cs \in Seq(Message) /\ Len(cs) = n - k
    OBVIOUS
  <2>1. n - k \in Nat
    BY <1>6
  <2>2. cs \in [1..(n - k) -> Message]
    BY <1>4
  <2> HIDE DEF cs
  <2> QED BY <2>1, <2>2
<1>8. \A j \in 1..(n - (k + 1)) : (k + 1) + j - 1 \in Nat
  BY <1>0
<1>9. k < n => ds \in Seq(Message) /\ Len(ds) = n - (k + 1)
  <2> SUFFICES ASSUME k < n PROVE ds \in Seq(Message) /\ Len(ds) = n - (k + 1)
    OBVIOUS
  <2>1. n - (k + 1) \in Nat
    BY <1>6
  <2>2. ds \in [1..(n - (k + 1)) -> Message]
    BY <1>2, <1>8
  <2> HIDE DEF ds
  <2> QED BY <2>1, <2>2
<1>10. k < n => cs = <<Msg("cont", k)>> \o ds
  <2> SUFFICES ASSUME k < n PROVE cs = <<Msg("cont", k)>> \o ds
    OBVIOUS
  <2> DEFINE h == Msg("cont", k)
             xs == <<h>> \o ds
  <2>1. h \in Message
    BY <1>2
  <2>2. \A j \in 1..(n - (k + 1)) : ds[j] = Msg("cont", (k + 1) + j - 1)
    OBVIOUS
  <2>4. cs[1] = h
    <3>1. 1 \in 1..(n - k) /\ k + 1 - 1 = k
      BY <1>0
    <3>2. cs[1] = Msg("cont", k + 1 - 1)
      BY <1>4, <3>1
    <3> QED BY <3>1, <3>2
  <2> HIDE DEF h
  <2>3. xs \in Seq(Message) /\ Len(xs) = n - k /\ xs[1] = h /\ \A j \in 1..(n - (k + 1)) : xs[j + 1] = ds[j]
    <3> HIDE DEF ds
    <3> QED BY <1>0, <1>6, <1>9, <2>1
  <2>5. ASSUME NEW j \in 1..(n - k), j # 1 PROVE cs[j] = xs[j]
    <3> DEFINE i == j - 1
    <3>1. i \in 1..(n - (k + 1)) /\ i + 1 = j /\ (k + 1) + i - 1 = k + j - 1
      BY <1>0, <2>5
    <3>2. xs[j] = ds[i]
      <4> HIDE DEF xs, ds, i
      <4> QED BY <2>3, <3>1
    <3>3. ds[i] = Msg("cont", k + j - 1)
      <4> HIDE DEF ds, i
      <4> QED BY <2>2, <3>1
    <3>4. cs[j] = Msg("cont", k + j - 1)
      BY <1>4
    <3> QED BY <3>2, <3>3, <3>4
  <2>6. \A j \in 1..(n - k) : cs[j] = xs[j]
    BY <2>3, <2>4, <2>5
  <2> HIDE DEF cs, xs, ds, n
  <2>7. cs = xs
    BY <1>7, <2>3, <2>6
  <2> QED BY <2>7 DEF xs, h
<1> HIDE DEF e, cs, ds
<1>11. FileRest(f, k) = cs \o <<e>>
  BY DEF FileRest, cs, e
<1>12. FileRest(f, k + 1) = ds \o <<e>>
  BY DEF FileRest, ds, e
<1>13. CASE k < n
  <2> DEFINE h == Msg("cont", k)
  <2>1. h \in Message
    BY <1>2
  <2> HIDE DEF h, n
  <2>2. (<<h>> \o ds) \o <<e>> = <<h>> \o (ds \o <<e>>)
    BY <1>1, <1>9, <1>13, <2>1
  <2>3. cs \o <<e>> \in Seq(Message)
    BY <1>1, <1>7, <1>13
  <2> QED BY <1>10, <1>11, <1>12, <1>13, <2>2, <2>3 DEF h, n
<1>14. CASE ~(k < n)
  <2>1. FileRest(f, k) = <<e>>
    <3>1. cs = <<>> /\ FileRest(f, k) = cs \o <<e>>
      BY <1>5, <1>11, <1>14
    <3>2. <<e>> \in Seq(Message) /\ <<>> \o <<e>> = <<e>>
      BY <1>1
    <3> QED BY ONLY <3>1, <3>2
  <2> QED BY <1>1, <1>14, <2>1 DEF e
<1> QED BY <1>13, <1>14

\* A file is its info and the rest of it.
LEMMA FileFacts ==
  ASSUME NEW f \in File
  PROVE  FileMessages(f) \in Seq(Message) /\ FileMessages(f) = <<Msg("fileInfo", f)>> \o FileRest(f, 0)
<1> DEFINE n == ChunkCnt[f]
           cs == [j \in 1..n |-> Msg("cont", j - 1)]
           ds == [j \in 1..(n - 0) |-> Msg("cont", 0 + j - 1)]
           h == Msg("fileInfo", f)
           e == Msg("eof", f)
<1>0. n \in Nat
  BY ListAssumption
<1>1. h \in Message /\ e \in Message
  BY MsgType DEF Codes
<1>2. \A j \in 1..n : j - 1 \in Nat /\ j - 1 = 0 + j - 1
  BY <1>0
<1>3. \A j \in 1..n : Msg("cont", j - 1) \in Message
  BY <1>2, MsgType DEF Codes
<1>4. cs \in Seq(Message)
  <2>1. cs \in [1..n -> Message]
    BY <1>3
  <2> HIDE DEF cs
  <2> QED BY <1>0, <2>1
<1>5. cs = ds
  <2>1. n - 0 = n
    BY <1>0
  <2> QED BY <1>2, <2>1
<1> HIDE DEF cs, ds, h, e
<1>6. FileMessages(f) = <<h>> \o cs \o <<e>>
  BY DEF FileMessages, h, cs, e
<1>7. FileRest(f, 0) = ds \o <<e>>
  BY DEF FileRest, ds, e
<1>8. <<h>> \o cs \o <<e>> = <<h>> \o (cs \o <<e>>) /\ <<h>> \o cs \o <<e>> \in Seq(Message)
  BY <1>1, <1>4
<1> QED BY <1>5, <1>6, <1>7, <1>8 DEF h

\* Files come one after the other.
LEMMA FilesFacts ==
  ASSUME NEW fs \in Seq(File)
  PROVE  /\ MessagesOf(fs) \in Seq(Message)
         /\ fs = <<>> => MessagesOf(fs) = <<>>
         /\ fs # <<>> => MessagesOf(fs) = FileMessages(Head(fs)) \o MessagesOf(Tail(fs))
<1> DEFINE g == [f \in File |-> FileMessages(f)]
           M(l) == FlatMap(g, l)
<1>1. g \in [File -> Seq(Message)]
  BY FileFacts
<1>2. ASSUME NEW l \in Seq(File) PROVE MessagesOf(l) = M(l)
  <2>1. \A n \in 1..Len(l) : FileMessages(l[n]) = g[l[n]]
    OBVIOUS
  <2> HIDE DEF g
  <2> QED BY <2>1 DEF MessagesOf, FlatMap
<1>3. fs # <<>> => Head(fs) \in File /\ Tail(fs) \in Seq(File) /\ g[Head(fs)] = FileMessages(Head(fs))
  OBVIOUS
<1> HIDE DEF g
<1>4. /\ M(fs) \in Seq(Message)
      /\ fs = <<>> => M(fs) = <<>>
      /\ fs # <<>> => M(fs) = g[Head(fs)] \o M(Tail(fs))
  BY <1>1, FlattenMap
<1> HIDE DEF M
<1> QED BY <1>2, <1>3, <1>4

\* The messages of an entry of each kind.
LEMMA ItemFacts ==
  ASSUME NEW i \in Item
  PROVE  /\ ItemMessages(i) \in Seq(Message)
         /\ Kind[i] = "special" => ItemMessages(i) = <<>> /\ Files[i] = <<>>
         /\ Kind[i] = "dir" => ItemMessages(i) = <<Msg("dirInfo", i)>> \o DirRest(i, Files[i])
         /\ Kind[i] = "file" => /\ Files[i][1] \in File /\ Files[i] = <<Files[i][1]>>
                                /\ ItemMessages(i) = FileMessages(Files[i][1])
<1> DEFINE M == MessagesOf(Files[i])
           h == Msg("dirInfo", i)
           e == Msg("endDir", i)
<1>1. Files[i] \in Seq(File) /\ Kind[i] \in {"file", "dir", "special"}
  BY ListAssumption
<1>2. M \in Seq(Message)
  BY <1>1, FilesFacts
<1>3. h \in Message /\ e \in Message
  BY MsgType DEF Codes
<1>4. CASE Kind[i] = "special"
  <2>1. ItemMessages(i) = <<>> /\ Files[i] = <<>>
    BY <1>4, ListAssumption DEF ItemMessages
  <2> QED BY <1>4, <2>1
<1>5. CASE Kind[i] = "dir"
  <2>1. ItemMessages(i) = <<h>> \o M \o <<e>>
    BY <1>5 DEF ItemMessages
  <2> HIDE DEF h, e, M
  <2>2. <<h>> \o M \o <<e>> \in Seq(Message) /\ <<h>> \o M \o <<e>> = <<h>> \o (M \o <<e>>)
    BY <1>2, <1>3
  <2> QED BY <1>5, <2>1, <2>2 DEF DirRest, h, e, M
<1>6. CASE Kind[i] = "file"
  <2> DEFINE f == Files[i][1]
  <2>1. Len(Files[i]) = 1
    BY <1>6, ListAssumption
  <2>2. f \in File /\ Files[i] = <<f>> /\ Files[i] # <<>> /\ Head(Files[i]) = f /\ Tail(Files[i]) = <<>>
    <3> DEFINE l == Files[i]
    <3>1. l \in Seq(File) /\ Len(l) = 1
      BY <1>1, <2>1
    <3> HIDE DEF l
    <3>2. l[1] \in File /\ l = <<l[1]>> /\ l # <<>> /\ Head(l) = l[1] /\ Tail(l) = <<>>
      BY <3>1, OneElement
    <3> QED BY <3>2 DEF l
  <2>3. M = FileMessages(f) \o MessagesOf(<<>>)
    BY <1>1, <2>2, FilesFacts
  <2>4. MessagesOf(<<>>) = <<>>
    <3>1. <<>> \in Seq(File)
      OBVIOUS
    <3> QED BY <3>1, FilesFacts
  <2>5. FileMessages(f) \in Seq(Message) /\ FileMessages(f) \o <<>> = FileMessages(f)
    <3> DEFINE X == FileMessages(f)
    <3>1. X \in Seq(Message)
      BY <2>2, FileFacts
    <3> HIDE DEF X
    <3>2. X \o <<>> = X
      BY <3>1
    <3> QED BY <3>1, <3>2 DEF X
  <2>6. ItemMessages(i) = M
    BY <1>6 DEF ItemMessages
  <2> HIDE DEF M, f
  <2>7. M = FileMessages(f)
    BY <2>3, <2>4, <2>5
  <2> QED BY <1>2, <1>6, <2>2, <2>6, <2>7 DEF f
<1> QED BY <1>1, <1>4, <1>5, <1>6

\* Entries come one after the other.
LEMMA ListFacts ==
  ASSUME NEW l \in Seq(Item)
  PROVE  /\ ListMessages(l) \in Seq(Message)
         /\ l = <<>> => ListMessages(l) = <<>>
         /\ l # <<>> => ListMessages(l) = ItemMessages(Head(l)) \o ListMessages(Tail(l))
<1> DEFINE g == [i \in Item |-> ItemMessages(i)]
           M(k) == FlatMap(g, k)
<1>1. g \in [Item -> Seq(Message)]
  BY ItemFacts
<1>2. ASSUME NEW k \in Seq(Item) PROVE ListMessages(k) = M(k)
  <2>1. \A n \in 1..Len(k) : ItemMessages(k[n]) = g[k[n]]
    OBVIOUS
  <2> HIDE DEF g
  <2> QED BY <2>1 DEF ListMessages, FlatMap
<1>3. l # <<>> => Head(l) \in Item /\ Tail(l) \in Seq(Item) /\ g[Head(l)] = ItemMessages(Head(l))
  OBVIOUS
<1> HIDE DEF g
<1>4. /\ M(l) \in Seq(Message)
      /\ l = <<>> => M(l) = <<>>
      /\ l # <<>> => M(l) = g[Head(l)] \o M(Tail(l))
  BY <1>1, FlattenMap
<1> HIDE DEF M
<1> QED BY <1>2, <1>3, <1>4

-----------------------------------------------------------------------------
(* What the handler lists and counts *)

\* Every entry adds its files to the count.
LEMMA CountFacts ==
  ASSUME NEW l \in Seq(Item)
  PROVE  /\ SentFileCnt(l) \in Nat
         /\ l = <<>> => SentFileCnt(l) = 0
         /\ l # <<>> => SentFileCnt(l) = Len(Files[Head(l)]) + SentFileCnt(Tail(l))
<1> DEFINE M(k) == FlatMap(Files, k)
<1>1. Files \in [Item -> Seq(File)]
  BY ListAssumption
<1>2. \A k : SentFileCnt(k) = Len(M(k))
  BY DEF SentFileCnt, FlatMap
<1>3. l # <<>> => Head(l) \in Item /\ Tail(l) \in Seq(Item) /\ Files[Head(l)] \in Seq(File)
  BY <1>1
<1>4. /\ M(l) \in Seq(File)
      /\ l = <<>> => M(l) = <<>>
      /\ l # <<>> => M(l) = Files[Head(l)] \o M(Tail(l))
  BY <1>1, FlattenMap
<1>5. l # <<>> => M(Tail(l)) \in Seq(File)
  BY <1>1, <1>3, FlattenMap
<1> HIDE DEF M
<1>6. l # <<>> => Len(M(l)) = Len(Files[Head(l)]) + Len(M(Tail(l)))
  BY <1>3, <1>4, <1>5
<1> QED BY <1>2, <1>4, <1>6

\* The directory of an entry is a path.
LEMMA BaseType ==
  ASSUME NEW t \in Transfer, NEW i \in Item
  PROVE  Base(t, i) \in Path
<1> DEFINE a == MsDataPath[t]
           x == DirName[i]
<1>1. a \in Path /\ x \in STRING
  BY PathAssumption DEF Path
<1> HIDE DEF a, x
<1>2. Append(a, x) \in Path
  BY <1>1, JoinAppend DEF Path
<1> QED BY <1>1, <1>2 DEF Base, a, x

\* A path of a directory or of a file.
LEMMA PlaceFacts ==
  ASSUME NEW t \in Transfer, NEW i \in Item, NEW f \in File
  PROVE  /\ Base(t, i) \in Path /\ Place(t, i, f) \in Path
         /\ Append(Base(t, i) \o RelDir[f], Name[f]) = Place(t, i, f)
<1>1. MsDataPath[t] \in Path /\ DirName[i] \in STRING /\ RelDir[f] \in Path /\ Name[f] \in STRING
  BY PathAssumption DEF Path
<1>2. Base(t, i) \in Path
  BY BaseType
<1> DEFINE b == Base(t, i)
           r == RelDir[f]
           n == Name[f]
<1>3. b \in Path /\ r \in Path /\ n \in STRING
  BY <1>1, <1>2
<1> HIDE DEF b, r, n
<1>4. b \o Append(r, n) \in Path
  BY <1>3, JoinAppend DEF Path
<1>5. Append(b \o r, n) = b \o Append(r, n)
  <2> DEFINE S == STRING
  <2>1. b \in Seq(S) /\ r \in Seq(S) /\ n \in S
    BY <1>3 DEF Path
  <2> HIDE DEF S
  <2> QED BY ONLY <2>1
<1> QED BY <1>2, <1>4, <1>5 DEF Place, b, r, n

\* Every directory adds its path to the directories.
LEMMA DirPathsFacts ==
  ASSUME NEW t \in Transfer, NEW l \in Seq(Item)
  PROVE  /\ DirPaths(t, l) \in Seq(Path)
         /\ l = <<>> => DirPaths(t, l) = <<>>
         /\ l # <<>> => /\ Kind[Head(l)] = "dir" => DirPaths(t, l) = <<Base(t, Head(l))>> \o DirPaths(t, Tail(l))
                        /\ Kind[Head(l)] # "dir" => DirPaths(t, l) = DirPaths(t, Tail(l))
<1> DEFINE P(i) == IF Kind[i] = "dir" THEN <<Base(t, i)>> ELSE <<>>
           g == [i \in Item |-> P(i)]
           M(k) == FlatMap(g, k)
<1>1. g \in [Item -> Seq(Path)]
  <2>1. ASSUME NEW i \in Item PROVE P(i) \in Seq(Path)
    <3>1. Base(t, i) \in Path
      BY BaseType
    <3> QED BY <3>1
  <2> HIDE DEF P
  <2> QED BY <2>1
<1>2. ASSUME NEW k \in Seq(Item) PROVE DirPaths(t, k) = M(k)
  <2>1. \A n \in 1..Len(k) : P(k[n]) = g[k[n]]
    <3> HIDE DEF P
    <3> QED OBVIOUS
  <2>2. DirPaths(t, k) = FlattenSeq([n \in 1..Len(k) |-> P(k[n])])
    BY DEF DirPaths
  <2> HIDE DEF g, P
  <2> QED BY <2>1, <2>2 DEF FlatMap
<1>3. l # <<>> => Head(l) \in Item /\ Tail(l) \in Seq(Item) /\ g[Head(l)] = P(Head(l))
  <2> HIDE DEF P
  <2> QED OBVIOUS
<1> HIDE DEF g, P
<1>4. /\ M(l) \in Seq(Path)
      /\ l = <<>> => M(l) = <<>>
      /\ l # <<>> => M(l) = g[Head(l)] \o M(Tail(l))
  BY <1>1, FlattenMap
<1>5. l # <<>> => M(Tail(l)) \in Seq(Path)
  BY <1>1, <1>3, FlattenMap
<1> HIDE DEF M
<1>6. l # <<>> => DirPaths(t, l) = P(Head(l)) \o DirPaths(t, Tail(l)) /\ DirPaths(t, Tail(l)) \in Seq(Path)
  BY <1>2, <1>3, <1>4, <1>5
<1>7. l # <<>> /\ P(Head(l)) = <<>> => DirPaths(t, l) = DirPaths(t, Tail(l))
  <2>1. ASSUME NEW X \in Seq(Path) PROVE <<>> \o X = X
    OBVIOUS
  <2> QED BY <1>6, <2>1
<1>8. /\ Kind[Head(l)] = "dir" => P(Head(l)) = <<Base(t, Head(l))>>
      /\ Kind[Head(l)] # "dir" => P(Head(l)) = <<>>
  BY DEF P
<1> QED BY <1>2, <1>4, <1>6, <1>7, <1>8

\* Every single file adds its path to the files.
LEMMA FilePathsFacts ==
  ASSUME NEW t \in Transfer, NEW l \in Seq(Item)
  PROVE  /\ FilePaths(t, l) \in Seq(Path)
         /\ l = <<>> => FilePaths(t, l) = <<>>
         /\ l # <<>> => /\ Kind[Head(l)] = "file"
                             => FilePaths(t, l) = <<Place(t, Head(l), Files[Head(l)][1])>> \o FilePaths(t, Tail(l))
                        /\ Kind[Head(l)] # "file" => FilePaths(t, l) = FilePaths(t, Tail(l))
<1> DEFINE P(i) == IF Kind[i] = "file" THEN <<Place(t, i, Files[i][1])>> ELSE <<>>
           g == [i \in Item |-> P(i)]
           M(k) == FlatMap(g, k)
<1>1. g \in [Item -> Seq(Path)]
  <2>1. ASSUME NEW i \in Item PROVE P(i) \in Seq(Path)
    <3>1. CASE Kind[i] = "file"
      <4>1. Files[i][1] \in File
        BY <3>1, ItemFacts
      <4>2. Place(t, i, Files[i][1]) \in Path
        BY <4>1, PlaceFacts
      <4> QED BY <3>1, <4>2
    <3> QED BY <3>1
  <2> HIDE DEF P
  <2> QED BY <2>1
<1>2. ASSUME NEW k \in Seq(Item) PROVE FilePaths(t, k) = M(k)
  <2>1. \A n \in 1..Len(k) : P(k[n]) = g[k[n]]
    <3> HIDE DEF P
    <3> QED OBVIOUS
  <2>2. FilePaths(t, k) = FlattenSeq([n \in 1..Len(k) |-> P(k[n])])
    BY DEF FilePaths
  <2> HIDE DEF g, P
  <2> QED BY <2>1, <2>2 DEF FlatMap
<1>3. l # <<>> => Head(l) \in Item /\ Tail(l) \in Seq(Item) /\ g[Head(l)] = P(Head(l))
  <2> HIDE DEF P
  <2> QED OBVIOUS
<1> HIDE DEF g, P
<1>4. /\ M(l) \in Seq(Path)
      /\ l = <<>> => M(l) = <<>>
      /\ l # <<>> => M(l) = g[Head(l)] \o M(Tail(l))
  BY <1>1, FlattenMap
<1>5. l # <<>> => M(Tail(l)) \in Seq(Path)
  BY <1>1, <1>3, FlattenMap
<1> HIDE DEF M
<1>6. l # <<>> => FilePaths(t, l) = P(Head(l)) \o FilePaths(t, Tail(l)) /\ FilePaths(t, Tail(l)) \in Seq(Path)
  BY <1>2, <1>3, <1>4, <1>5
<1>7. l # <<>> /\ P(Head(l)) = <<>> => FilePaths(t, l) = FilePaths(t, Tail(l))
  <2>1. ASSUME NEW X \in Seq(Path) PROVE <<>> \o X = X
    OBVIOUS
  <2> QED BY <1>6, <2>1
<1>8. /\ Kind[Head(l)] = "file" => P(Head(l)) = <<Place(t, Head(l), Files[Head(l)][1])>>
      /\ Kind[Head(l)] # "file" => P(Head(l)) = <<>>
  BY DEF P
<1> QED BY <1>2, <1>4, <1>6, <1>7, <1>8

\* The elements of a sequence.
LEMMA RangeFacts ==
  ASSUME NEW S, NEW l \in Seq(S)
  PROVE  /\ Range(l) \subseteq S
         /\ l = <<>> => Range(l) = {}
         /\ l # <<>> => Range(l) = {Head(l)} \cup Range(Tail(l))
<1>1. Range(l) \subseteq S
  BY DEF Range
<1>2. l = <<>> => Range(l) = {}
  BY DEF Range
<1>3. ASSUME l # <<>> PROVE Range(l) = {Head(l)} \cup Range(Tail(l))
  <2>1. Len(l) \in Nat /\ Len(l) # 0 /\ DOMAIN l = 1..Len(l) /\ Head(l) = l[1]
    BY <1>3
  <2>2. DOMAIN Tail(l) = 1..(Len(l) - 1) /\ \A j \in 1..(Len(l) - 1) : Tail(l)[j] = l[j + 1]
    BY <1>3
  <2>3. ASSUME NEW x \in Range(l) PROVE x \in {Head(l)} \cup Range(Tail(l))
    <3>1. PICK j \in 1..Len(l) : x = l[j]
      BY <2>1 DEF Range
    <3>2. CASE j = 1
      BY <2>1, <3>1, <3>2
    <3>3. CASE j # 1
      <4>1. j - 1 \in 1..(Len(l) - 1) /\ (j - 1) + 1 = j
        BY <2>1, <3>3
      <4>2. Tail(l)[j - 1] = x
        BY <2>2, <3>1, <4>1
      <4> QED BY <2>2, <4>1, <4>2 DEF Range
    <3> QED BY <3>2, <3>3
  <2>4. Head(l) \in Range(l)
    BY <2>1 DEF Range
  <2>5. ASSUME NEW x \in Range(Tail(l)) PROVE x \in Range(l)
    <3>1. PICK j \in 1..(Len(l) - 1) : x = Tail(l)[j]
      BY <2>2 DEF Range
    <3>2. j + 1 \in 1..Len(l) /\ x = l[j + 1]
      BY <2>1, <2>2, <3>1
    <3> QED BY <2>1, <3>2 DEF Range
  <2> QED BY <2>3, <2>4, <2>5
<1> QED BY <1>1, <1>2, <1>3

\* Every entry adds the landings of its files.
LEMMA LandingFacts ==
  ASSUME NEW t \in Transfer, NEW l \in Seq(Item)
  PROVE  /\ l = <<>> => LandingsOf(t, l) = {}
         /\ l # <<>> => LandingsOf(t, l) = {Landing(t, Head(l), f) : f \in Range(Files[Head(l)])}
                                           \cup LandingsOf(t, Tail(l))
<1> DEFINE L(i) == {Landing(t, i, f) : f \in Range(Files[i])}
<1>1. \A k : LandingsOf(t, k) = UNION {L(i) : i \in Range(k)}
  BY DEF LandingsOf
<1> HIDE DEF L
<1>2. l = <<>> => LandingsOf(t, l) = {}
  <2>1. l = <<>> => Range(l) = {}
    BY RangeFacts
  <2> QED BY <1>1, <2>1
<1>3. l # <<>> => LandingsOf(t, l) = L(Head(l)) \cup LandingsOf(t, Tail(l))
  <2>1. l # <<>> => Range(l) = {Head(l)} \cup Range(Tail(l))
    BY RangeFacts
  <2> QED BY <1>1, <2>1
<1> QED BY <1>2, <1>3 DEF L

\* Two lists that differ in special entries only.
SameSends(t, l, r) ==
  /\ ListMessages(r) = ListMessages(l)
  /\ DirPaths(t, r) = DirPaths(t, l)
  /\ FilePaths(t, r) = FilePaths(t, l)
  /\ SentFileCnt(r) = SentFileCnt(l)
  /\ LandingsOf(t, r) = LandingsOf(t, l)
  /\ Len(r) <= Len(l)
Skips(t, l) ==
  \E r \in Seq(Item) : (r = <<>> \/ Kind[Head(r)] \in {"file", "dir"}) /\ SameSends(t, l, r)

\* A special entry leaves no trace.
LEMMA SkipOne ==
  ASSUME NEW t \in Transfer, NEW l \in Seq(Item), l # <<>>, Kind[Head(l)] = "special"
  PROVE  SameSends(t, l, Tail(l))
<1> DEFINE r == Tail(l)
           i == Head(l)
<1>1. i \in Item /\ r \in Seq(Item) /\ Len(r) <= Len(l)
  OBVIOUS
<1>2. ItemMessages(i) = <<>> /\ Files[i] = <<>>
  BY <1>1, ItemFacts
<1>3. ListMessages(l) = ItemMessages(i) \o ListMessages(r) /\ ListMessages(r) \in Seq(Message)
  BY <1>1, ListFacts
<1>4. DirPaths(t, r) = DirPaths(t, l) /\ FilePaths(t, r) = FilePaths(t, l)
  BY DirPathsFacts, FilePathsFacts
<1>5. SentFileCnt(l) = Len(Files[i]) + SentFileCnt(r) /\ SentFileCnt(r) \in Nat
  BY <1>1, CountFacts
<1>6. LandingsOf(t, l) = {Landing(t, i, f) : f \in Range(Files[i])} \cup LandingsOf(t, r)
  BY LandingFacts
<1>7. Range(Files[i]) = {}
  <2>1. Files[i] \in Seq(File)
    BY <1>1, ListAssumption
  <2> QED BY <1>2, <2>1, RangeFacts
<1> HIDE DEF r, i
<1>8. LandingsOf(t, r) = LandingsOf(t, l)
  BY <1>6, <1>7
<1>9. SentFileCnt(r) = SentFileCnt(l)
  BY <1>2, <1>5
<1>10. ListMessages(r) = ListMessages(l)
  <2> DEFINE X == ListMessages(r)
  <2>1. X \in Seq(Message) /\ ListMessages(l) = <<>> \o X
    BY <1>2, <1>3
  <2> HIDE DEF X
  <2>2. <<>> \o X = X
    BY <2>1
  <2> QED BY <2>1, <2>2 DEF X
<1> QED BY <1>1, <1>4, <1>8, <1>9, <1>10 DEF SameSends, r

\* So the list goes on with an entry that is sent, or ends; by induction on its length.
LEMMA SkipSpecial ==
  ASSUME NEW t \in Transfer, NEW l \in Seq(Item)
  PROVE  Skips(t, l)
<1> DEFINE T == {n \in Nat : \A k \in Seq(Item) : Len(k) = n => Skips(t, k)}
<1>1. 0 \in T
  <2>1. ASSUME NEW k \in Seq(Item), Len(k) = 0 PROVE Skips(t, k)
    <3>1. k = <<>>
      BY <2>1
    <3>2. SameSends(t, k, k)
      BY DEF SameSends
    <3> QED BY <3>1, <3>2 DEF Skips
  <2> QED BY <2>1
<1>2. ASSUME NEW n \in T PROVE n + 1 \in T
  <2>0. n \in Nat
    OBVIOUS
  <2>1. ASSUME NEW k \in Seq(Item), Len(k) = n + 1 PROVE Skips(t, k)
    <3>1. k # <<>> /\ Tail(k) \in Seq(Item) /\ Len(Tail(k)) = n /\ Head(k) \in Item
      BY <2>0, <2>1
    <3>2. CASE Kind[Head(k)] = "special"
      <4>1. SameSends(t, k, Tail(k))
        BY <3>1, <3>2, SkipOne
      <4>2. Skips(t, Tail(k))
        BY <1>2, <3>1
      <4>3. PICK r \in Seq(Item) :
              (r = <<>> \/ Kind[Head(r)] \in {"file", "dir"}) /\ SameSends(t, Tail(k), r)
        BY <4>2 DEF Skips
      <4>4. SameSends(t, k, r)
        <5>1. Len(r) \in Nat /\ Len(k) \in Nat /\ Len(Tail(k)) \in Nat
          BY <3>1
        <5> QED BY <4>1, <4>3, <5>1 DEF SameSends
      <4> QED BY <4>3, <4>4 DEF Skips
    <3>3. CASE Kind[Head(k)] # "special"
      <4>1. Kind[Head(k)] \in {"file", "dir"}
        BY <3>1, <3>3, ListAssumption
      <4>2. SameSends(t, k, k)
        BY DEF SameSends
      <4> QED BY <4>1, <4>2 DEF Skips
    <3> QED BY <3>2, <3>3
  <2> QED BY <2>0, <2>1
<1>3. T = Nat
  <2> HIDE DEF T
  <2>1. T \in SUBSET Nat
    BY DEF T
  <2> QED BY <1>1, <1>2, <2>1, Induction
<1>4. Len(l) \in T
  BY <1>3
<1> QED BY <1>4

-----------------------------------------------------------------------------
(* Lines of messages *)

\* What is to come, by position.
LEMMA ToComeFacts ==
  ASSUME NEW S, NEW h \in S, NEW X \in Seq(S), NEW e \in S
  PROVE  /\ Append(X, e) \in Seq(S) /\ Len(Append(X, e)) = Len(X) + 1
         /\ Append(X, e)[Len(X) + 1] = e
         /\ \A k \in 1..Len(X) : Append(X, e)[k] = X[k] /\ X[k] \in S
         /\ Append(<<h>> \o X, e)[1] = h
         /\ \A k \in 1..(Len(X) + 1) : Append(<<h>> \o X, e)[k + 1] = Append(X, e)[k]
         /\ Append(<<h>> \o X, e) = <<h>> \o Append(X, e)
  OBVIOUS

\* The first message of a line that follows is the one that is to come, or a failure.
LEMMA FollowsTake ==
  ASSUME NEW line \in Seq(Message), line # <<>>, NEW h \in Message, NEW X \in Seq(Message),
         NEW e \in Message, Follows(line, <<h>> \o X, e), Head(line).code # "failed"
  PROVE  Alike(Head(line), h) /\ Follows(Tail(line), X, e)
<1> DEFINE Y == Append(X, e)
           Z == Append(<<h>> \o X, e)
           n == Len(line)
           r == Tail(line)
<1>0. n \in Nat /\ n # 0 /\ Len(X) \in Nat /\ Len(<<h>> \o X) = Len(X) + 1
  OBVIOUS
<1>1. r \in Seq(Message) /\ Len(r) = n - 1 /\ Head(line) = line[1] /\ \A k \in 1..(n - 1) : r[k] = line[k + 1]
  OBVIOUS
<1>2. Z[1] = h /\ \A k \in 1..(Len(X) + 1) : Z[k + 1] = Y[k]
  BY ToComeFacts
<1>3. CASE n <= Len(<<h>> \o X) + 1 /\ \A k \in 1..n : Alike(line[k], Z[k])
  <2> HIDE DEF Y, Z, n, r
  <2>1. Alike(line[1], h)
    <3>1. 1 \in 1..n
      BY <1>0
    <3>2. Alike(line[1], Z[1])
      BY <1>3, <3>1
    <3> QED BY <1>2, <3>2
  <2>2. ASSUME NEW k \in 1..(n - 1) PROVE Alike(r[k], Y[k])
    <3>1. k + 1 \in 1..n /\ k \in 1..(Len(X) + 1)
      BY <1>0, <1>3
    <3>2. Alike(line[k + 1], Z[k + 1])
      BY <1>3, <3>1
    <3>3. line[k + 1] = r[k] /\ Z[k + 1] = Y[k]
      BY <1>1, <1>2, <3>1
    <3> QED BY <3>2, <3>3
  <2>3. Len(r) <= Len(X) + 1
    BY <1>0, <1>1, <1>3
  <2> QED BY <1>1, <2>1, <2>2, <2>3 DEF Follows, Y, r
<1>4. CASE \E m \in 1..Len(<<h>> \o X) :
             m <= n /\ line[m].code = "failed" /\ \A k \in 1..(m - 1) : Alike(line[k], Z[k])
  <2>1. PICK m \in 1..(Len(X) + 1) :
          m <= n /\ line[m].code = "failed" /\ \A k \in 1..(m - 1) : Alike(line[k], Z[k])
    BY <1>0, <1>4
  <2> HIDE DEF Y, Z, n, r
  <2>2. m # 1
    BY <1>1, <2>1
  <2>3. Alike(line[1], h)
    <3>1. 1 \in 1..(m - 1)
      BY <1>0, <2>1, <2>2
    <3>2. Alike(line[1], Z[1])
      BY <2>1, <3>1
    <3> QED BY <1>2, <3>2
  <2> DEFINE p == m - 1
  <2>4. p \in 1..Len(X) /\ p <= n - 1 /\ p \in 1..(n - 1) /\ p + 1 = m
    BY <1>0, <2>1, <2>2
  <2>5. r[p].code = "failed"
    BY <1>1, <2>1, <2>4
  <2>6. ASSUME NEW k \in 1..(p - 1) PROVE Alike(r[k], Y[k])
    <3>1. k + 1 \in 1..(m - 1) /\ k \in 1..(Len(X) + 1) /\ k \in 1..(n - 1)
      BY <1>0, <2>1, <2>4
    <3>2. Alike(line[k + 1], Z[k + 1])
      BY <2>1, <3>1
    <3>3. line[k + 1] = r[k] /\ Z[k + 1] = Y[k]
      BY <1>1, <1>2, <3>1
    <3> QED BY <3>2, <3>3
  <2> HIDE DEF p
  <2>7. p <= Len(r)
    BY <1>1, <2>4
  <2> QED BY <1>1, <2>3, <2>4, <2>5, <2>6, <2>7 DEF Follows, Y, r
<1> QED BY <1>3, <1>4 DEF Follows

\* When only the end is to come, that is what comes.
LEMMA FollowsEnd ==
  ASSUME NEW line \in Seq(Message), line # <<>>, NEW e \in Message, e.code = "eos", Follows(line, <<>>, e)
  PROVE  Head(line) = e
<1>1. Len(<<>>) = 0 /\ Append(<<>>, e)[1] = e /\ Head(line) = line[1] /\ 1 \in 1..Len(line)
  OBVIOUS
<1>2. \A k \in 1..Len(line) : Alike(line[k], Append(<<>>, e)[k])
  BY <1>1 DEF Follows
<1>3. Alike(Head(line), e)
  BY <1>1, <1>2
<1> QED BY <1>3 DEF Alike

\* A part of a line that follows does.
LEMMA FollowsCut ==
  ASSUME NEW line \in Seq(Message), NEW part \in Seq(Message), NEW X \in Seq(Message), NEW e \in Message,
         Len(part) <= Len(line), \A k \in 1..Len(part) : part[k] = line[k], Follows(line, X, e)
  PROVE  Follows(part, X, e)
<1> DEFINE Y == Append(X, e)
<1>0. Len(part) \in Nat /\ Len(line) \in Nat /\ Len(X) \in Nat
  OBVIOUS
<1> HIDE DEF Y
<1>1. CASE Len(line) <= Len(X) + 1 /\ \A k \in 1..Len(line) : Alike(line[k], Y[k])
  <2>1. \A k \in 1..Len(part) : Alike(part[k], Y[k])
    BY <1>0, <1>1
  <2> QED BY <1>0, <1>1, <2>1 DEF Follows, Y
<1>2. CASE \E m \in 1..Len(X) :
             m <= Len(line) /\ line[m].code = "failed" /\ \A k \in 1..(m - 1) : Alike(line[k], Y[k])
  <2>1. PICK m \in 1..Len(X) :
          m <= Len(line) /\ line[m].code = "failed" /\ \A k \in 1..(m - 1) : Alike(line[k], Y[k])
    BY <1>2
  <2>2. CASE m <= Len(part)
    <3>1. part[m].code = "failed" /\ \A k \in 1..(m - 1) : Alike(part[k], Y[k])
      BY <1>0, <2>1, <2>2
    <3> QED BY <2>2, <3>1 DEF Follows, Y
  <2>3. CASE ~(m <= Len(part))
    <3>1. Len(part) <= Len(X) + 1 /\ \A k \in 1..Len(part) : Alike(part[k], Y[k])
      BY <1>0, <2>1, <2>3
    <3> QED BY <3>1 DEF Follows, Y
  <2> QED BY <2>2, <2>3
<1> QED BY <1>1, <1>2 DEF Follows, Y

\* So does one in which a notice of failure replaces what would have been sent,
\* unless that is the end.
LEMMA FollowsFails ==
  ASSUME NEW w \in Seq(Message), NEW td \in Seq(Message), td # <<>>,
         Head(td).code \notin {"failed", "eos"},
         NEW new \in Seq(Message), new # <<>>, Head(new).code = "failed",
         NEW X \in Seq(Message), NEW e \in Message, e.code = "eos", Follows(w \o td, X, e)
  PROVE  Follows(w \o new, X, e)
<1> DEFINE Y == Append(X, e)
           line == w \o td
           next == w \o new
           n == Len(w)
<1>0. n \in Nat /\ Len(X) \in Nat /\ Len(line) \in Nat /\ n + 1 <= Len(line) /\ n + 1 <= Len(next)
      /\ line[n + 1] = Head(td) /\ next[n + 1] = Head(new)
      /\ \A k \in 1..n : line[k] = w[k] /\ next[k] = w[k]
  OBVIOUS
<1>1. Y[Len(X) + 1] = e
  BY ToComeFacts
<1> HIDE DEF Y, line, next, n
<1>2. CASE Len(line) <= Len(X) + 1 /\ \A k \in 1..Len(line) : Alike(line[k], Y[k])
  <2>1. n + 1 \in 1..Len(line)
    BY <1>0
  <2>2. Alike(line[n + 1], Y[n + 1])
    BY <1>2, <2>1
  <2>3. n # Len(X)
    BY <1>0, <1>1, <2>2 DEF Alike
  <2>4. n + 1 \in 1..Len(X) /\ (n + 1) - 1 = n
    BY <1>0, <1>2, <2>3
  <2>5. \A k \in 1..n : Alike(next[k], Y[k])
    BY <1>0, <1>2
  <2> QED BY <1>0, <2>4, <2>5 DEF Follows, Y, next
<1>3. CASE \E m \in 1..Len(X) :
             m <= Len(line) /\ line[m].code = "failed" /\ \A k \in 1..(m - 1) : Alike(line[k], Y[k])
  <2>1. PICK m \in 1..Len(X) :
          m <= Len(line) /\ line[m].code = "failed" /\ \A k \in 1..(m - 1) : Alike(line[k], Y[k])
    BY <1>3
  <2>2. CASE m <= n
    <3>0. \A k \in 1..n : next[k] = line[k]
      BY <1>0
    <3>1. next[m].code = "failed" /\ \A k \in 1..(m - 1) : Alike(next[k], Y[k])
      <4>1. m \in 1..n /\ \A k \in 1..(m - 1) : k \in 1..n
        BY <1>0, <2>1, <2>2
      <4> QED BY <3>0, <2>1, <4>1
    <3>2. m <= Len(next)
      BY <1>0, <2>2
    <3> QED BY <3>1, <3>2 DEF Follows, Y, next
  <2>3. CASE m = n + 1
    BY <1>0, <2>1, <2>3
  <2>4. CASE n + 1 < m
    <3>1. n + 1 \in 1..Len(X) /\ (n + 1) - 1 = n
      BY <1>0, <2>1, <2>4
    <3>2. \A k \in 1..n : Alike(next[k], Y[k])
      BY <1>0, <2>1, <2>4
    <3> QED BY <1>0, <3>1, <3>2 DEF Follows, Y, next
  <2> QED BY <1>0, <2>1, <2>2, <2>3, <2>4
<1> QED BY <1>2, <1>3 DEF Follows, Y, line

\* So does one in which a chunk is changed.
LEMMA FollowsChanges ==
  ASSUME NEW w \in Seq(Message), NEW td \in Seq(Message), td # <<>>, Head(td).code = "cont",
         NEW X \in Seq(Message), NEW e \in Message, Follows(w \o td, X, e)
  PROVE  Follows(w \o (<<[Head(td) EXCEPT !.code = "changed"]>> \o Tail(td)), X, e)
<1> DEFINE Y == Append(X, e)
           line == w \o td
           c == [Head(td) EXCEPT !.code = "changed"]
           new == <<c>> \o Tail(td)
           next == w \o new
           n == Len(w)
<1>1. Head(td) \in Message /\ Tail(td) \in Seq(Message) /\ Len(td) \in Nat /\ Len(Tail(td)) = Len(td) - 1
      /\ \A k \in 1..Len(Tail(td)) : Tail(td)[k] = td[k + 1]
  OBVIOUS
<1>2. c \in Message /\ c.code = "changed" /\ c.arg = Head(td).arg
  BY <1>1 DEF Message, Codes
<1> HIDE DEF c
<1>3. new \in Seq(Message) /\ Len(new) = Len(td) /\ new[1] = c
      /\ \A k \in 1..Len(td) : k # 1 => new[k] = td[k]
  <2> DEFINE r == Tail(td)
  <2>1. r \in Seq(Message) /\ Len(r) = Len(td) - 1
    BY <1>1
  <2> HIDE DEF r
  <2>2. <<c>> \o r \in Seq(Message) /\ Len(<<c>> \o r) = Len(td) /\ (<<c>> \o r)[1] = c
        /\ \A k \in 1..Len(r) : (<<c>> \o r)[k + 1] = r[k]
    <3>1. c \in Message /\ r \in Seq(Message)
      BY <1>2, <2>1
    <3>2. /\ <<c>> \o r \in Seq(Message) /\ Len(<<c>> \o r) = Len(r) + 1 /\ (<<c>> \o r)[1] = c
          /\ \A k \in 1..Len(r) : (<<c>> \o r)[k + 1] = r[k]
      BY ONLY <3>1
    <3>3. Len(r) + 1 = Len(td)
      BY <1>1, <2>1
    <3> QED BY <3>2, <3>3
  <2>3. ASSUME NEW k \in 1..Len(td), k # 1 PROVE (<<c>> \o r)[k] = td[k]
    <3>1. k - 1 \in 1..Len(r) /\ (k - 1) + 1 = k
      BY <1>1, <2>1, <2>3
    <3>2. (<<c>> \o r)[k] = r[k - 1]
      BY <2>2, <3>1
    <3>3. r[k - 1] = td[k]
      BY <1>1, <3>1 DEF r
    <3> QED BY <3>2, <3>3
  <2> QED BY <2>2, <2>3 DEF r
<1> HIDE DEF new
<1>0. n \in Nat /\ Len(X) \in Nat /\ Len(line) \in Nat /\ Len(next) = Len(line)
      /\ n + 1 \in 1..Len(line) /\ line[n + 1] = Head(td) /\ next[n + 1] = c
      /\ \A k \in 1..Len(line) : k # n + 1 => next[k] = line[k]
  <2>1. n \in Nat /\ Len(X) \in Nat /\ Len(line) = n + Len(td) /\ Len(next) = n + Len(new)
    <3>1. w \in Seq(Message) /\ td \in Seq(Message) /\ new \in Seq(Message) /\ X \in Seq(Message)
      BY <1>3
    <3> QED BY ONLY <3>1
  <2>2. \A k \in 1..n : line[k] = w[k] /\ next[k] = w[k]
    BY <1>3
  <2>3. \A k \in 1..Len(td) : line[n + k] = td[k] /\ next[n + k] = new[k]
    BY <1>3
  <2>4. Len(td) # 0 /\ Head(td) = td[1] /\ Len(td) \in Nat
    OBVIOUS
  <2> HIDE DEF line, next, n
  <2>5. 1 \in 1..Len(td)
    BY <2>4
  <2>6. ASSUME NEW k \in 1..Len(line), k # n + 1 PROVE next[k] = line[k]
    <3>1. CASE k <= n
      BY <2>1, <2>2, <3>1
    <3>2. CASE ~(k <= n)
      <4>1. k - n \in 1..Len(td) /\ k - n # 1 /\ n + (k - n) = k
        BY <2>1, <2>4, <2>6, <3>2
      <4>2. next[k] = new[k - n] /\ line[k] = td[k - n]
        BY <2>3, <4>1
      <4> QED BY <1>3, <4>1, <4>2
    <3> QED BY <3>1, <3>2
  <2> QED BY <1>3, <2>1, <2>3, <2>4, <2>5, <2>6
<1>4. Head(td).code = "cont"
  OBVIOUS
<1>5. \A y : Alike(Head(td), y) => Alike(c, y)
  BY <1>2, <1>4 DEF Alike
<1> HIDE DEF Y, line, next, n
<1>6. ASSUME NEW k \in 1..Len(line), Alike(line[k], Y[k]) PROVE Alike(next[k], Y[k])
  BY <1>0, <1>5, <1>6
<1>7. ASSUME NEW k \in 1..Len(line), line[k].code = "failed" PROVE next[k].code = "failed"
  BY <1>0, <1>4, <1>7
<1>8. CASE Len(line) <= Len(X) + 1 /\ \A k \in 1..Len(line) : Alike(line[k], Y[k])
  <2>1. \A k \in 1..Len(next) : Alike(next[k], Y[k])
    BY <1>0, <1>6, <1>8
  <2> QED BY <1>0, <1>8, <2>1 DEF Follows, Y, next, new, c
<1>9. CASE \E m \in 1..Len(X) :
             m <= Len(line) /\ line[m].code = "failed" /\ \A k \in 1..(m - 1) : Alike(line[k], Y[k])
  <2>1. PICK m \in 1..Len(X) :
          m <= Len(line) /\ line[m].code = "failed" /\ \A k \in 1..(m - 1) : Alike(line[k], Y[k])
    BY <1>9
  <2>2. m \in 1..Len(line) /\ m <= Len(next)
    BY <1>0, <2>1
  <2>3. \A k \in 1..(m - 1) : Alike(next[k], Y[k])
    BY <1>0, <1>6, <2>1, <2>2
  <2>4. next[m].code = "failed"
    BY <1>7, <2>1, <2>2
  <2> QED BY <2>1, <2>2, <2>3, <2>4 DEF Follows, Y, next, new, c
<1> QED BY <1>8, <1>9 DEF Follows, Y, line

-----------------------------------------------------------------------------
(* What comes next *)

\* Joining three sequences.
LEMMA JoinThree ==
  ASSUME NEW S, NEW a \in Seq(S), NEW b \in Seq(S), NEW c \in Seq(S)
  PROVE  /\ (a \o b) \o c = a \o (b \o c)
         /\ a \o (b \o c) \in Seq(S) /\ b \o c \in Seq(S) /\ a \o b \in Seq(S)
         /\ <<>> \o c = c
  OBVIOUS

\* In a file its next chunk is to come, or its end.
LEMMA NextInFile ==
  ASSUME NEW f \in File, NEW k \in Nat, NEW Y \in Seq(Message)
  PROVE  /\ FileRest(f, k) \o Y \in Seq(Message) /\ FileRest(f, k + 1) \o Y \in Seq(Message)
         /\ k < ChunkCnt[f] => FileRest(f, k) \o Y = <<Msg("cont", k)>> \o (FileRest(f, k + 1) \o Y)
         /\ ~(k < ChunkCnt[f]) => FileRest(f, k) \o Y = <<Msg("eof", f)>> \o Y
<1> DEFINE a == FileRest(f, k)
           b == FileRest(f, k + 1)
           h == Msg("cont", k)
<1>1. a \in Seq(Message) /\ b \in Seq(Message)
  <2>1. k + 1 \in Nat
    OBVIOUS
  <2> QED BY <2>1, FileRestFacts
<1>2. h \in Message
  BY MsgType DEF Codes
<1>3. /\ k < ChunkCnt[f] => a = <<h>> \o b
      /\ ~(k < ChunkCnt[f]) => a = <<Msg("eof", f)>>
  BY FileRestFacts
<1> HIDE DEF a, b, h
<1>4. a \o Y \in Seq(Message) /\ b \o Y \in Seq(Message)
  BY <1>1, JoinThree
<1>5. (<<h>> \o b) \o Y = <<h>> \o (b \o Y)
  <2>1. <<h>> \in Seq(Message)
    BY <1>2
  <2> DEFINE g == <<h>>
  <2>2. g \in Seq(Message)
    BY <2>1
  <2> HIDE DEF g
  <2>3. (g \o b) \o Y = g \o (b \o Y)
    BY <1>1, <2>2, JoinThree
  <2> QED BY <2>3 DEF g
<1> QED BY <1>3, <1>4, <1>5 DEF a, b, h

\* In a directory its next file is to come, or its end.
LEMMA NextInDir ==
  ASSUME NEW i \in Item, NEW fs \in Seq(File), NEW Y \in Seq(Message)
  PROVE  /\ DirRest(i, fs) \in Seq(Message) /\ DirRest(i, fs) \o Y \in Seq(Message)
         /\ fs = <<>> => DirRest(i, fs) \o Y = <<Msg("endDir", i)>> \o Y
         /\ fs # <<>> => DirRest(i, fs) \o Y
                           = <<Msg("fileInfo", Head(fs))>> \o (FileRest(Head(fs), 0) \o (DirRest(i, Tail(fs)) \o Y))
<1> DEFINE e == <<Msg("endDir", i)>>
           D == MessagesOf(fs)
<1>0. e \in Seq(Message)
  <2>1. Msg("endDir", i) \in Message
    BY MsgType DEF Codes
  <2> QED BY <2>1
<1>1. D \in Seq(Message) /\ DirRest(i, fs) = D \o e
  BY FilesFacts DEF DirRest
<1> HIDE DEF e
<1>2. DirRest(i, fs) \in Seq(Message) /\ DirRest(i, fs) \o Y \in Seq(Message)
  <2> HIDE DEF D
  <2>1. D \o e \in Seq(Message) /\ (D \o e) \o Y = D \o (e \o Y) /\ D \o (e \o Y) \in Seq(Message)
    BY <1>0, <1>1, JoinThree
  <2> QED BY <1>1, <2>1
<1>3. CASE fs = <<>>
  <2>1. D = <<>>
    BY <1>3, FilesFacts
  <2>2. <<>> \o e = e
    BY <1>0
  <2> QED BY <1>1, <1>2, <1>3, <2>1, <2>2 DEF e
<1>4. CASE fs # <<>>
  <2> DEFINE f == Head(fs)
             fi == <<Msg("fileInfo", f)>>
             R == FileRest(f, 0)
             T == MessagesOf(Tail(fs))
  <2>1. f \in File /\ Tail(fs) \in Seq(File)
    BY <1>4
  <2>2. D = (fi \o R) \o T
    BY <1>4, <2>1, FilesFacts, FileFacts
  <2>3. fi \in Seq(Message)
    <3>1. Msg("fileInfo", f) \in Message
      BY <2>1, MsgType DEF Codes
    <3> QED BY <3>1
  <2>4. R \in Seq(Message)
    BY <2>1, FileRestFacts
  <2>5. T \in Seq(Message) /\ DirRest(i, Tail(fs)) = T \o e
    <3>1. T \in Seq(Message)
      BY <2>1, FilesFacts
    <3> QED BY <3>1 DEF DirRest, e
  <2> HIDE DEF f, fi, R, T, D
  <2>6. (((fi \o R) \o T) \o e) \o Y = fi \o (R \o ((T \o e) \o Y))
    <3>1. (fi \o R) \o T = fi \o (R \o T) /\ R \o T \in Seq(Message)
      BY <2>3, <2>4, <2>5, JoinThree
    <3>2. (R \o T) \o e = R \o (T \o e) /\ T \o e \in Seq(Message)
      BY <1>0, <2>4, <2>5, JoinThree
    <3>3. R \o (T \o e) \in Seq(Message)
      BY <2>4, <3>2, JoinThree
    <3>6. (fi \o (R \o T)) \o e = fi \o ((R \o T) \o e)
      <4> DEFINE b == R \o T
      <4>1. b \in Seq(Message)
        BY <3>1
      <4> HIDE DEF b
      <4>2. (fi \o b) \o e = fi \o (b \o e)
        BY <1>0, <2>3, <4>1, JoinThree
      <4> QED BY <4>2 DEF b
    <3>4. (fi \o (R \o (T \o e))) \o Y = fi \o ((R \o (T \o e)) \o Y)
      <4> DEFINE b == R \o (T \o e)
      <4>1. b \in Seq(Message)
        BY <3>3
      <4> HIDE DEF b
      <4>2. (fi \o b) \o Y = fi \o (b \o Y)
        BY <2>3, <4>1, JoinThree
      <4> QED BY <4>2 DEF b
    <3>5. (R \o (T \o e)) \o Y = R \o ((T \o e) \o Y)
      BY <2>4, <3>2, JoinThree
    <3> QED BY <3>1, <3>2, <3>4, <3>5, <3>6
  <2> QED BY <1>1, <1>2, <1>4, <2>2, <2>5, <2>6 DEF f, fi, R
<1> QED BY <1>3, <1>4

\* Between the entries the next one is to come.
LEMMA NextAtTop ==
  ASSUME NEW l \in Seq(Item), l # <<>>
  PROVE  /\ Kind[Head(l)] = "file" => ListMessages(l) = <<Msg("fileInfo", Files[Head(l)][1])>>
                                       \o (FileRest(Files[Head(l)][1], 0) \o ListMessages(Tail(l)))
         /\ Kind[Head(l)] = "dir" => ListMessages(l) = <<Msg("dirInfo", Head(l))>>
                                      \o (DirRest(Head(l), Files[Head(l)]) \o ListMessages(Tail(l)))
<1> DEFINE i == Head(l)
           f == Files[i][1]
           Y == ListMessages(Tail(l))
<1>1. i \in Item /\ Tail(l) \in Seq(Item)
  OBVIOUS
<1>2. ListMessages(l) = ItemMessages(i) \o Y /\ Y \in Seq(Message)
  BY <1>1, ListFacts
<1>3. ASSUME Kind[i] = "file" PROVE ListMessages(l) = <<Msg("fileInfo", f)>> \o (FileRest(f, 0) \o Y)
  <2> DEFINE a == <<Msg("fileInfo", f)>>
             b == FileRest(f, 0)
  <2>1. f \in File /\ ItemMessages(i) = FileMessages(f)
    BY <1>1, <1>3, ItemFacts
  <2>2. a \in Seq(Message)
    <3>1. Msg("fileInfo", f) \in Message
      BY <2>1, MsgType DEF Codes
    <3> QED BY <3>1
  <2>3. b \in Seq(Message) /\ FileMessages(f) = a \o b
    BY <2>1, FileRestFacts, FileFacts
  <2> HIDE DEF a, b, f, i, Y
  <2>4. (a \o b) \o Y = a \o (b \o Y)
    BY <1>2, <2>2, <2>3, JoinThree
  <2> QED BY <1>2, <2>1, <2>3, <2>4 DEF a, b
<1>4. ASSUME Kind[i] = "dir" PROVE ListMessages(l) = <<Msg("dirInfo", i)>> \o (DirRest(i, Files[i]) \o Y)
  <2> DEFINE a == <<Msg("dirInfo", i)>>
             b == DirRest(i, Files[i])
  <2>1. ItemMessages(i) = a \o b
    BY <1>1, <1>4, ItemFacts
  <2>2. a \in Seq(Message)
    <3>1. Msg("dirInfo", i) \in Message
      BY <1>1, MsgType DEF Codes
    <3> QED BY <3>1
  <2>3. b \in Seq(Message)
    <3>1. Files[i] \in Seq(File)
      BY <1>1, ListAssumption
    <3> QED BY <1>1, <1>2, <3>1, NextInDir
  <2> HIDE DEF a, b, i, Y
  <2>4. (a \o b) \o Y = a \o (b \o Y)
    BY <1>2, <2>2, <2>3, JoinThree
  <2> QED BY <1>2, <2>1, <2>4 DEF a, b
<1> QED BY <1>3, <1>4

-----------------------------------------------------------------------------
(* The line of a transfer *)

\* What the handler may receive are messages, and the last is the end.
LEMMA LineTypes ==
  ASSUME SendTypes, NEW t \in Transfer
  PROVE  /\ Line(t) \in Seq(Message) /\ wire[t] \in Seq(Message) /\ todo[t] \in Seq(Message)
         /\ fileList[t] \in Seq(Item)
         /\ EOS(t) \in Message /\ EOS(t).code = "eos" /\ EOS(t).arg = SentFileCnt(fileList[t])
<1>1. wire[t] \in Seq(Message) /\ todo[t] \in Seq(Message) /\ fileList[t] \in Seq(Item)
  BY DEF SendTypes
<1>2. Line(t) \in Seq(Message)
  <2> HIDE DEF SendTypes
  <2>1. wire[t] \o todo[t] \in Seq(Message)
    BY <1>1, JoinType
  <2> QED BY <1>1, <2>1 DEF Line
<1>3. SentFileCnt(fileList[t]) \in Int
  BY <1>1, CountFacts
<1>4. EOS(t) \in Message /\ EOS(t).code = "eos" /\ EOS(t).arg = SentFileCnt(fileList[t])
  BY <1>3, MsgType DEF EOS, Codes
<1> QED BY <1>1, <1>2, <1>4

\* The first message in flight is the first of the line.
LEMMA WireOfLine ==
  ASSUME SendTypes, NEW t \in Transfer, wire[t] # <<>>
  PROVE  /\ Line(t) # <<>> /\ Head(Line(t)) = Head(wire[t])
         /\ Head(wire[t]) \in Message
         /\ Tail(wire[t]) \in Seq(Message) /\ Len(Tail(wire[t])) <= Len(wire[t])
         /\ Tail(Line(t)) = IF broken[t] THEN Tail(wire[t]) ELSE Tail(wire[t]) \o todo[t]
<1> DEFINE w == wire[t]
           d == todo[t]
<1>1. w \in Seq(Message) /\ d \in Seq(Message) /\ w # <<>>
  BY LineTypes
<1>2. Line(t) = IF broken[t] THEN w ELSE w \o d
  BY DEF Line
<1> HIDE DEF w, d
<1>3. w \o d # <<>> /\ Head(w \o d) = Head(w) /\ Tail(w \o d) = Tail(w) \o d
  BY ONLY <1>1
<1>4. Head(w) \in Message /\ Tail(w) \in Seq(Message) /\ Len(Tail(w)) <= Len(w)
  BY ONLY <1>1
<1> QED BY <1>1, <1>2, <1>3, <1>4 DEF w, d

\* A message is received: it is the one to come, and the rest is still to come.
LEMMA Receives ==
  ASSUME SendTypes, NEW t \in Transfer, NEW h \in Message, NEW X \in Seq(Message),
         Carries(t, <<h>> \o X), wire[t] # <<>>, Head(wire[t]).code # "failed",
         wire' = [wire EXCEPT ![t] = Tail(@)], UNCHANGED <<fileList, todo, broken, fault>>
  PROVE  Alike(Head(wire[t]), h) /\ (~fault[t] => Head(wire[t]) = h) /\ Carries(t, X)'
<1>1. /\ Line(t) \in Seq(Message) /\ EOS(t) \in Message /\ Line(t) # <<>>
      /\ Head(Line(t)) = Head(wire[t])
  BY LineTypes, WireOfLine
<1>2. Line(t)' = Tail(Line(t))
  <2>1. wire'[t] = Tail(wire[t])
    BY DEF SendTypes
  <2> QED BY <2>1, WireOfLine DEF Line
<1>3. EOS(t)' = EOS(t) /\ fault'[t] = fault[t]
  BY DEF EOS
<1>4. Follows(Line(t), <<h>> \o X, EOS(t))
  BY DEF Carries
<1>5. Alike(Head(wire[t]), h) /\ Follows(Tail(Line(t)), X, EOS(t))
  BY <1>1, <1>4, FollowsTake
<1>6. ~fault[t] => Head(wire[t]) = h /\ Tail(Line(t)) = Append(X, EOS(t))
  <2> DEFINE e == EOS(t)
             Y == Append(X, e)
  <2>1. e \in Message /\ Y \in Seq(Message) /\ Append(<<h>> \o X, e) = <<h>> \o Y
    <3>1. e \in Message
      BY <1>1
    <3> HIDE DEF e
    <3> QED BY <3>1, ToComeFacts
  <2>2. ~fault[t] => Line(t) = <<h>> \o Y
    BY <2>1 DEF Carries, Exactly
  <2> HIDE DEF Y
  <2>3. Head(<<h>> \o Y) = h /\ Tail(<<h>> \o Y) = Y
    BY <2>1, OneMore
  <2> QED BY <1>1, <2>2, <2>3 DEF Y
<1> QED BY <1>2, <1>3, <1>5, <1>6 DEF Carries, Exactly

\* When all entries have been received, the end is.
LEMMA ReceivesEnd ==
  ASSUME SendTypes, NEW t \in Transfer, Carries(t, <<>>), wire[t] # <<>>
  PROVE  Head(wire[t]) = EOS(t)
<1>1. /\ Line(t) \in Seq(Message) /\ EOS(t) \in Message /\ EOS(t).code = "eos" /\ Line(t) # <<>>
      /\ Head(Line(t)) = Head(wire[t])
  BY LineTypes, WireOfLine
<1>2. Follows(Line(t), <<>>, EOS(t))
  BY DEF Carries
<1> QED BY <1>1, <1>2, FollowsEnd

-----------------------------------------------------------------------------
(* Where the handler is *)

\* All that may still come are messages.
LEMMA ToComeTypes ==
  ASSUME SendTypes, NEW t \in Transfer, NEW rest \in Seq(Item), NEW fs \in Seq(File)
  PROVE  /\ ListMessages(rest) \in Seq(Message)
         /\ <<Msg("kanban", t)>> \o ListMessages(rest) \in Seq(Message)
         /\ rest # <<>> /\ rfile[t] \in File => Current(t) \o ListMessages(Tail(rest)) \in Seq(Message)
         /\ rest # <<>> /\ rdir[t] \in Item => DirRest(rdir[t], fs) \o ListMessages(Tail(rest)) \in Seq(Message)
         /\ rest # <<>> /\ rdir[t] \in Item /\ rfile[t] \in File
              => Current(t) \o (DirRest(rdir[t], fs) \o ListMessages(Tail(rest))) \in Seq(Message)
<1>1. ListMessages(rest) \in Seq(Message)
  BY ListFacts
<1>2. Msg("kanban", t) \in Message
  BY MsgType DEF Codes
<1>3. <<Msg("kanban", t)>> \o ListMessages(rest) \in Seq(Message)
  BY <1>1, <1>2, OneMore
<1>4. rfile[t] \in File => Current(t) \in Seq(Message)
  <2>1. rbuf[t] \in Nat
    BY DEF SendTypes
  <2>2. rfile[t] \in File => FileRest(rfile[t], rbuf[t]) \in Seq(Message)
    BY <2>1, FileRestFacts
  <2> QED BY <2>2 DEF Current
<1>5. rest # <<>> => ListMessages(Tail(rest)) \in Seq(Message)
  <2>1. rest # <<>> => Tail(rest) \in Seq(Item)
    OBVIOUS
  <2> QED BY <2>1, ListFacts
<1>6. rest # <<>> /\ rdir[t] \in Item => DirRest(rdir[t], fs) \o ListMessages(Tail(rest)) \in Seq(Message)
  BY <1>5, NextInDir
<1>7. rest # <<>> /\ rfile[t] \in File => Current(t) \o ListMessages(Tail(rest)) \in Seq(Message)
  BY <1>4, <1>5, JoinType
<1>8. rest # <<>> /\ rdir[t] \in Item /\ rfile[t] \in File
        => Current(t) \o (DirRest(rdir[t], fs) \o ListMessages(Tail(rest))) \in Seq(Message)
  BY <1>4, <1>6, JoinType
<1> QED BY <1>1, <1>3, <1>6, <1>7, <1>8

\* A handler that does nothing stays where it is, if its line and the disk allow it.
LEMMA PositionStays ==
  ASSUME SendTypes, NEW t \in Transfer, UNCHANGED fileList,
         UNCHANGED <<rpc[t], rdir[t], rfile[t], rbuf[t], rdirCnt[t], lists[t], cnt[t]>>,
         \A X \in Seq(Message) : Carries(t, X) => Carries(t, X)',
         \A O : Settled(t, O) => Settled(t, O)',
         Position(t)
  PROVE  Position(t)'
<1>1. CASE rpc[t] \notin Active
  BY <1>1 DEF Position
<1>2. fileList[t] \in Seq(Item) /\ rdir[t] \in Item \cup {NoItem} /\ Current(t)' = Current(t)
  BY DEF SendTypes, Current
<1>3. \A rest : Progress(t, rest) => Progress(t, rest)'
  BY DEF Progress, Landings
<1>4. CASE Begins(t)
  <2> DEFINE l == fileList[t]
             X == <<Msg("kanban", t)>> \o ListMessages(l)
  <2>1. X \in Seq(Message)
    <3>1. <<>> \in Seq(File)
      OBVIOUS
    <3> QED BY <1>2, <3>1, ToComeTypes
  <2>2. Carries(t, X)'
    BY <1>4, <2>1 DEF Begins
  <2>3. Progress(t, l)'
    BY <1>3, <1>4 DEF Begins
  <2> QED BY <1>4, <2>2, <2>3 DEF Begins, Position
<1>5. CASE \E rest \in Seq(Item) :
             /\ Progress(t, rest)
             /\ \/ AtTop(t, rest)
                \/ InFile(t, rest)
                \/ \E fs \in Seq(File) : AtDir(t, rest, fs) \/ InDirFile(t, rest, fs)
  <2>1. PICK rest \in Seq(Item) :
             /\ Progress(t, rest)
             /\ \/ AtTop(t, rest)
                \/ InFile(t, rest)
                \/ \E fs \in Seq(File) : AtDir(t, rest, fs) \/ InDirFile(t, rest, fs)
    BY <1>5
  <2>2. Progress(t, rest)'
    BY <1>3, <2>1
  <2>3. CASE AtTop(t, rest)
    <3>1. AtTop(t, rest)'
      <4>1. ListMessages(rest) \in Seq(Message)
        BY ListFacts
      <4> QED BY <2>3, <4>1 DEF AtTop
    <3> QED BY <2>2, <3>1 DEF Position
  <2>4. CASE InFile(t, rest)
    <3>1. InFile(t, rest)'
      <4>1. Files[Head(rest)] \in Seq(File) /\ Files[Head(rest)] = <<rfile[t]>> /\ rest # <<>>
        <5>1. rest # <<>> /\ Files[Head(rest)] = <<rfile[t]>>
          BY <2>4 DEF InFile
        <5>2. Head(rest) \in Item
          BY <5>1
        <5>3. Files[Head(rest)] \in Seq(File)
          BY <5>2, ListAssumption
        <5> QED BY <5>1, <5>3
      <4>2. rfile[t] \in File
        BY <4>1
      <4>4. <<>> \in Seq(File)
        OBVIOUS
      <4>3. Current(t) \o ListMessages(Tail(rest)) \in Seq(Message)
        BY <4>1, <4>2, <4>4, ToComeTypes
      <4> QED BY <1>2, <2>4, <4>3 DEF InFile
    <3> QED BY <2>2, <3>1 DEF Position
  <2>5. CASE \E fs \in Seq(File) : AtDir(t, rest, fs) \/ InDirFile(t, rest, fs)
    <3>1. PICK fs \in Seq(File) : AtDir(t, rest, fs) \/ InDirFile(t, rest, fs)
      BY <2>5
    <3>2. rest # <<>> /\ rdir[t] \in Item
      BY <3>1 DEF AtDir, InDirFile
    <3>3. CASE AtDir(t, rest, fs)
      <4>1. DirRest(rdir[t], fs) \o ListMessages(Tail(rest)) \in Seq(Message)
        BY <3>2, ToComeTypes
      <4>2. AtDir(t, rest, fs)'
        BY <1>2, <3>3, <4>1 DEF AtDir
      <4> QED BY <2>2, <4>2 DEF Position
    <3>4. CASE InDirFile(t, rest, fs)
      <4>1. rfile[t] \in File
        <5>1. Files[rdir[t]] \in Seq(File)
          BY <3>2, ListAssumption
        <5>2. Range(Files[rdir[t]]) \subseteq File
          BY <5>1, RangeFacts
        <5> QED BY <3>4, <5>2 DEF InDirFile
      <4>2. Current(t) \o (DirRest(rdir[t], fs) \o ListMessages(Tail(rest))) \in Seq(Message)
        BY <3>2, <4>1, ToComeTypes
      <4>3. InDirFile(t, rest, fs)'
        BY <1>2, <3>4, <4>2 DEF InDirFile
      <4> QED BY <2>2, <4>3 DEF Position
    <3> QED BY <3>1, <3>3, <3>4
  <2> QED BY <2>1, <2>3, <2>4, <2>5
<1> QED BY <1>1, <1>4, <1>5 DEF Position

\* Whether a transfer is alone depends on the lists only.
LEMMA AloneSame ==
  ASSUME NEW t \in Transfer, UNCHANGED fileList
  PROVE  Alone(t)' = Alone(t) /\ Landings(t)' = Landings(t)
  BY DEF Alone, Landings

\* The file that the handler has is one of the transfer's.
IsCurrent(t, q) == q.file = rfile[t] /\ q.place = FilePath(t) /\ q.made = DequeuePath(t)
LEMMA CurrentLanding ==
  ASSUME SendTypes, NEW t \in Transfer, Position(t), rpc[t] \in {"file", "write", "check"}
  PROVE  /\ rfile[t] \in File /\ OutputDirPath(t) \in Path
         /\ \E q \in Landings(t) : IsCurrent(t, q)
         /\ \A rest \in Seq(Item) :
              /\ InFile(t, rest) => IsCurrent(t, Landing(t, Head(rest), rfile[t]))
              /\ \A fs : InDirFile(t, rest, fs) => IsCurrent(t, Landing(t, rdir[t], rfile[t]))
<1>1. ASSUME NEW i \in Item, NEW f \in File, f = rfile[t],
             (rdir[t] = NoItem /\ Kind[i] = "file") \/ (rdir[t] = i /\ Kind[i] = "dir")
      PROVE  IsCurrent(t, Landing(t, i, f)) /\ OutputDirPath(t) \in Path
  <2>1. OutputDirPath(t) = Base(t, i)
    BY <1>1, NoneAssumption DEF OutputDirPath, Base
  <2>2. OutputDir(t) = Base(t, i) \o RelDir[f]
    BY <1>1, <2>1 DEF OutputDir
  <2>3. FilePath(t) = Place(t, i, f)
    BY <1>1, <2>2, PlaceFacts DEF FilePath
  <2>4. DequeuePath(t) = Base(t, i) \o RelDir[f] \o Append(RelDir[f], Name[f])
    BY <1>1, <2>2 DEF DequeuePath
  <2> QED BY <1>1, <2>1, <2>3, <2>4, PlaceFacts DEF Landing, IsCurrent
<1>2. ASSUME NEW rest \in Seq(Item), InFile(t, rest)
      PROVE  /\ Head(rest) \in Item /\ rest # <<>> /\ rfile[t] \in Range(Files[Head(rest)])
             /\ rfile[t] \in File /\ IsCurrent(t, Landing(t, Head(rest), rfile[t])) /\ OutputDirPath(t) \in Path
  <2> DEFINE i == Head(rest)
             f == rfile[t]
  <2>1. rest # <<>> /\ rdir[t] = NoItem /\ Kind[i] = "file" /\ Files[i] = <<f>>
    BY <1>2 DEF InFile
  <2>2. i \in Item
    BY <2>1
  <2>3. Files[i] \in Seq(File) /\ Len(Files[i]) = 1 /\ Files[i][1] = f
    <3>1. Files[i] \in Seq(File)
      BY <2>2, ListAssumption
    <3>2. Len(<<f>>) = 1 /\ <<f>>[1] = f
      OBVIOUS
    <3> QED BY <2>1, <3>1, <3>2
  <2>4. f \in Range(Files[i]) /\ f \in File
    BY <2>3 DEF Range
  <2> QED BY <1>1, <2>1, <2>2, <2>4
<1>3. ASSUME NEW rest \in Seq(Item), NEW fs, InDirFile(t, rest, fs)
      PROVE  /\ Head(rest) \in Item /\ rest # <<>> /\ rdir[t] = Head(rest) /\ rfile[t] \in Range(Files[Head(rest)])
             /\ rfile[t] \in File /\ IsCurrent(t, Landing(t, rdir[t], rfile[t])) /\ OutputDirPath(t) \in Path
  <2> DEFINE i == Head(rest)
             f == rfile[t]
  <2>1. rest # <<>> /\ rdir[t] = i /\ Kind[i] = "dir" /\ f \in Range(Files[i])
    BY <1>3 DEF InDirFile
  <2>2. i \in Item
    BY <2>1
  <2>3. Files[i] \in Seq(File)
    BY <2>2, ListAssumption
  <2>4. f \in File
    BY <2>1, <2>3, RangeFacts
  <2> QED BY <1>1, <2>1, <2>2, <2>4
<1>4. PICK rest \in Seq(Item) : Progress(t, rest) /\ (InFile(t, rest) \/ \E fs \in Seq(File) : InDirFile(t, rest, fs))
  BY DEF Position, Begins, AtTop, AtDir, Active
<1>5. /\ Head(rest) \in Item /\ rest # <<>> /\ rfile[t] \in Range(Files[Head(rest)]) /\ rfile[t] \in File
      /\ IsCurrent(t, Landing(t, Head(rest), rfile[t])) /\ OutputDirPath(t) \in Path
  BY <1>2, <1>3, <1>4
<1>6. Landing(t, Head(rest), rfile[t]) \in Landings(t)
  <2>1. Landing(t, Head(rest), rfile[t]) \in LandingsOf(t, rest)
    <3>1. LandingsOf(t, rest) = {Landing(t, Head(rest), f) : f \in Range(Files[Head(rest)])} \cup LandingsOf(t, Tail(rest))
      BY <1>5, LandingFacts
    <3>2. Landing(t, Head(rest), rfile[t]) \in {Landing(t, Head(rest), f) : f \in Range(Files[Head(rest)])}
      BY <1>5
    <3> QED BY <3>1, <3>2
  <2> QED BY <1>4, <2>1 DEF Progress
<1> QED BY <1>2, <1>3, <1>5, <1>6

\* While the handler is not writing a file nothing is settled by a step that
\* leaves the disk.
LEMMA SettledStays ==
  ASSUME NEW t \in Transfer, UNCHANGED <<fileList, disk>>, rpc[t] \notin {"write", "check"}
  PROVE  \A O : Settled(t, O) => Settled(t, O)'
<1>1. \A q : ~UnderWay(t, q)
  BY DEF UnderWay
<1>2. \A q : OnDisk(q)' = OnDisk(q)
  BY DEF OnDisk
<1> QED BY <1>1, <1>2, AloneSame DEF Settled

\* Between entries the handler expects a file, a directory or the end.
LEMMA TopNormal ==
  ASSUME SendTypes, NEW t \in Transfer, Position(t), rpc[t] = "top"
  PROVE  \E rest \in Seq(Item) :
           Progress(t, rest) /\ AtTop(t, rest) /\ (rest = <<>> \/ Kind[Head(rest)] \in {"file", "dir"})
<1>1. PICK l \in Seq(Item) : Progress(t, l) /\ AtTop(t, l)
  BY DEF Position, Begins, InFile, AtDir, InDirFile, Active
<1>2. PICK rest \in Seq(Item) : (rest = <<>> \/ Kind[Head(rest)] \in {"file", "dir"}) /\ SameSends(t, l, rest)
  BY SkipSpecial DEF Skips
<1>3. AtTop(t, rest)
  BY <1>1, <1>2 DEF AtTop, SameSends
<1>4. Progress(t, rest)
  <2>1. /\ Len(rest) \in Nat /\ Len(l) \in Nat /\ Len(lists[t].dirs) \in Nat /\ Len(lists[t].files) \in Nat
        /\ Len(fileList[t]) \in Nat
    BY DEF SendTypes
  <2>2. Len(lists[t].dirs) + Len(lists[t].files) + Len(l) <= Len(fileList[t]) /\ Len(rest) <= Len(l)
    BY <1>1, <1>2 DEF Progress, SameSends
  <2>3. Len(lists[t].dirs) + Len(lists[t].files) + Len(rest) <= Len(fileList[t])
    <3> DEFINE a == Len(lists[t].dirs)
               b == Len(lists[t].files)
               c == Len(l)
               d == Len(rest)
               n == Len(fileList[t])
    <3>1. a \in Nat /\ b \in Nat /\ c \in Nat /\ d \in Nat /\ n \in Nat /\ a + b + c <= n /\ d <= c
      BY <2>1, <2>2
    <3> HIDE DEF a, b, c, d, n
    <3>2. a + b + d <= n
      BY ONLY <3>1
    <3> QED BY <3>2 DEF a, b, d, n
  <2> QED BY <1>1, <1>2, <2>3 DEF Progress, SameSends
<1> QED BY <1>2, <1>3, <1>4

\* A handler takes a message that is not a notice of failure.
Takes(t) ==
  /\ wire[t] # <<>> /\ Head(wire[t]).code # "failed"
  /\ wire' = [wire EXCEPT ![t] = Tail(@)]
  /\ UNCHANGED <<fileList, todo, broken, fault>>

\* It is exactly the one to come, unless that is a chunk.
LEMMA TakesNext ==
  ASSUME SendTypes, NEW t \in Transfer, NEW h \in Message, NEW X \in Seq(Message),
         Carries(t, <<h>> \o X), Takes(t), h.code # "cont"
  PROVE  Head(wire[t]) = h /\ Carries(t, X)'
<1>1. Alike(Head(wire[t]), h) /\ Carries(t, X)'
  BY Receives DEF Takes
<1> QED BY <1>1 DEF Alike

\* What the handler gets between entries.
LEMMA TopTakes ==
  ASSUME SendTypes, NEW t \in Transfer, NEW rest \in Seq(Item), AtTop(t, rest), Takes(t),
         rest = <<>> \/ Kind[Head(rest)] \in {"file", "dir"}
  PROVE  \/ rest = <<>> /\ Head(wire[t]) = EOS(t)
         \/ /\ rest # <<>> /\ Kind[Head(rest)] = "file"
            /\ Head(wire[t]) = Msg("fileInfo", Files[Head(rest)][1])
            /\ Carries(t, FileRest(Files[Head(rest)][1], 0) \o ListMessages(Tail(rest)))'
         \/ /\ rest # <<>> /\ Kind[Head(rest)] = "dir"
            /\ Head(wire[t]) = Msg("dirInfo", Head(rest))
            /\ Carries(t, DirRest(Head(rest), Files[Head(rest)]) \o ListMessages(Tail(rest)))'
<1>0. Carries(t, ListMessages(rest))
  BY DEF AtTop
<1>1. CASE rest = <<>>
  <2>1. Carries(t, <<>>)
    BY <1>0, <1>1, ListFacts
  <2> QED BY <1>1, <2>1, ReceivesEnd DEF Takes
<1>2. ASSUME rest # <<>> PROVE Head(rest) \in Item /\ Tail(rest) \in Seq(Item) /\ ListMessages(Tail(rest)) \in Seq(Message)
  <2>1. Head(rest) \in Item /\ Tail(rest) \in Seq(Item)
    BY <1>2
  <2> QED BY <2>1, ListFacts
<1>3. CASE rest # <<>> /\ Kind[Head(rest)] = "file"
  <2> DEFINE f == Files[Head(rest)][1]
             h == Msg("fileInfo", f)
             X == FileRest(f, 0) \o ListMessages(Tail(rest))
  <2>1. f \in File
    BY <1>2, <1>3, ItemFacts
  <2>2. h \in Message /\ h.code # "cont"
    BY <2>1, MsgType DEF Codes
  <2>3. X \in Seq(Message)
    BY <1>2, <1>3, <2>1, NextInFile
  <2>4. ListMessages(rest) = <<h>> \o X
    BY <1>3, NextAtTop
  <2> HIDE DEF f, h, X
  <2>5. Head(wire[t]) = h /\ Carries(t, X)'
    BY <1>0, <2>2, <2>3, <2>4, TakesNext
  <2> QED BY <1>3, <2>5 DEF f, h, X
<1>4. CASE rest # <<>> /\ Kind[Head(rest)] = "dir"
  <2> DEFINE i == Head(rest)
             h == Msg("dirInfo", i)
             X == DirRest(i, Files[i]) \o ListMessages(Tail(rest))
  <2>1. i \in Item /\ Files[i] \in Seq(File)
    BY <1>2, <1>4, ListAssumption
  <2>2. h \in Message /\ h.code # "cont"
    BY <2>1, MsgType DEF Codes
  <2>3. X \in Seq(Message)
    BY <1>2, <1>4, <2>1, NextInDir
  <2>4. ListMessages(rest) = <<h>> \o X
    BY <1>4, NextAtTop
  <2> HIDE DEF i, h, X
  <2>5. Head(wire[t]) = h /\ Carries(t, X)'
    BY <1>0, <2>2, <2>3, <2>4, TakesNext
  <2> QED BY <1>4, <2>5 DEF i, h, X
<1> QED BY <1>1, <1>3, <1>4

-----------------------------------------------------------------------------
(* The steps of the handler *)

\* A handler that leaves its loop has no position to keep.
LEMMA LeavesLoop ==
  ASSUME NEW t \in Transfer, rpc'[t] \notin Active
  PROVE  Position(t)'
  BY DEF Position

\* The kanban has been received: its entries are to come.
LEMMA KanbanStep ==
  ASSUME SendTypes, NEW t \in Transfer, Position(t), ReceiveSendingKanban(t)
  PROVE  Position(t)'
<1>1. /\ Begins(t) /\ rpc'[t] = "top" /\ Takes(t) /\ rdir' = rdir /\ lists' = lists /\ cnt' = cnt /\ disk' = disk
      /\ fileList' = fileList
  <2>1. rpc[t] = "kanban" /\ rpc'[t] = "top"
    BY DEF ReceiveSendingKanban, SendTypes
  <2>2. Begins(t)
    BY <2>1 DEF Position, AtTop, InFile, AtDir, InDirFile, Active
  <2> QED BY <2>1, <2>2 DEF ReceiveSendingKanban, Recv, Takes, recvVars, clientVars
<1> DEFINE l == fileList[t]
<1>2. PICK k \in Seq(Item) : k = l
  BY LineTypes
<1>3. Carries(t, ListMessages(k))'
  <2> DEFINE h == Msg("kanban", t)
             X == ListMessages(k)
  <2>1. h \in Message /\ h.code # "cont" /\ X \in Seq(Message)
    BY ListFacts, MsgType DEF Codes
  <2>2. Carries(t, <<h>> \o X)
    BY <1>1, <1>2 DEF Begins
  <2> HIDE DEF h, X
  <2>3. Carries(t, X)'
    BY <1>1, <2>1, <2>2, TakesNext
  <2> QED BY <2>3 DEF X
<1>4. Progress(t, k)'
  BY <1>1, <1>2 DEF Begins, Progress, Landings
<1>5. Settled(t, LandingsOf(t, k))'
  BY <1>1, <1>2 DEF Settled, Landings
<1>6. AtTop(t, k)'
  BY <1>1, <1>3, <1>5 DEF AtTop, Begins
<1> QED BY <1>4, <1>6 DEF Position

\* A file begins, between entries or in a directory.
LEMMA FileInfoStep ==
  ASSUME SendTypes, NEW t \in Transfer, Position(t), ReceiveFileInfo(t)
  PROVE  Position(t)' /\ Head(wire[t]).arg \in File
<1>1. /\ rpc[t] \in {"top", "dir"} /\ rpc'[t] = "file" /\ Takes(t) /\ Head(wire[t]).code = "fileInfo"
      /\ rfile'[t] = Head(wire[t]).arg /\ rbuf'[t] = 0
      /\ UNCHANGED <<fileList, rdir, rdirCnt, lists, cnt, disk>>
  BY DEF ReceiveFileInfo, SendTypes, Recv, Takes, clientVars, diskVars
<1>2. \A O : Settled(t, O) => Settled(t, O)'
  BY <1>1, SettledStays
<1>3. \A rest : Progress(t, rest) => Progress(t, rest)'
  BY <1>1 DEF Progress, Landings
<1>4. CASE rpc[t] = "top"
  <2>1. PICK rest \in Seq(Item) :
          Progress(t, rest) /\ AtTop(t, rest) /\ (rest = <<>> \/ Kind[Head(rest)] \in {"file", "dir"})
    BY <1>4, TopNormal
  <2> DEFINE f == Files[Head(rest)][1]
  <2>2. /\ rest # <<>> /\ Kind[Head(rest)] = "file"
        /\ Head(wire[t]) = Msg("fileInfo", f)
        /\ Carries(t, FileRest(f, 0) \o ListMessages(Tail(rest)))'
    <3>1. EOS(t).code = "eos"
      BY LineTypes
    <3>2. Msg("dirInfo", Head(rest)).code = "dirInfo"
      BY DEF Msg
    <3> QED BY <1>1, <2>1, <3>1, <3>2, TopTakes
  <2>3. f \in File /\ Files[Head(rest)] = <<f>>
    <3>1. Head(rest) \in Item
      BY <2>2
    <3> QED BY <2>2, <3>1, ItemFacts
  <2>4. rfile'[t] = f
    BY <1>1, <2>2 DEF Msg
  <2> HIDE DEF f
  <2>5. Current(t)' = FileRest(f, 0)
    BY <1>1, <2>4 DEF Current
  <2>6. Settled(t, LandingsOf(t, rest))'
    BY <1>2, <2>1 DEF AtTop
  <2>7. InFile(t, rest)'
    BY <1>1, <2>1, <2>2, <2>3, <2>4, <2>5, <2>6 DEF InFile, AtTop
  <2> QED BY <1>1, <1>3, <2>1, <2>3, <2>4, <2>7 DEF Position
<1>5. CASE rpc[t] = "dir"
  <2>1. PICK rest \in Seq(Item) : Progress(t, rest) /\ \E fs \in Seq(File) : AtDir(t, rest, fs)
    BY <1>5 DEF Position, Begins, AtTop, InFile, InDirFile, Active
  <2>2. PICK fs \in Seq(File) : AtDir(t, rest, fs)
    BY <2>1
  <2> DEFINE i == Head(rest)
             Y == ListMessages(Tail(rest))
             f == Head(fs)
  <2>3. rest # <<>> /\ Kind[i] = "dir" /\ rdir[t] = i /\ i \in Item /\ Y \in Seq(Message)
    <3>1. rest # <<>> /\ Kind[i] = "dir" /\ rdir[t] = i
      BY <2>2 DEF AtDir
    <3>2. i \in Item /\ Tail(rest) \in Seq(Item)
      BY <3>1
    <3> QED BY <3>1, <3>2, ListFacts
  <2>4. Carries(t, DirRest(i, fs) \o Y)
    BY <2>2, <2>3 DEF AtDir
  <2> HIDE DEF i, Y
  <2>5. fs # <<>>
    <3> SUFFICES ASSUME fs = <<>> PROVE FALSE
      OBVIOUS
    <3> DEFINE h == Msg("endDir", i)
    <3>1. h \in Message /\ h.code = "endDir"
      BY <2>3, MsgType DEF Codes
    <3>2. Carries(t, <<h>> \o Y)
      BY <2>3, <2>4, NextInDir
    <3> HIDE DEF h
    <3>3. Head(wire[t]) = h
      BY <1>1, <2>3, <3>1, <3>2, TakesNext
    <3> QED BY <1>1, <3>1, <3>3
  <2>6. f \in File /\ Tail(fs) \in Seq(File) /\ Len(fs) = 1 + Len(Tail(fs)) /\ Len(Tail(fs)) \in Nat
    BY <2>5
  <2>7. Head(wire[t]) = Msg("fileInfo", f) /\ Carries(t, FileRest(f, 0) \o (DirRest(i, Tail(fs)) \o Y))'
    <3> DEFINE h == Msg("fileInfo", f)
               Z == DirRest(i, Tail(fs)) \o Y
               X == FileRest(f, 0) \o Z
    <3>1. h \in Message /\ h.code # "cont"
      BY <2>6, MsgType DEF Codes
    <3>2. Carries(t, <<h>> \o X)
      BY <2>3, <2>4, <2>5, NextInDir
    <3>3. X \in Seq(Message)
      <4>1. Z \in Seq(Message)
        BY <2>3, <2>6, NextInDir
      <4> HIDE DEF Z
      <4> QED BY <2>6, <4>1, NextInFile
    <3> HIDE DEF h, X
    <3>4. Head(wire[t]) = h /\ Carries(t, X)'
      BY <1>1, <3>1, <3>2, <3>3, TakesNext
    <3> QED BY <3>4 DEF h, X
  <2>8. rfile'[t] = f
    BY <1>1, <2>7 DEF Msg
  <2>9. Range(fs) = {f} \cup Range(Tail(fs))
    BY <2>5, RangeFacts
  <2>10. Current(t)' = FileRest(f, 0)
    BY <1>1, <2>8 DEF Current
  <2>11. Settled(t, {Landing(t, i, f)} \cup LandingsIn(t, i, Tail(fs)) \cup LandingsOf(t, Tail(rest)))'
    <3>1. Settled(t, LandingsIn(t, i, fs) \cup LandingsOf(t, Tail(rest)))'
      BY <1>2, <2>2, <2>3 DEF AtDir
    <3>2. LandingsIn(t, i, fs) = {Landing(t, i, f)} \cup LandingsIn(t, i, Tail(fs))
      BY <2>9 DEF LandingsIn
    <3> QED BY <3>1, <3>2
  <2>12. rdirCnt'[t] + 1 + Len(Tail(fs)) = Len(Files[i])
    <3>1. rdirCnt[t] + Len(fs) = Len(Files[i]) /\ rdirCnt[t] \in Nat
      BY <2>2, <2>3 DEF AtDir, SendTypes
    <3> QED BY <1>1, <2>6, <3>1
  <2>13. Range(Tail(fs)) \cup {f} \subseteq Range(Files[i])
    BY <2>2, <2>3, <2>9 DEF AtDir
  <2> HIDE DEF f
  <2>14. InDirFile(t, rest, Tail(fs))'
    BY <1>1, <2>3, <2>7, <2>8, <2>10, <2>11, <2>12, <2>13 DEF InDirFile, i, Y
  <2>15. Progress(t, rest)'
    BY <1>3, <2>1
  <2> QED BY <1>1, <2>6, <2>8, <2>14, <2>15 DEF Position
<1> QED BY <1>1, <1>4, <1>5

\* A directory begins.
LEMMA DirInfoStep ==
  ASSUME SendTypes, NEW t \in Transfer, Position(t), ReceiveDirInfo(t)
  PROVE  Position(t)' /\ Head(wire[t]).arg \in Item
<1>1. /\ rpc[t] = "top" /\ rpc'[t] = "dir" /\ Takes(t) /\ Head(wire[t]).code = "dirInfo"
      /\ rdir'[t] = Head(wire[t]).arg /\ rdirCnt'[t] = 0
      /\ UNCHANGED <<fileList, lists, cnt, disk>>
  BY DEF ReceiveDirInfo, SendTypes, Recv, Takes, clientVars, diskVars
<1>2. \A O : Settled(t, O) => Settled(t, O)'
  BY <1>1, SettledStays
<1>3. \A rest : Progress(t, rest) => Progress(t, rest)'
  BY <1>1 DEF Progress, Landings
<1>4. PICK rest \in Seq(Item) :
        Progress(t, rest) /\ AtTop(t, rest) /\ (rest = <<>> \/ Kind[Head(rest)] \in {"file", "dir"})
  BY <1>1, TopNormal
<1> DEFINE i == Head(rest)
           fs == Files[i]
<1>5. /\ rest # <<>> /\ Kind[i] = "dir"
      /\ Head(wire[t]) = Msg("dirInfo", i)
      /\ Carries(t, DirRest(i, fs) \o ListMessages(Tail(rest)))'
  <2>1. EOS(t).code = "eos"
    BY LineTypes
  <2>2. Msg("fileInfo", Files[i][1]).code = "fileInfo"
    BY DEF Msg
  <2> QED BY <1>1, <1>4, <2>1, <2>2, TopTakes
<1>6. i \in Item
  BY <1>5
<1>7. fs \in Seq(File) /\ Len(fs) \in Nat
  BY <1>6, ListAssumption
<1>8. rdir'[t] = i
  BY <1>1, <1>5 DEF Msg
<1>9. LandingsOf(t, rest) = LandingsIn(t, i, fs) \cup LandingsOf(t, Tail(rest))
  BY <1>5, LandingFacts DEF LandingsIn
<1>10. Settled(t, LandingsIn(t, i, fs) \cup LandingsOf(t, Tail(rest)))'
  BY <1>2, <1>4, <1>9 DEF AtTop
<1>11. rdirCnt'[t] + Len(fs) = Len(Files[i])
  BY <1>1, <1>7
<1>12. AtDir(t, rest, fs)'
  BY <1>1, <1>5, <1>8, <1>10, <1>11 DEF AtDir
<1> QED BY <1>1, <1>3, <1>4, <1>6, <1>7, <1>8, <1>12 DEF Position

\* Where the handler is in a file.
InSome(t, rest, Y) ==
  \/ InFile(t, rest) /\ Y = ListMessages(Tail(rest))
  \/ \E fs \in Seq(File) : InDirFile(t, rest, fs) /\ Y = DirRest(rdir[t], fs) \o ListMessages(Tail(rest))
LEMMA FilePosition ==
  ASSUME SendTypes, NEW t \in Transfer, Position(t), rpc[t] \in {"file", "write", "check"}
  PROVE  \E rest \in Seq(Item), Y \in Seq(Message) :
           Progress(t, rest) /\ Carries(t, Current(t) \o Y) /\ InSome(t, rest, Y)
<1>1. PICK rest \in Seq(Item) : Progress(t, rest) /\ (InFile(t, rest) \/ \E fs \in Seq(File) : InDirFile(t, rest, fs))
  BY DEF Position, Begins, AtTop, AtDir, Active
<1> DEFINE Z == ListMessages(Tail(rest))
<1>2. Head(rest) \in Item /\ Z \in Seq(Message)
  <2>1. rest # <<>>
    BY <1>1 DEF InFile, InDirFile
  <2>2. Head(rest) \in Item /\ Tail(rest) \in Seq(Item)
    BY <2>1
  <2> QED BY <2>2, ListFacts
<1>3. CASE InFile(t, rest)
  <2>1. Carries(t, Current(t) \o Z) /\ InSome(t, rest, Z)
    BY <1>3 DEF InFile, InSome
  <2> QED BY <1>1, <1>2, <2>1
<1>4. CASE \E fs \in Seq(File) : InDirFile(t, rest, fs)
  <2>1. PICK fs \in Seq(File) : InDirFile(t, rest, fs)
    BY <1>4
  <2> DEFINE Y == DirRest(rdir[t], fs) \o Z
  <2>2. rdir[t] = Head(rest)
    BY <2>1 DEF InDirFile
  <2>3. Y \in Seq(Message)
    BY <1>2, <2>2, NextInDir
  <2>4. Carries(t, Current(t) \o Y) /\ InSome(t, rest, Y)
    BY <2>1 DEF InDirFile, InSome
  <2> HIDE DEF Y
  <2> QED BY <1>1, <2>3, <2>4
<1> QED BY <1>1, <1>3, <1>4

\* It stays in the file.
LEMMA FileKept ==
  ASSUME SendTypes, NEW t \in Transfer, NEW rest \in Seq(Item), NEW Y \in Seq(Message),
         Progress(t, rest), InSome(t, rest, Y),
         UNCHANGED <<fileList, rdir, rfile, rdirCnt, lists, cnt>>,
         rpc'[t] \in {"file", "write", "check"},
         Carries(t, Current(t) \o Y)',
         \A O : Settled(t, O) => Settled(t, O)'
  PROVE  Position(t)'
<1>1. Progress(t, rest)'
  BY DEF Progress, Landings
<1>2. CASE InFile(t, rest) /\ Y = ListMessages(Tail(rest))
  <2>1. InFile(t, rest)'
    BY <1>2 DEF InFile
  <2> QED BY <1>1, <2>1 DEF Position
<1>3. CASE \E fs \in Seq(File) : InDirFile(t, rest, fs) /\ Y = DirRest(rdir[t], fs) \o ListMessages(Tail(rest))
  <2>1. PICK fs \in Seq(File) : InDirFile(t, rest, fs) /\ Y = DirRest(rdir[t], fs) \o ListMessages(Tail(rest))
    BY <1>3
  <2>2. InDirFile(t, rest, fs)'
    BY <2>1 DEF InDirFile
  <2> QED BY <1>1, <2>2 DEF Position
<1> QED BY <1>2, <1>3 DEF InSome

\* A chunk comes: it is the one with the number that is expected.
LEMMA FileContStep ==
  ASSUME SendTypes, NEW t \in Transfer, Position(t), ReceiveFileCont(t)
  PROVE  /\ Position(t)' /\ rbuf[t] < ChunkCnt[rfile[t]]
         /\ rpc' = rpc /\ result' = result /\ rbuf'[t] = rbuf[t] + 1
         /\ ~fault[t] => Head(wire[t]).code = "cont"
<1>1. /\ rpc[t] = "file" /\ Takes(t) /\ Head(wire[t]).code \in {"cont", "changed"}
      /\ UNCHANGED <<fileList, rdir, rfile, rdirCnt, lists, cnt, disk>>
  BY DEF ReceiveFileCont, Recv, Takes, clientVars, diskVars
<1>2. PICK rest \in Seq(Item), Y \in Seq(Message) :
        Progress(t, rest) /\ Carries(t, Current(t) \o Y) /\ InSome(t, rest, Y)
  BY <1>1, FilePosition
<1>3. PICK f \in File, k \in Nat : f = rfile[t] /\ k = rbuf[t]
  BY <1>1, CurrentLanding DEF SendTypes
<1>4. Carries(t, FileRest(f, k) \o Y)
  BY <1>1, <1>2, <1>3 DEF Current
<1>5. k < ChunkCnt[f]
  <2> SUFFICES ASSUME ~(k < ChunkCnt[f]) PROVE FALSE
    OBVIOUS
  <2> DEFINE h == Msg("eof", f)
  <2>1. h \in Message /\ h.code = "eof"
    BY MsgType DEF Codes
  <2>2. Carries(t, <<h>> \o Y)
    BY <1>4, NextInFile
  <2> HIDE DEF h
  <2>3. Head(wire[t]) = h
    BY <1>1, <2>1, <2>2, TakesNext
  <2> QED BY <1>1, <2>1, <2>3
<1> DEFINE h == Msg("cont", k)
           X == FileRest(f, k + 1) \o Y
<1>6. h \in Message /\ h.code = "cont" /\ h.arg = k
  BY MsgType DEF Codes
<1>7. X \in Seq(Message) /\ Carries(t, <<h>> \o X)
  BY <1>4, <1>5, NextInFile
<1> HIDE DEF h, X
<1>8. Alike(Head(wire[t]), h) /\ (~fault[t] => Head(wire[t]) = h) /\ Carries(t, X)'
  BY <1>1, <1>6, <1>7, Receives DEF Takes
<1>9. Head(wire[t]).arg = k
  BY <1>6, <1>8 DEF Alike
<1>10. rbuf'[t] = k + 1 /\ rpc' = rpc /\ result' = result
  BY <1>3, <1>9 DEF ReceiveFileCont, SendTypes
<1>11. Current(t)' = FileRest(f, k + 1)
  BY <1>1, <1>3, <1>10 DEF Current
<1>12. Carries(t, Current(t) \o Y)'
  BY <1>8, <1>11 DEF X
<1>13. \A O : Settled(t, O) => Settled(t, O)'
  BY <1>1, SettledStays
<1>14. Position(t)'
  BY <1>1, <1>2, <1>10, <1>12, <1>13, FileKept
<1> QED BY <1>3, <1>5, <1>6, <1>8, <1>10, <1>14

\* Writing one's own file or another one's leaves what is settled.
LEMMA SettledWrites ==
  ASSUME SendTypes, NEW u \in Transfer, Position(u), rpc[u] \in {"file", "write"},
         NEW t \in Transfer, UNCHANGED <<fileList, rdir, rfile>>,
         \A r \in Transfer \ {u} : rpc'[r] = rpc[r],
         rpc'[u] \in {"write", "check"},
         DOMAIN disk \subseteq DOMAIN disk',
         \A p \in DOMAIN disk : p # DequeuePath(u) => disk'[p] = disk[p]
  PROVE  \A O : Settled(t, O) => Settled(t, O)'
<1>1. PICK c \in Landings(u) : IsCurrent(u, c)
  BY CurrentLanding
<1>2. DequeuePath(t)' = DequeuePath(t)
  BY DEF DequeuePath, OutputDir, OutputDirPath
<1>3. ASSUME Alone(t), NEW q \in Landings(t) PROVE OnDisk(q) \/ UnderWay(t, q) => (OnDisk(q) \/ UnderWay(t, q))'
  <2>1. CASE q.place = DequeuePath(u)
    <3>1. q.place = c.made
      BY <1>1, <2>1 DEF IsCurrent
    <3>2. u = t
      BY <1>1, <1>3, <3>1 DEF Alone
    <3>3. UnderWay(t, q)'
      BY <1>2, <2>1, <3>2 DEF UnderWay
    <3> QED BY <3>3
  <2>2. CASE q.place # DequeuePath(u)
    <3>1. OnDisk(q) => OnDisk(q)'
      BY <2>2 DEF OnDisk
    <3>2. UnderWay(t, q) => UnderWay(t, q)'
      <4>1. CASE t = u
        BY <2>2, <4>1 DEF UnderWay
      <4>2. CASE t # u
        BY <1>2, <4>2 DEF UnderWay
      <4> QED BY <4>1, <4>2
    <3> QED BY <3>1, <3>2
  <2> QED BY <2>1, <2>2
<1> QED BY <1>3, AloneSame DEF Settled

\* The end of a file comes when all of its chunks have come.
LEMMA EOFStep ==
  ASSUME SendTypes, NEW u \in Transfer, Position(u), ReceiveEOF(u)
  PROVE  /\ Position(u)' /\ ~(rbuf[u] < ChunkCnt[rfile[u]])
         /\ \A t \in Transfer \ {u} : \A O : Settled(t, O) => Settled(t, O)'
<1>1. /\ rpc[u] = "file" /\ Takes(u) /\ Head(wire[u]).code = "eof"
      /\ UNCHANGED <<fileList, rdir, rfile, rbuf, rdirCnt, lists, cnt>>
  BY DEF ReceiveEOF, Recv, Takes, clientVars, recvVars
<1>2. PICK rest \in Seq(Item), Y \in Seq(Message) :
        Progress(u, rest) /\ Carries(u, Current(u) \o Y) /\ InSome(u, rest, Y)
  BY <1>1, FilePosition
<1>3. PICK f \in File, k \in Nat : f = rfile[u] /\ k = rbuf[u]
  BY <1>1, CurrentLanding DEF SendTypes
<1>4. Carries(u, FileRest(f, k) \o Y)
  BY <1>1, <1>2, <1>3 DEF Current
<1>5. ~(k < ChunkCnt[f])
  <2> SUFFICES ASSUME k < ChunkCnt[f] PROVE FALSE
    OBVIOUS
  <2> DEFINE h == Msg("cont", k)
             X == FileRest(f, k + 1) \o Y
  <2>1. h \in Message /\ h.code = "cont"
    BY MsgType DEF Codes
  <2>2. X \in Seq(Message) /\ Carries(u, <<h>> \o X)
    BY <1>4, NextInFile
  <2> HIDE DEF h, X
  <2>3. Alike(Head(wire[u]), h)
    BY <1>1, <2>1, <2>2, Receives DEF Takes
  <2> QED BY <1>1, <2>1, <2>3 DEF Alike
<1>6. Carries(u, Y)'
  <2> DEFINE h == Msg("eof", f)
  <2>1. h \in Message /\ h.code # "cont"
    BY MsgType DEF Codes
  <2>2. Carries(u, <<h>> \o Y)
    BY <1>4, <1>5, NextInFile
  <2> HIDE DEF h
  <2> QED BY <1>1, <2>1, <2>2, TakesNext
<1>7. CASE rpc'[u] = "write"
  <2>1. disk' = [p \in DOMAIN disk \cup {DequeuePath(u)} |-> IF p = DequeuePath(u) THEN {} ELSE disk[p]] /\ rpc' = [rpc EXCEPT ![u] = "write"]
    BY <1>7 DEF ReceiveEOF, Finish, SendTypes
  <2>2. /\ DOMAIN disk \subseteq DOMAIN disk'
        /\ \A p \in DOMAIN disk : p # DequeuePath(u) => disk'[p] = disk[p]
    BY <2>1
  <2>3. \A r \in Transfer \ {u} : rpc'[r] = rpc[r]
    BY <2>1 DEF SendTypes
  <2>4. ASSUME NEW t \in Transfer PROVE \A O : Settled(t, O) => Settled(t, O)'
    BY <1>1, <1>7, <2>2, <2>3, SettledWrites
  <2>5. Carries(u, Current(u) \o Y)'
    <3>1. Current(u)' = <<>>
      BY <1>7 DEF Current
    <3>2. <<>> \o Y = Y
      OBVIOUS
    <3> QED BY <1>6, <3>1, <3>2
  <2>6. Position(u)'
    BY <1>1, <1>2, <1>7, <2>4, <2>5, FileKept
  <2> QED BY <1>3, <1>5, <2>4, <2>6
<1>8. CASE rpc'[u] # "write"
  <2>1. rpc' = [rpc EXCEPT ![u] = "handover"] /\ disk' = disk
    BY <1>8 DEF ReceiveEOF, Finish, SendTypes
  <2>2. rpc'[u] \notin Active /\ \A r \in Transfer \ {u} : rpc'[r] = rpc[r]
    BY <2>1 DEF SendTypes, Active
  <2>3. ASSUME NEW t \in Transfer, NEW O, t # u, Settled(t, O) PROVE Settled(t, O)'
    <3>1. \A q : OnDisk(q)' = OnDisk(q)
      BY <2>1 DEF OnDisk
    <3>2. \A q : UnderWay(t, q)' = UnderWay(t, q)
      BY <1>1, <2>2, <2>3 DEF UnderWay, DequeuePath, OutputDir, OutputDirPath
    <3> QED BY <1>1, <2>3, <3>1, <3>2, AloneSame DEF Settled
  <2> QED BY <1>3, <1>5, <2>2, <2>3, LeavesLoop
<1> QED BY <1>7, <1>8

\* What is settled stays so for a transfer whose handler does nothing, if its
\* files stay on the disk.
LEMMA SettledElse ==
  ASSUME NEW t \in Transfer, UNCHANGED <<fileList, rpc[t], rdir[t], rfile[t]>>,
         Alone(t) => \A q \in Landings(t) : OnDisk(q) => OnDisk(q)'
  PROVE  \A O : Settled(t, O) => Settled(t, O)'
<1>1. \A q : UnderWay(t, q)' = UnderWay(t, q)
  BY DEF UnderWay, DequeuePath, OutputDir, OutputDirPath
<1> QED BY <1>1, AloneSame DEF Settled

\* A line on which nothing moves carries the same.
LEMMA CarriesSame ==
  ASSUME NEW t \in Transfer, UNCHANGED <<fileList, Line(t), fault[t]>>
  PROVE  \A X : Carries(t, X) => Carries(t, X)'
  BY DEF Carries, Exactly, EOS

\* The file is written.
LEMMA WriteStep ==
  ASSUME SendTypes, NEW u \in Transfer, Position(u), WriteFile(u)
  PROVE  Position(u)' /\ \A t \in Transfer : \A O : Settled(t, O) => Settled(t, O)'
<1>1. /\ rpc[u] = "write" /\ rpc'[u] = "check" /\ \A r \in Transfer \ {u} : rpc'[r] = rpc[r]
      /\ UNCHANGED <<fileList, wire, todo, broken, fault, rdir, rfile, rbuf, rdirCnt, lists, cnt>>
  BY DEF WriteFile, clientVars, recvVars, SendTypes
<1>2. /\ DOMAIN disk \subseteq DOMAIN disk'
      /\ \A p \in DOMAIN disk : p # DequeuePath(u) => disk'[p] = disk[p]
  <2>1. PICK x : disk' = IF linked[u] THEN [disk EXCEPT ![DequeuePath(u)] = x] ELSE disk
    BY DEF WriteFile
  <2> QED BY <2>1
<1>3. ASSUME NEW t \in Transfer PROVE \A O : Settled(t, O) => Settled(t, O)'
  BY <1>1, <1>2, SettledWrites
<1>4. PICK rest \in Seq(Item), Y \in Seq(Message) :
        Progress(u, rest) /\ Carries(u, Current(u) \o Y) /\ InSome(u, rest, Y)
  BY <1>1, FilePosition
<1>5. Carries(u, Current(u) \o Y)'
  <2>1. Current(u) = <<>> /\ Current(u)' = <<>>
    BY <1>1 DEF Current
  <2>2. Carries(u, <<>> \o Y)
    BY <1>4, <2>1
  <2>3. Line(u)' = Line(u)
    BY <1>1 DEF Line
  <2> DEFINE Z == <<>> \o Y
  <2>4. Carries(u, Z)'
    BY <1>1, <2>2, <2>3, CarriesSame
  <2> QED BY <2>1, <2>4
<1>6. Position(u)'
  BY <1>1, <1>3, <1>4, <1>5, FileKept
<1> QED BY <1>3, <1>6

\* The handler goes on with a list that is shorter by a finished entry.
LEMMA EntryDone ==
  ASSUME SendTypes, NEW t \in Transfer, NEW rest \in Seq(Item), Progress(t, rest), rest # <<>>,
         UNCHANGED fileList,
         \/ /\ Kind[Head(rest)] = "file"
            /\ lists'[t].files = Append(lists[t].files, Place(t, Head(rest), Files[Head(rest)][1]))
            /\ lists'[t].dirs = lists[t].dirs
            /\ cnt'[t] = cnt[t] + 1
         \/ /\ Kind[Head(rest)] = "dir"
            /\ lists'[t].dirs = Append(lists[t].dirs, Base(t, Head(rest)))
            /\ lists'[t].files = lists[t].files
            /\ cnt'[t] = cnt[t] + Len(Files[Head(rest)])
  PROVE  Progress(t, Tail(rest))'
<1> DEFINE i == Head(rest)
           r == Tail(rest)
           D == lists[t].dirs
           F == lists[t].files
<1>1. i \in Item /\ r \in Seq(Item) /\ Len(rest) = Len(r) + 1 /\ Len(r) \in Nat
  OBVIOUS
<1>2. D \in Seq(Path) /\ F \in Seq(Path) /\ cnt[t] \in Nat /\ fileList[t] \in Seq(Item) /\ Len(fileList[t]) \in Nat
  BY DEF SendTypes
<1>3. /\ DirPaths(t, r) \in Seq(Path) /\ FilePaths(t, r) \in Seq(Path) /\ SentFileCnt(r) \in Nat
      /\ SentFileCnt(rest) = Len(Files[i]) + SentFileCnt(r) /\ Len(Files[i]) \in Nat
  <2>1. Files[i] \in Seq(File)
    BY <1>1, ListAssumption
  <2>2. Len(Files[i]) \in Nat
    BY <2>1
  <2> QED BY <1>1, <2>2, DirPathsFacts, FilePathsFacts, CountFacts
<1>4. LandingsOf(t, r) \subseteq Landings(t)
  <2>1. LandingsOf(t, r) \subseteq LandingsOf(t, rest)
    BY LandingFacts
  <2> QED BY <2>1 DEF Progress
<1>5. /\ D \o DirPaths(t, rest) = DirPaths(t, fileList[t])
      /\ F \o FilePaths(t, rest) = FilePaths(t, fileList[t])
      /\ cnt[t] + SentFileCnt(rest) = SentFileCnt(fileList[t])
      /\ Len(D) + Len(F) + Len(rest) <= Len(fileList[t])
  BY DEF Progress
<1>6. ASSUME NEW A \in Seq(Path), NEW B \in Seq(Path), NEW p \in Path
      PROVE  Append(A, p) \o B = A \o (<<p>> \o B) /\ Len(Append(A, p)) = Len(A) + 1
  <2> DEFINE S == Path
  <2>1. A \in Seq(S) /\ B \in Seq(S) /\ p \in S
    OBVIOUS
  <2> HIDE DEF S
  <2> QED BY ONLY <2>1
<1>7. Len(D) \in Nat /\ Len(F) \in Nat
  BY <1>2
<1>8. CASE Kind[i] = "file"
  <2> DEFINE p == Place(t, i, Files[i][1])
  <2>1. p \in Path /\ Len(Files[i]) = 1
    <3>1. Files[i][1] \in File /\ Len(Files[i]) = 1
      BY <1>1, <1>8, ItemFacts, ListAssumption
    <3> QED BY <1>1, <3>1, PlaceFacts
  <2>2. lists'[t].files = Append(F, p) /\ lists'[t].dirs = D /\ cnt'[t] = cnt[t] + 1
    BY <1>8
  <2>3. DirPaths(t, rest) = DirPaths(t, r) /\ FilePaths(t, rest) = <<p>> \o FilePaths(t, r)
    BY <1>8, DirPathsFacts, FilePathsFacts
  <2> HIDE DEF p, D, F, i, r
  <2>4. Append(F, p) \o FilePaths(t, r) = FilePaths(t, fileList[t]) /\ Len(Append(F, p)) = Len(F) + 1
    <3> DEFINE B == FilePaths(t, r)
    <3>1. F \in Seq(Path) /\ B \in Seq(Path) /\ p \in Path
      BY <1>2, <1>3, <2>1
    <3>2. F \o (<<p>> \o B) = FilePaths(t, fileList[t])
      BY <1>5, <2>3
    <3> HIDE DEF B
    <3>3. Append(F, p) \o B = F \o (<<p>> \o B) /\ Len(Append(F, p)) = Len(F) + 1
      BY ONLY <1>6, <3>1
    <3> QED BY <3>2, <3>3 DEF B
  <2>5. (cnt[t] + 1) + SentFileCnt(r) = SentFileCnt(fileList[t])
    BY <1>2, <1>3, <1>5, <2>1
  <2>6. Len(D) + (Len(F) + 1) + Len(r) <= Len(fileList[t])
    BY <1>1, <1>2, <1>5, <1>7
  <2>7. Progress(t, r)'
    BY <1>4, <1>5, <2>2, <2>3, <2>4, <2>5, <2>6 DEF Progress, Landings
  <2> QED BY <2>7 DEF r
<1>9. CASE Kind[i] = "dir"
  <2> DEFINE p == Base(t, i)
  <2>1. p \in Path
    BY <1>1, BaseType
  <2>2. lists'[t].dirs = Append(D, p) /\ lists'[t].files = F /\ cnt'[t] = cnt[t] + Len(Files[i])
    BY <1>9
  <2>3. FilePaths(t, rest) = FilePaths(t, r) /\ DirPaths(t, rest) = <<p>> \o DirPaths(t, r)
    BY <1>9, DirPathsFacts, FilePathsFacts
  <2> HIDE DEF p, D, F, i, r
  <2>4. Append(D, p) \o DirPaths(t, r) = DirPaths(t, fileList[t]) /\ Len(Append(D, p)) = Len(D) + 1
    <3> DEFINE B == DirPaths(t, r)
    <3>1. D \in Seq(Path) /\ B \in Seq(Path) /\ p \in Path
      BY <1>2, <1>3, <2>1
    <3>2. D \o (<<p>> \o B) = DirPaths(t, fileList[t])
      BY <1>5, <2>3
    <3> HIDE DEF B
    <3>3. Append(D, p) \o B = D \o (<<p>> \o B) /\ Len(Append(D, p)) = Len(D) + 1
      BY ONLY <1>6, <3>1
    <3> QED BY <3>2, <3>3 DEF B
  <2>5. (cnt[t] + Len(Files[i])) + SentFileCnt(r) = SentFileCnt(fileList[t])
    BY <1>2, <1>3, <1>5
  <2>6. (Len(D) + 1) + Len(F) + Len(r) <= Len(fileList[t])
    BY <1>1, <1>2, <1>5, <1>7
  <2>7. Progress(t, r)'
    BY <1>4, <1>5, <2>2, <2>3, <2>4, <2>5, <2>6 DEF Progress, Landings
  <2> QED BY <2>7 DEF r
<1> QED BY <1>8, <1>9

\* The file that was found to be good is on the disk.
LEMMA SettledChecked ==
  ASSUME NEW u \in Transfer, NEW c \in Landings(u), IsCurrent(u, c), UNCHANGED <<fileList, disk>>,
         FilePath(u) \in DOMAIN disk, disk[FilePath(u)] = {rfile[u]},
         NEW O, Settled(u, {c} \cup O)
  PROVE  Settled(u, O)'
<1>1. \A q : OnDisk(q)' = OnDisk(q)
  BY DEF OnDisk
<1>2. OnDisk(c)
  BY DEF OnDisk, IsCurrent
<1>3. ASSUME Alone(u), NEW q \in Landings(u), UnderWay(u, q) PROVE OnDisk(q)
  <2>1. q.place = c.made
    BY <1>3 DEF UnderWay, IsCurrent
  <2>2. c.file = q.file /\ c.place = q.place
    BY <1>3, <2>1 DEF Alone
  <2> QED BY <1>2, <2>2 DEF OnDisk
<1> QED BY <1>1, <1>2, <1>3, AloneSame DEF Settled

\* The file has been checked: it is counted, or the handler leaves its loop.
LEMMA CheckStep ==
  ASSUME SendTypes, NEW u \in Transfer, Position(u), CheckFile(u)
  PROVE  Position(u)' /\ \A t \in Transfer \ {u} : \A O : Settled(t, O) => Settled(t, O)'
<1>1. /\ rpc[u] = "check" /\ UNCHANGED <<fileList, todo, wire, broken, fault>>
  BY DEF CheckFile, clientVars
<1>c. /\ rfile[u] \in File
      /\ \A rest \in Seq(Item) :
           /\ InFile(u, rest) => IsCurrent(u, Landing(u, Head(rest), rfile[u]))
           /\ \A fs : InDirFile(u, rest, fs) => IsCurrent(u, Landing(u, rdir[u], rfile[u]))
  BY <1>1, CurrentLanding
<1>2. CASE rpc'[u] \in Active
  <2>1. /\ FilePath(u) \in DOMAIN disk /\ disk[FilePath(u)] = {rfile[u]} /\ FileDone(u)
        /\ disk' = disk /\ \A t \in Transfer \ {u} : rpc'[t] = rpc[t] /\ rdir'[t] = rdir[t] /\ rfile'[t] = rfile[t]
    <3>1. ~Finish(u, "failed")
      BY <1>2 DEF Finish, Active, SendTypes
    <3>2. FilePath(u) \in DOMAIN disk /\ disk[FilePath(u)] = {rfile[u]} /\ FileDone(u) /\ disk' = disk
      BY <3>1 DEF CheckFile
    <3> QED BY <3>2 DEF FileDone, SendTypes
  <2>2. ASSUME NEW t \in Transfer \ {u} PROVE \A O : Settled(t, O) => Settled(t, O)'
    <3>1. \A q : OnDisk(q) => OnDisk(q)'
      BY <2>1 DEF OnDisk
    <3>2. UNCHANGED <<fileList, rpc[t], rdir[t], rfile[t]>>
      BY <1>1, <2>1, <2>2
    <3> QED BY <3>1, <3>2, SettledElse
  <2>3. PICK rest \in Seq(Item) : Progress(u, rest) /\ (InFile(u, rest) \/ \E fs \in Seq(File) : InDirFile(u, rest, fs))
    BY <1>1 DEF Position, Begins, AtTop, AtDir, Active
  <2> DEFINE i == Head(rest)
             l == Tail(rest)
             Y == ListMessages(l)
  <2>4. rest # <<>> /\ i \in Item /\ l \in Seq(Item) /\ Y \in Seq(Message) /\ i # NoItem
    <3>1. rest # <<>>
      BY <2>3 DEF InFile, InDirFile
    <3>2. i \in Item /\ l \in Seq(Item)
      BY <3>1
    <3> QED BY <3>1, <3>2, ListFacts, NoneAssumption
  <2>5. LandingsOf(u, rest) = LandingsIn(u, i, Files[i]) \cup LandingsOf(u, l)
    BY <2>4, LandingFacts DEF LandingsIn
  <2>6. Current(u) = <<>>
    BY <1>1 DEF Current
  <2>7. Line(u)' = Line(u)
    BY <1>1 DEF Line
  <2>8. \A X : Carries(u, X) => Carries(u, X)'
    BY <1>1, <2>7, CarriesSame
  <2>9. CASE InFile(u, rest)
    <3> DEFINE f == rfile[u]
               c == Landing(u, i, f)
    <3>1. rdir[u] = NoItem /\ Kind[i] = "file" /\ Files[i] = <<f>> /\ f \in File
      BY <1>c, <2>9 DEF InFile
    <3>2. Files[i][1] = f
      BY <3>1
    <3>3. IsCurrent(u, c)
      BY <1>c, <2>9
    <3>4. FilePath(u) = Place(u, i, f)
      BY <3>3 DEF IsCurrent, Landing
    <3>5. /\ lists'[u].files = Append(lists[u].files, FilePath(u)) /\ lists'[u].dirs = lists[u].dirs
          /\ cnt'[u] = cnt[u] + 1 /\ rpc'[u] = "top" /\ rdir'[u] = NoItem
      BY <2>1, <3>1 DEF FileDone, SendTypes
    <3>6. Progress(u, l)'
      BY <1>1, <2>3, <2>4, <3>1, <3>2, <3>4, <3>5, EntryDone
    <3>7. Carries(u, Y)'
      <4>1. Carries(u, Current(u) \o Y)
        BY <2>9 DEF InFile
      <4>2. <<>> \o Y = Y
        BY <2>4
      <4> HIDE DEF Y
      <4>3. Carries(u, Y)
        BY <2>6, <4>1, <4>2
      <4> QED BY <2>8, <4>3
    <3>8. Settled(u, LandingsOf(u, l))'
      <4>1. LandingsIn(u, i, Files[i]) = {c}
        <5>1. Range(Files[i]) = {f}
          <6>1. Files[i] \in Seq(File) /\ Files[i] # <<>> /\ Head(Files[i]) = f /\ Tail(Files[i]) = <<>>
            <7>1. Files[i] \in Seq(File) /\ Len(Files[i]) = 1
              BY <2>4, <3>1, ListAssumption
            <7> QED BY <3>2, <7>1, OneElement
          <6>2. Range(Files[i]) = {f} \cup Range(Tail(Files[i]))
            BY <6>1, RangeFacts
          <6>3. Tail(Files[i]) \in Seq(File)
            BY <6>1
          <6>4. Range(Tail(Files[i])) = {}
            BY <6>1, <6>3, RangeFacts
          <6> QED BY <6>2, <6>4
        <5> QED BY <5>1 DEF LandingsIn
      <4> DEFINE O == LandingsOf(u, l)
      <4>2. Settled(u, {c} \cup O)
        BY <2>5, <2>9, <4>1 DEF InFile
      <4>3. c \in Landings(u)
        BY <2>3, <2>5, <4>1 DEF Progress
      <4> HIDE DEF O, c
      <4>4. Settled(u, O)'
        BY <1>1, <2>1, <3>3, <4>2, <4>3, SettledChecked
      <4> QED BY <4>4 DEF O
    <3>9. AtTop(u, l)'
      BY <3>5, <3>7, <3>8 DEF AtTop
    <3>10. Position(u)'
      BY <2>4, <3>6, <3>9 DEF Position
    <3> QED BY <2>2, <3>10
  <2>10. CASE \E fs \in Seq(File) : InDirFile(u, rest, fs)
    <3>1. PICK fs \in Seq(File) : InDirFile(u, rest, fs)
      BY <2>10
    <3> DEFINE f == rfile[u]
               c == Landing(u, i, f)
    <3>2. rdir[u] = i /\ Kind[i] = "dir" /\ f \in Range(Files[i])
      BY <3>1 DEF InDirFile
    <3>3. IsCurrent(u, c)
      BY <1>c, <3>1, <3>2
    <3>4. /\ rdirCnt'[u] = rdirCnt[u] + 1 /\ rpc'[u] = "dir" /\ rdir'[u] = i /\ lists' = lists /\ cnt' = cnt
      BY <2>1, <2>4, <3>2 DEF FileDone, SendTypes
    <3>5. Progress(u, rest)'
      BY <1>1, <2>3, <3>4 DEF Progress, Landings
    <3>6. Carries(u, DirRest(i, fs) \o Y)'
      <4> DEFINE Z == DirRest(i, fs) \o Y
      <4>1. Z \in Seq(Message)
        BY <2>4, NextInDir
      <4>2. Carries(u, Current(u) \o Z)
        BY <3>1, <3>2 DEF InDirFile
      <4> HIDE DEF Z
      <4>3. <<>> \o Z = Z
        BY <4>1
      <4>4. Carries(u, Z)
        BY <2>6, <4>2, <4>3
      <4>5. Carries(u, Z)'
        BY <2>8, <4>4
      <4> QED BY <4>5 DEF Z
    <3>7. Settled(u, LandingsIn(u, i, fs) \cup LandingsOf(u, l))'
      <4> DEFINE O == LandingsIn(u, i, fs) \cup LandingsOf(u, l)
      <4>1. {c} \cup O = {c} \cup LandingsIn(u, i, fs) \cup LandingsOf(u, l)
        OBVIOUS
      <4>2. Settled(u, {c} \cup O)
        BY <3>1, <3>2, <4>1 DEF InDirFile
      <4>3. c \in Landings(u)
        <5>1. c \in LandingsIn(u, i, Files[i])
          BY <3>2 DEF LandingsIn
        <5> QED BY <2>3, <2>5, <5>1 DEF Progress
      <4> HIDE DEF O, c
      <4>4. Settled(u, O)'
        BY <1>1, <2>1, <3>3, <4>2, <4>3, SettledChecked
      <4> QED BY <4>4 DEF O
    <3>8. Range(fs) \subseteq Range(Files[i]) /\ rdirCnt'[u] + Len(fs) = Len(Files[i])
      <4>1. rdirCnt[u] \in Nat /\ Len(fs) \in Nat
        BY DEF SendTypes
      <4>2. rdirCnt[u] + 1 + Len(fs) = Len(Files[i]) /\ Range(fs) \subseteq Range(Files[i])
        BY <3>1, <3>2 DEF InDirFile
      <4> QED BY <3>4, <4>1, <4>2
    <3>9. AtDir(u, rest, fs)'
      BY <2>4, <3>2, <3>4, <3>6, <3>7, <3>8 DEF AtDir
    <3>10. Position(u)'
      BY <3>5, <3>9 DEF Position
    <3> QED BY <2>2, <3>10
  <2> QED BY <2>3, <2>9, <2>10
<1>3. CASE rpc'[u] \notin Active
  <2>1. /\ UNCHANGED <<rdir, rfile>>
        /\ \A t \in Transfer \ {u} : rpc'[t] = rpc[t]
        /\ \A p \in DOMAIN disk : p # FilePath(u) => p \in DOMAIN disk' /\ disk'[p] = disk[p]
    <3>1. ~FileDone(u)
      BY <1>3 DEF FileDone, Active, SendTypes
    <3>2. Finish(u, "failed") /\ UNCHANGED recvVars
      BY <3>1 DEF CheckFile
    <3>3. disk' = disk \/ disk' = Restrict(disk, DOMAIN disk \ {FilePath(u)})
      BY <3>1 DEF CheckFile, RemoveFile
    <3>4. \A p \in DOMAIN disk : p # FilePath(u) => p \in DOMAIN disk' /\ disk'[p] = disk[p]
      BY <3>3 DEF Restrict
    <3> QED BY <3>2, <3>4 DEF Finish, recvVars, SendTypes
  <2>2. ASSUME NEW t \in Transfer \ {u} PROVE \A O : Settled(t, O) => Settled(t, O)'
    <3>1. PICK c \in Landings(u) : IsCurrent(u, c)
      BY <1>1, CurrentLanding
    <3>2. ASSUME Alone(t), NEW q \in Landings(t), OnDisk(q) PROVE OnDisk(q)'
      <4>1. q.place # FilePath(u)
        BY <2>2, <3>1, <3>2 DEF Alone, IsCurrent
      <4> QED BY <2>1, <3>2, <4>1 DEF OnDisk
    <3>3. UNCHANGED <<fileList, rpc[t], rdir[t], rfile[t]>>
      BY <1>1, <2>1, <2>2
    <3> QED BY <3>2, <3>3, SettledElse
  <2> QED BY <1>3, <2>2, LeavesLoop
<1> QED BY <1>2, <1>3

\* The directory is complete.
LEMMA EndDirStep ==
  ASSUME SendTypes, NEW u \in Transfer, Position(u), EndOfSendingDir(u)
  PROVE  Position(u)'
<1>1. /\ rpc[u] = "dir" /\ rpc'[u] = "top" /\ rdir'[u] = NoItem /\ Takes(u) /\ Head(wire[u]).code = "endDir"
      /\ lists'[u].dirs = Append(lists[u].dirs, OutputDirPath(u)) /\ lists'[u].files = lists[u].files
      /\ cnt'[u] = cnt[u] + rdirCnt[u] /\ UNCHANGED <<fileList, disk>>
  BY DEF EndOfSendingDir, SendTypes, Recv, Takes, clientVars, diskVars
<1>2. PICK rest \in Seq(Item) : Progress(u, rest) /\ \E fs \in Seq(File) : AtDir(u, rest, fs)
  BY <1>1 DEF Position, Begins, AtTop, InFile, InDirFile, Active
<1>3. PICK fs \in Seq(File) : AtDir(u, rest, fs)
  BY <1>2
<1> DEFINE i == Head(rest)
           l == Tail(rest)
           Y == ListMessages(l)
<1>4. rest # <<>> /\ Kind[i] = "dir" /\ rdir[u] = i /\ i \in Item /\ l \in Seq(Item) /\ Y \in Seq(Message)
  <2>1. rest # <<>> /\ Kind[i] = "dir" /\ rdir[u] = i
    BY <1>3 DEF AtDir
  <2>2. i \in Item /\ l \in Seq(Item)
    BY <2>1
  <2> QED BY <2>1, <2>2, ListFacts
<1>5. Carries(u, DirRest(i, fs) \o Y)
  BY <1>3, <1>4 DEF AtDir
<1>6. fs = <<>>
  <2> SUFFICES ASSUME fs # <<>> PROVE FALSE
    OBVIOUS
  <2> DEFINE f == Head(fs)
             h == Msg("fileInfo", f)
             Z == DirRest(i, Tail(fs)) \o Y
             X == FileRest(f, 0) \o Z
  <2>1. f \in File /\ Tail(fs) \in Seq(File)
    OBVIOUS
  <2>2. h \in Message /\ h.code = "fileInfo"
    BY <2>1, MsgType DEF Codes
  <2>3. Carries(u, <<h>> \o X)
    <3> HIDE DEF i, Y
    <3> QED BY <1>4, <1>5, NextInDir
  <2>4. X \in Seq(Message)
    <3>1. Z \in Seq(Message)
      BY <1>4, <2>1, NextInDir
    <3> HIDE DEF Z
    <3> QED BY <2>1, <3>1, NextInFile
  <2> HIDE DEF h, X
  <2>5. Head(wire[u]) = h
    BY <1>1, <2>2, <2>3, <2>4, TakesNext
  <2> QED BY <1>1, <2>2, <2>5
<1>7. Carries(u, Y)'
  <2> DEFINE h == Msg("endDir", i)
  <2>1. h \in Message /\ h.code # "cont"
    BY <1>4, MsgType DEF Codes
  <2>2. Carries(u, <<h>> \o Y)
    <3> HIDE DEF i, Y
    <3> QED BY <1>4, <1>5, <1>6, NextInDir
  <2> HIDE DEF h, Y
  <2> QED BY <1>1, <1>4, <2>1, <2>2, TakesNext
<1>8. OutputDirPath(u) = Base(u, i)
  BY <1>4, NoneAssumption DEF OutputDirPath, Base
<1>9. rdirCnt[u] = Len(Files[i])
  <2>1. rdirCnt[u] + Len(fs) = Len(Files[i]) /\ rdirCnt[u] \in Nat
    BY <1>3, <1>4 DEF AtDir, SendTypes
  <2>2. Len(fs) = 0
    BY <1>6
  <2> QED BY <2>1, <2>2
<1>10. Progress(u, l)'
  BY <1>1, <1>2, <1>4, <1>8, <1>9, EntryDone
<1>11. Settled(u, LandingsOf(u, l))'
  <2>1. LandingsIn(u, i, fs) = {}
    <3>1. Range(fs) = {}
      BY <1>6, RangeFacts
    <3> QED BY <3>1 DEF LandingsIn
  <2>2. Settled(u, LandingsOf(u, l))
    BY <1>3, <1>4, <2>1 DEF AtDir
  <2> QED BY <1>1, <2>2, SettledStays
<1>12. AtTop(u, l)'
  BY <1>1, <1>7, <1>11 DEF AtTop
<1> QED BY <1>4, <1>10, <1>12 DEF Position

\* Between entries the handler is where the lists and the count lack the entries to come.
LEMMA TopKnows ==
  ASSUME SendTypes, NEW u \in Transfer, NEW rest \in Seq(Item), Progress(u, rest), AtTop(u, rest)
  PROVE  /\ rest = <<>> => /\ lists[u].dirs = DirPaths(u, fileList[u])
                           /\ lists[u].files = FilePaths(u, fileList[u])
                           /\ cnt[u] = SentFileCnt(fileList[u])
                           /\ Settled(u, {})
         /\ rest # <<>> => Len(lists[u].dirs) + Len(lists[u].files) # Len(fileList[u])
<1>1. /\ lists[u].dirs \in Seq(Path) /\ lists[u].files \in Seq(Path) /\ cnt[u] \in Nat /\ Len(rest) \in Nat
      /\ Len(fileList[u]) \in Nat
  BY DEF SendTypes
<1>2. CASE rest = <<>>
  <2>1. DirPaths(u, rest) = <<>> /\ FilePaths(u, rest) = <<>> /\ SentFileCnt(rest) = 0 /\ LandingsOf(u, rest) = {}
    BY <1>2, DirPathsFacts, FilePathsFacts, CountFacts, LandingFacts
  <2>2. /\ lists[u].dirs \o <<>> = DirPaths(u, fileList[u])
        /\ lists[u].files \o <<>> = FilePaths(u, fileList[u])
        /\ cnt[u] + 0 = SentFileCnt(fileList[u])
    BY <2>1 DEF Progress
  <2>3. Settled(u, {})
    BY <2>1 DEF AtTop
  <2>4. \A a \in Seq(Path) : a \o <<>> = a
    <3> DEFINE S == Path
    <3> HIDE DEF S
    <3>1. \A a \in Seq(S) : a \o <<>> = a
      OBVIOUS
    <3> QED BY <3>1 DEF S
  <2>5. cnt[u] + 0 = cnt[u]
    BY <1>1
  <2> QED BY <1>1, <1>2, <2>2, <2>3, <2>4, <2>5
<1>3. CASE rest # <<>>
  <2>1. Len(rest) # 0
    BY <1>3
  <2>2. Len(lists[u].dirs) + Len(lists[u].files) + Len(rest) <= Len(fileList[u])
    BY DEF Progress
  <2>3. Len(lists[u].dirs) \in Nat /\ Len(lists[u].files) \in Nat
    BY <1>1
  <2>4. ASSUME NEW a \in Nat, NEW b \in Nat, NEW m \in Nat, NEW n \in Nat, m # 0, a + b + m <= n PROVE a + b # n
    BY <2>4
  <2>5. Len(lists[u].dirs) + Len(lists[u].files) # Len(fileList[u])
    BY ONLY <1>1, <2>1, <2>2, <2>3, <2>4
  <2> QED BY <1>3, <2>5
<1> QED BY <1>2, <1>3

\* OK at the end of the stream: nothing was to come, so everything is there.
LEMMA EOSStep ==
  ASSUME SendTypes, NEW u \in Transfer, Position(u), ReceiveEOS(u)
  PROVE  Position(u)' /\ Ended(u)' /\ (~fault[u] => result'[u] = "ok")
<1>1. /\ rpc[u] = "top" /\ rpc'[u] = "handover" /\ Takes(u) /\ Head(wire[u]).code = "eos"
      /\ result'[u] = IF Head(wire[u]).arg = cnt[u] THEN "ok" ELSE "failed"
      /\ UNCHANGED <<fileList, lists, cnt, disk>>
  BY DEF ReceiveEOS, Finish, SendTypes, Recv, Takes, clientVars, recvVars, diskVars
<1>2. PICK rest \in Seq(Item) :
        Progress(u, rest) /\ AtTop(u, rest) /\ (rest = <<>> \/ Kind[Head(rest)] \in {"file", "dir"})
  BY <1>1, TopNormal
<1>3. rest = <<>> /\ Head(wire[u]) = EOS(u)
  <2>1. Msg("fileInfo", Files[Head(rest)][1]).code = "fileInfo" /\ Msg("dirInfo", Head(rest)).code = "dirInfo"
    BY DEF Msg
  <2> QED BY <1>1, <1>2, <2>1, TopTakes
<1>4. /\ lists[u].dirs = DirPaths(u, fileList[u]) /\ lists[u].files = FilePaths(u, fileList[u])
      /\ cnt[u] = SentFileCnt(fileList[u]) /\ Settled(u, {})
  BY <1>2, <1>3, TopKnows
<1>5. Settled(u, {})'
  BY <1>1, <1>4, SettledStays
<1>6. EOS(u).arg = SentFileCnt(fileList[u])
  BY LineTypes
<1>7. result'[u] = "ok"
  BY <1>1, <1>3, <1>4, <1>6
<1>8. rpc'[u] \notin Active
  BY <1>1 DEF Active
<1> QED BY <1>1, <1>4, <1>5, <1>7, <1>8, LeavesLoop DEF Ended

\* Without a fault nothing comes but what is to come, and it does come.
LEMMA NoFault ==
  ASSUME SendTypes, NEW t \in Transfer, NEW X \in Seq(Message), Carries(t, X), ~fault[t]
  PROVE  /\ \A h \in Message, Y \in Seq(Message) : X = <<h>> \o Y /\ wire[t] # <<>> => Head(wire[t]) = h
         /\ Sending(t) => ~RecvError(t)
<1>1. Line(t) = Append(X, EOS(t)) /\ EOS(t) \in Message
  BY LineTypes DEF Carries, Exactly
<1>2. ASSUME NEW h \in Message, NEW Y \in Seq(Message), X = <<h>> \o Y, wire[t] # <<>> PROVE Head(wire[t]) = h
  <2>1. Head(Line(t)) = Head(wire[t])
    BY <1>2, WireOfLine
  <2>2. Head(Append(<<h>> \o Y, EOS(t))) = h
    <3> DEFINE S == Message
               e == EOS(t)
    <3>1. h \in S /\ Y \in Seq(S) /\ e \in S
      BY <1>1
    <3> HIDE DEF S, e
    <3>2. Head(Append(<<h>> \o Y, e)) = h
      BY ONLY <3>1
    <3> QED BY <3>2 DEF e
  <2> QED BY <1>1, <1>2, <2>1, <2>2
<1>3. Sending(t) => ~RecvError(t)
  <2> SUFFICES ASSUME Sending(t), RecvError(t) PROVE FALSE
    OBVIOUS
  <2>1. wire[t] = <<>> /\ ~broken[t] /\ todo[t] = <<>>
    BY DEF Sending, RecvError
  <2>2. Line(t) = <<>>
    BY <2>1 DEF Line
  <2>3. \A e : Len(Append(X, e)) = Len(X) + 1 /\ Len(X) \in Nat
    OBVIOUS
  <2>4. Len(Append(X, EOS(t))) # 0
    BY <2>3
  <2> QED BY <1>1, <2>2, <2>4
<1> QED BY <1>2, <1>3

\* Any other code ends the transfer while entries are to come, so it fails.
LEMMA OtherStep ==
  ASSUME SendTypes, NEW u \in Transfer, Position(u), ReceiveOther(u)
  PROVE  Position(u)' /\ Ended(u)' /\ fault[u]
<1>1. /\ rpc[u] = "top" /\ rpc'[u] = "handover" /\ wire[u] # <<>>
      /\ Head(wire[u]).code \in {"cont", "changed", "eof", "endDir", "failed", "kanban"}
      /\ result'[u] = IF Len(lists[u].dirs) + Len(lists[u].files) = Len(fileList[u]) THEN "ok" ELSE "failed"
      /\ wire' = [wire EXCEPT ![u] = Tail(@)] /\ UNCHANGED <<fileList, todo, broken, fault>>
  BY DEF ReceiveOther, Finish, SendTypes, Recv, clientVars
<1>2. PICK rest \in Seq(Item) :
        Progress(u, rest) /\ AtTop(u, rest) /\ (rest = <<>> \/ Kind[Head(rest)] \in {"file", "dir"})
  BY <1>1, TopNormal
<1>3. Head(wire[u]).code = "failed"
  <2> SUFFICES ASSUME Head(wire[u]).code # "failed" PROVE FALSE
    OBVIOUS
  <2>1. Takes(u)
    BY <1>1 DEF Takes
  <2>2. EOS(u).code = "eos"
    BY LineTypes
  <2>3. Msg("fileInfo", Files[Head(rest)][1]).code = "fileInfo" /\ Msg("dirInfo", Head(rest)).code = "dirInfo"
    BY DEF Msg
  <2> QED BY <1>1, <1>2, <2>1, <2>2, <2>3, TopTakes
<1>4. rest # <<>>
  <2> SUFFICES ASSUME rest = <<>> PROVE FALSE
    OBVIOUS
  <2>1. Carries(u, <<>>)
    BY <1>2, ListFacts DEF AtTop
  <2>2. Head(wire[u]) = EOS(u)
    BY <1>1, <2>1, ReceivesEnd
  <2> QED BY <1>3, <2>2, LineTypes
<1>5. result'[u] = "failed"
  BY <1>1, <1>2, <1>4, TopKnows
<1>6. rpc'[u] \notin Active
  BY <1>1 DEF Active
<1>7. fault[u]
  <2> SUFFICES ASSUME ~fault[u] PROVE FALSE
    OBVIOUS
  <2> DEFINE i == Head(rest)
             l == Tail(rest)
             f == Files[i][1]
  <2>1. i \in Item /\ l \in Seq(Item) /\ Files[i] \in Seq(File) /\ ListMessages(l) \in Seq(Message)
    <3>1. i \in Item /\ l \in Seq(Item)
      BY <1>4
    <3> QED BY <3>1, ListAssumption, ListFacts
  <2>2. Carries(u, ListMessages(rest)) /\ ListMessages(rest) \in Seq(Message)
    BY <1>2, ListFacts DEF AtTop
  <2>3. PICK h \in Message, Y \in Seq(Message) : h.code # "failed" /\ ListMessages(rest) = <<h>> \o Y
    <3>1. CASE Kind[i] = "file"
      <4>1. f \in File
        BY <2>1, <3>1, ItemFacts
      <4>2. Msg("fileInfo", f) \in Message /\ Msg("fileInfo", f).code = "fileInfo"
        BY <4>1, MsgType DEF Codes
      <4>3. FileRest(f, 0) \o ListMessages(l) \in Seq(Message)
        BY <2>1, <4>1, NextInFile
      <4>4. ListMessages(rest) = <<Msg("fileInfo", f)>> \o (FileRest(f, 0) \o ListMessages(l))
        BY <1>4, <3>1, NextAtTop
      <4> QED BY <4>2, <4>3, <4>4
    <3>2. CASE Kind[i] = "dir"
      <4>1. Msg("dirInfo", i) \in Message /\ Msg("dirInfo", i).code = "dirInfo"
        BY <2>1, MsgType DEF Codes
      <4>2. DirRest(i, Files[i]) \o ListMessages(l) \in Seq(Message)
        BY <2>1, NextInDir
      <4>3. ListMessages(rest) = <<Msg("dirInfo", i)>> \o (DirRest(i, Files[i]) \o ListMessages(l))
        BY <1>4, <3>2, NextAtTop
      <4> QED BY <4>1, <4>2, <4>3
    <3> QED BY <1>2, <1>4, <3>1, <3>2
  <2> QED BY <1>1, <1>3, <2>2, <2>3, NoFault
<1> QED BY <1>1, <1>5, <1>6, <1>7, LeavesLoop DEF Ended

-----------------------------------------------------------------------------
(* The steps of the client and of the stream *)

\* What the client sends next is in flight.
LEMMA SendStep ==
  ASSUME SendTypes, NEW t \in Transfer, Sending(t), Send(t)
  PROVE  /\ Line(t)' = Line(t) /\ Sending(t)'
         /\ wire'[t] \in Seq(Message) /\ todo'[t] \in Seq(Message) /\ Len(wire'[t]) <= MaxWire
<1> DEFINE S == Message
           w == wire[t]
           d == todo[t]
<1>1. w \in Seq(S) /\ d \in Seq(S) /\ d # <<>> /\ Len(w) < MaxWire /\ ~broken[t] /\ broken' = broken /\ fault' = fault
  BY DEF SendTypes, Send, Sending, SendFails
<1>2. /\ wire'[t] = Append(w, Head(d)) /\ todo'[t] = Tail(d)
      /\ spc'[t] = IF Len(d) = 1 THEN "closing" ELSE spc[t]
      /\ spc[t] = "sending"
  BY DEF SendTypes, Send
<1> HIDE DEF S, w, d
<1>3. /\ Append(w, Head(d)) \o Tail(d) = w \o d
      /\ Append(w, Head(d)) \in Seq(S) /\ Tail(d) \in Seq(S) /\ Len(Append(w, Head(d))) = Len(w) + 1
      /\ Tail(d) # <<>> <=> Len(d) # 1
  <2>1. Head(d) \in S /\ Tail(d) \in Seq(S) /\ d = <<Head(d)>> \o Tail(d) /\ Len(d) = Len(Tail(d)) + 1
    BY ONLY <1>1
  <2> DEFINE h == Head(d)
             r == Tail(d)
  <2>2. h \in S /\ r \in Seq(S) /\ d = <<h>> \o r
    BY <2>1
  <2> HIDE DEF h, r
  <2>3. Append(w, h) \o r = w \o (<<h>> \o r) /\ Append(w, h) \in Seq(S) /\ Len(Append(w, h)) = Len(w) + 1
    BY ONLY <1>1, <2>2
  <2>4. Append(w, h) \o r = w \o d /\ Append(w, h) \in Seq(S) /\ Len(Append(w, h)) = Len(w) + 1
    BY ONLY <2>2, <2>3
  <2>5. r # <<>> <=> Len(d) # 1
    <3>1. Len(d) = Len(r) + 1
      BY <2>1 DEF r
    <3> QED BY ONLY <2>2, <3>1
  <2> QED BY <2>1, <2>4, <2>5 DEF h, r
<1>4. Line(t)' = Line(t)
  BY <1>1, <1>2, <1>3 DEF Line, w, d
<1>5. Sending(t)'
  BY <1>1, <1>2, <1>3 DEF Sending, d
<1>6. Len(Append(w, Head(d))) <= MaxWire
  <2>1. Len(w) \in Nat /\ MaxWire \in Nat
    BY <1>1, WireAssumption
  <2> QED BY <1>1, <1>3, <2>1
<1> QED BY <1>2, <1>3, <1>4, <1>5, <1>6 DEF S

\* A file could not be read.
LEMMA ReadFailsStep ==
  ASSUME SendTypes, NEW t \in Transfer, Sending(t), ReadFails(t)
  PROVE  /\ Sending(t)' /\ todo'[t] \in Seq(Message)
         /\ \A X \in Seq(Message) : Carries(t, X) => Carries(t, X)'
<1> DEFINE w == wire[t]
           d == todo[t]
           n == <<Msg("failed", t), Msg("eos", -1)>>
<1>1. /\ w \in Seq(Message) /\ d \in Seq(Message) /\ d # <<>> /\ Head(d).code \notin {"failed", "eos"}
      /\ spc[t] = "sending" /\ UNCHANGED <<spc, broken, wire, fileList>> /\ fault'[t] = TRUE
      /\ broken[t] \in BOOLEAN
  BY DEF SendTypes, ReadFails, Sending
<1>2. todo'[t] = n
  BY DEF SendTypes, ReadFails
<1>3. n \in Seq(Message) /\ n # <<>> /\ Head(n).code = "failed"
  <2>1. Msg("failed", t) \in Message /\ Msg("failed", t).code = "failed" /\ Msg("eos", -1) \in Message
    BY MsgType DEF Codes
  <2> DEFINE a == Msg("failed", t)
             b == Msg("eos", -1)
  <2> HIDE DEF a, b
  <2> QED BY <2>1 DEF a, b
<1> HIDE DEF n
<1>4. ASSUME NEW X \in Seq(Message), Carries(t, X) PROVE Carries(t, X)'
  <2>1. EOS(t) \in Message /\ EOS(t).code = "eos" /\ EOS(t)' = EOS(t)
    <3>1. EOS(t)' = EOS(t)
      BY <1>1 DEF EOS
    <3> QED BY <3>1, LineTypes
  <2>2. Follows(Line(t), X, EOS(t))
    BY <1>4 DEF Carries
  <2>3. CASE broken[t]
    <3>1. Line(t)' = Line(t)
      BY <1>1, <2>3 DEF Line
    <3> QED BY <1>1, <2>1, <2>2, <3>1 DEF Carries
  <2>4. CASE ~broken[t]
    <3>1. Line(t) = w \o d /\ Line(t)' = w \o n
      BY <1>1, <1>2, <2>4 DEF Line
    <3> DEFINE e == EOS(t)
    <3>2. Follows(w \o d, X, e) /\ e \in Message /\ e.code = "eos"
      BY <2>1, <2>2, <3>1
    <3> HIDE DEF w, d, e
    <3>3. Follows(w \o n, X, e)
      BY <1>1, <1>3, <3>2, FollowsFails
    <3> QED BY <1>1, <2>1, <3>1, <3>3 DEF Carries, e
  <2> QED BY <2>3, <2>4
<1>5. Sending(t)'
  BY <1>1, <1>2, <1>3 DEF Sending
<1> QED BY <1>2, <1>3, <1>4, <1>5

\* A file was changed after its hash was taken.
LEMMA FileChangesStep ==
  ASSUME SendTypes, NEW t \in Transfer, Sending(t), FileChanges(t)
  PROVE  /\ Sending(t)' /\ todo'[t] \in Seq(Message)
         /\ \A X \in Seq(Message) : Carries(t, X) => Carries(t, X)'
<1> DEFINE w == wire[t]
           d == todo[t]
           n == <<[Head(d) EXCEPT !.code = "changed"]>> \o Tail(d)
<1>1. /\ w \in Seq(Message) /\ d \in Seq(Message) /\ d # <<>> /\ Head(d).code = "cont"
      /\ spc[t] = "sending" /\ UNCHANGED <<spc, broken, wire, fileList>> /\ fault'[t] = TRUE
      /\ broken[t] \in BOOLEAN
  BY DEF SendTypes, FileChanges, Sending
<1>2. todo'[t] = n
  BY DEF SendTypes, FileChanges
<1>3. n \in Seq(Message) /\ n # <<>>
  <2> DEFINE h == [Head(d) EXCEPT !.code = "changed"]
             S == Message
  <2>1. Head(d) \in Message /\ Tail(d) \in Seq(Message)
    BY <1>1
  <2>2. h \in S /\ Tail(d) \in Seq(S)
    BY <2>1 DEF Message, Codes
  <2> HIDE DEF h, S
  <2> QED BY <2>2, OneMore DEF S, h
<1>4. ASSUME NEW X \in Seq(Message), Carries(t, X) PROVE Carries(t, X)'
  <2>1. EOS(t) \in Message /\ EOS(t)' = EOS(t)
    <3>1. EOS(t)' = EOS(t)
      BY <1>1 DEF EOS
    <3> QED BY <3>1, LineTypes
  <2>2. Follows(Line(t), X, EOS(t))
    BY <1>4 DEF Carries
  <2>3. CASE broken[t]
    <3>1. Line(t)' = Line(t)
      BY <1>1, <2>3 DEF Line
    <3> QED BY <1>1, <2>1, <2>2, <3>1 DEF Carries
  <2>4. CASE ~broken[t]
    <3>1. Line(t) = w \o d /\ Line(t)' = w \o n
      BY <1>1, <1>2, <2>4 DEF Line
    <3> DEFINE e == EOS(t)
    <3>2. Follows(w \o d, X, e) /\ e \in Message
      BY <2>1, <2>2, <3>1
    <3> HIDE DEF w, d, e
    <3>3. Follows(w \o n, X, e)
      BY <1>1, <3>2, FollowsChanges
    <3> QED BY <1>1, <2>1, <3>1, <3>3 DEF Carries, e
  <2> QED BY <2>3, <2>4
<1>5. Sending(t)'
  BY <1>1, <1>2, <1>3 DEF Sending
<1> QED BY <1>2, <1>3, <1>4, <1>5

\* The stream breaks: a part of what was in flight may still come.
LEMMA BreakStep ==
  ASSUME SendTypes, NEW t \in Transfer, Sending(t), StreamBreaks(t)
  PROVE  /\ Sending(t)' /\ wire'[t] \in Seq(Message) /\ Len(wire'[t]) <= MaxWire
         /\ \A X \in Seq(Message) : Carries(t, X) => Carries(t, X)'
<1> DEFINE w == wire[t]
           d == todo[t]
<1>1. /\ w \in Seq(Message) /\ d \in Seq(Message) /\ Len(w) <= MaxWire /\ ~broken[t]
      /\ UNCHANGED <<spc, todo, fileList>> /\ fault'[t] = TRUE /\ broken'[t] = TRUE
  BY DEF SendTypes, StreamBreaks, clientVars
<1>2. PICK n \in 0..Len(w) : wire'[t] = SubSeq(w, 1, n)
  BY DEF SendTypes, StreamBreaks
<1> DEFINE p == SubSeq(w, 1, n)
<1>3. p \in Seq(Message) /\ Len(p) = n /\ n <= Len(w) /\ \A k \in 1..Len(p) : p[k] = w[k]
  <2> DEFINE S == Message
  <2>1. w \in Seq(S) /\ n \in 0..Len(w)
    BY <1>1, <1>2
  <2> HIDE DEF S, w
  <2> QED BY <2>1 DEF S
<1> HIDE DEF p
<1>4. ASSUME NEW X \in Seq(Message), Carries(t, X) PROVE Carries(t, X)'
  <2>1. EOS(t) \in Message /\ EOS(t)' = EOS(t)
    <3>1. EOS(t)' = EOS(t)
      BY <1>1 DEF EOS
    <3> QED BY <3>1, LineTypes
  <2>2. Follows(w \o d, X, EOS(t)) /\ Line(t)' = p
    BY <1>1, <1>2, <1>4 DEF Carries, Line, p
  <2>3. w \o d \in Seq(Message) /\ Len(p) <= Len(w \o d) /\ \A k \in 1..Len(p) : p[k] = (w \o d)[k]
    <3> DEFINE S == Message
    <3>1. w \in Seq(S) /\ d \in Seq(S)
      BY <1>1
    <3> HIDE DEF S, w, d
    <3>2. w \o d \in Seq(S) /\ Len(w \o d) = Len(w) + Len(d) /\ \A k \in 1..Len(w) : (w \o d)[k] = w[k]
      BY ONLY <3>1
    <3>3. Len(w) \in Nat /\ Len(d) \in Nat
      BY <3>1
    <3> QED BY <1>3, <3>2, <3>3 DEF S
  <2> DEFINE e == EOS(t)
             v == w \o d
  <2>4. Follows(v, X, e) /\ e \in Message /\ v \in Seq(Message) /\ Len(p) <= Len(v) /\ \A k \in 1..Len(p) : p[k] = v[k]
    BY <2>1, <2>2, <2>3
  <2> HIDE DEF e, v
  <2>5. Follows(p, X, e)
    BY <1>3, <2>4, FollowsCut
  <2> QED BY <1>1, <2>1, <2>2, <2>5 DEF Carries, e
<1>5. Sending(t)'
  BY <1>1 DEF Sending
<1>6. Len(p) <= MaxWire
  <2>1. Len(w) \in Nat /\ MaxWire \in Nat /\ n \in Nat
    BY <1>1, WireAssumption
  <2> QED BY <1>1, <1>3, <2>1
<1> QED BY <1>2, <1>3, <1>4, <1>5, <1>6 DEF p

-----------------------------------------------------------------------------
(* A step of one transfer, seen from all of them *)

\* A transfer of which nothing moves but the disk.
Quiet(t) ==
  /\ UNCHANGED <<spc[t], todo[t], wire[t], broken[t], fault[t], rpc[t], result[t]>>
  /\ UNCHANGED <<rdir[t], rfile[t], rbuf[t], rgood[t], rdirCnt[t], lists[t], cnt[t]>>

\* A step of a transfer is one of its own.
LEMMA OthersQuiet ==
  ASSUME SendTypes, NEW u \in Transfer, Client(u) \/ Handler(u) \/ Faults(u), NEW t \in Transfer \ {u}
  PROVE  Quiet(t) /\ UNCHANGED fileList
<1>1. CASE Client(u)
  BY <1>1 DEF Client, Send, SendGivesUp, CloseAndRecv, Quiet, SendTypes, recvVars
<1>2. CASE Faults(u)
  BY <1>2 DEF Faults, ReadFails, FileChanges, StreamBreaks, Quiet, SendTypes, recvVars, clientVars
<1>3. CASE Handler(u)
  <2>1. CASE NoKanban(u)
    BY <2>1 DEF NoKanban, Quiet, SendTypes, recvVars, clientVars
  <2>2. CASE ReceiveSendingKanban(u)
    BY <2>2 DEF ReceiveSendingKanban, Recv, Quiet, SendTypes, recvVars, clientVars
  <2>3. CASE ReceiveFileInfo(u)
    BY <2>3 DEF ReceiveFileInfo, Recv, Quiet, SendTypes, clientVars
  <2>4. CASE ReceiveDirInfo(u)
    BY <2>4 DEF ReceiveDirInfo, Recv, Quiet, SendTypes, clientVars
  <2>5. CASE ReceiveFileCont(u)
    BY <2>5 DEF ReceiveFileCont, Recv, Finish, Quiet, SendTypes, clientVars
  <2>6. CASE ReceiveEOF(u)
    BY <2>6 DEF ReceiveEOF, Recv, Finish, Quiet, SendTypes, recvVars, clientVars
  <2>7. CASE WriteFile(u)
    BY <2>7 DEF WriteFile, Quiet, SendTypes, recvVars, clientVars
  <2>8. CASE CheckFile(u)
    BY <2>8 DEF CheckFile, FileDone, Finish, Quiet, SendTypes, recvVars, clientVars
  <2>9. CASE EndOfSendingDir(u)
    BY <2>9 DEF EndOfSendingDir, Recv, Quiet, SendTypes, clientVars
  <2>10. CASE ReceiveEOS(u)
    BY <2>10 DEF ReceiveEOS, Recv, Finish, Quiet, SendTypes, recvVars, clientVars
  <2>11. CASE ReceiveOther(u)
    BY <2>11 DEF ReceiveOther, Recv, Finish, Quiet, SendTypes, recvVars, clientVars
  <2>12. CASE ReceiveFails(u)
    BY <2>12 DEF ReceiveFails, Recv, Finish, Quiet, SendTypes, recvVars, clientVars
  <2>13. CASE HandOver(u)
    BY <2>13 DEF HandOver, Quiet, SendTypes, recvVars, clientVars
  <2>14. CASE Answer(u)
    BY <2>14 DEF Answer, Quiet, SendTypes, recvVars, clientVars
  <2> QED BY <1>3, <2>1, <2>2, <2>3, <2>4, <2>5, <2>6, <2>7, <2>8, <2>9, <2>10, <2>11, <2>12, <2>13, <2>14 DEF Handler
<1> QED BY <1>1, <1>2, <1>3

\* What is settled for the others stays so.
LEMMA OthersSettled ==
  ASSUME SendTypes, NEW u \in Transfer, Position(u), Client(u) \/ Handler(u) \/ Faults(u),
         NEW t \in Transfer \ {u}
  PROVE  \A O : Settled(t, O) => Settled(t, O)'
<1>1. Quiet(t) /\ UNCHANGED fileList
  BY OthersQuiet
<1>2. CASE UNCHANGED disk
  <2>1. \A q : OnDisk(q) => OnDisk(q)'
    BY <1>2 DEF OnDisk
  <2>2. UNCHANGED <<fileList, rpc[t], rdir[t], rfile[t]>>
    BY <1>1 DEF Quiet
  <2> QED BY <2>1, <2>2, SettledElse
<1>3. CASE ReceiveEOF(u)
  BY <1>3, EOFStep
<1>4. CASE WriteFile(u)
  BY <1>4, WriteStep
<1>5. CASE CheckFile(u)
  BY <1>5, CheckStep
<1>6. UNCHANGED disk \/ ReceiveEOF(u) \/ WriteFile(u) \/ CheckFile(u)
  BY DEF Client, Send, SendGivesUp, CloseAndRecv, Faults, ReadFails, FileChanges, StreamBreaks, Handler, NoKanban,
         ReceiveSendingKanban, ReceiveFileInfo, ReceiveDirInfo, ReceiveFileCont, EndOfSendingDir, ReceiveEOS,
         ReceiveOther, ReceiveFails, HandOver, Answer, diskVars
<1> QED BY <1>2, <1>3, <1>4, <1>5, <1>6

\* The result and what it means stay.
LEMMA EndedStays ==
  ASSUME NEW t \in Transfer, Ended(t), UNCHANGED <<fileList, rpc[t], result[t], lists[t], cnt[t]>>,
         \A O : Settled(t, O) => Settled(t, O)'
  PROVE  Ended(t)'
  BY DEF Ended

\* So they keep their positions.
LEMMA QuietStays ==
  ASSUME SendTypes, NEW t \in Transfer, Position(t), Ended(t), Sending(t), Quiet(t), UNCHANGED fileList,
         \A O : Settled(t, O) => Settled(t, O)'
  PROVE  Position(t)' /\ Ended(t)' /\ Sending(t)'
<1>1. Line(t)' = Line(t)
  BY DEF Quiet, Line
<1>2. \A X : Carries(t, X) => Carries(t, X)'
  <2>1. UNCHANGED <<fileList, Line(t), fault[t]>>
    BY <1>1 DEF Quiet
  <2> QED BY <2>1, CarriesSame
<1>3. Position(t)'
  <2>1. UNCHANGED <<rpc[t], rdir[t], rfile[t], rbuf[t], rdirCnt[t], lists[t], cnt[t]>>
    BY DEF Quiet
  <2> QED BY <1>2, <2>1, PositionStays
<1>4. Ended(t)'
  <2>1. UNCHANGED <<fileList, rpc[t], result[t], lists[t], cnt[t]>>
    BY DEF Quiet
  <2> QED BY <2>1, EndedStays
<1>5. Sending(t)'
  BY DEF Sending, Quiet
<1> QED BY <1>3, <1>4, <1>5

\* A step of the client or a fault leaves the handler where it is.
LEMMA ClientStep ==
  ASSUME SendTypes, NEW u \in Transfer, Position(u), Ended(u), Sending(u), Client(u) \/ Faults(u)
  PROVE  Position(u)' /\ Ended(u)' /\ Sending(u)'
<1>1. UNCHANGED <<fileList, rpc, rdir, rfile, rbuf, rdirCnt, lists, cnt, result, disk>>
  BY DEF Client, Send, SendGivesUp, CloseAndRecv, Faults, ReadFails, FileChanges, StreamBreaks, clientVars, recvVars,
         diskVars
<1>2. \A O : Settled(u, O) => Settled(u, O)'
  <2>1. \A q : OnDisk(q) => OnDisk(q)'
    BY <1>1 DEF OnDisk
  <2>2. UNCHANGED <<fileList, rpc[u], rdir[u], rfile[u]>>
    BY <1>1
  <2> QED BY <2>1, <2>2, SettledElse
<1>3. Ended(u)'
  <2>1. UNCHANGED <<fileList, rpc[u], result[u], lists[u], cnt[u]>>
    BY <1>1
  <2> QED BY <1>2, <2>1, EndedStays
<1>4. ASSUME \A X \in Seq(Message) : Carries(u, X) => Carries(u, X)' PROVE Position(u)'
  <2>1. UNCHANGED <<rpc[u], rdir[u], rfile[u], rbuf[u], rdirCnt[u], lists[u], cnt[u]>>
    BY <1>1
  <2> QED BY <1>1, <1>2, <1>4, <2>1, PositionStays
<1>5. CASE Send(u)
  <2>1. Line(u)' = Line(u) /\ Sending(u)' /\ fault' = fault
    BY <1>5, SendStep DEF Send
  <2>2. \A X : Carries(u, X) => Carries(u, X)'
    BY <1>1, <2>1, CarriesSame
  <2> QED BY <1>3, <1>4, <2>1, <2>2
<1>6. CASE SendGivesUp(u)
  <2>1. /\ todo'[u] = <<>> /\ spc'[u] = "closing" /\ UNCHANGED <<wire, broken, fault>>
        /\ (broken[u] \/ rpc[u] = "done")
    BY <1>6 DEF SendGivesUp, SendFails, SendTypes
  <2>2. Sending(u)'
    BY <2>1 DEF Sending
  <2>3. Position(u)'
    <3>1. CASE broken[u]
      <4>1. Line(u)' = Line(u)
        BY <2>1, <3>1 DEF Line
      <4>2. \A X : Carries(u, X) => Carries(u, X)'
        BY <1>1, <2>1, <4>1, CarriesSame
      <4> QED BY <1>4, <4>2
    <3>2. CASE rpc[u] = "done"
      BY <1>1, <3>2, LeavesLoop DEF Active
    <3> QED BY <2>1, <3>1, <3>2
  <2> QED BY <1>3, <2>2, <2>3
<1>7. CASE CloseAndRecv(u)
  <2>1. /\ spc[u] = "closing" /\ spc'[u] = "done" /\ UNCHANGED <<todo, wire, broken, fault>>
    BY <1>7 DEF CloseAndRecv, SendTypes
  <2>2. Sending(u)' /\ Line(u)' = Line(u)
    BY <2>1 DEF Sending, Line
  <2>3. \A X : Carries(u, X) => Carries(u, X)'
    BY <1>1, <2>1, <2>2, CarriesSame
  <2> QED BY <1>3, <1>4, <2>2, <2>3
<1>8. CASE ReadFails(u)
  BY <1>3, <1>4, <1>8, ReadFailsStep
<1>9. CASE FileChanges(u)
  BY <1>3, <1>4, <1>9, FileChangesStep
<1>10. CASE StreamBreaks(u)
  BY <1>3, <1>4, <1>10, BreakStep
<1> QED BY <1>5, <1>6, <1>7, <1>8, <1>9, <1>10 DEF Client, Faults

\* A step of the handler is from a position to a position, or to the end.
LEMMA HandlerStep ==
  ASSUME SendTypes, NEW u \in Transfer, Position(u), Ended(u), Sending(u), Handler(u)
  PROVE  Position(u)' /\ Ended(u)' /\ Sending(u)'
<1>1. Sending(u)'
  <2>1. UNCHANGED <<spc, todo, broken, fault>>
    BY DEF Handler, NoKanban, ReceiveSendingKanban, ReceiveFileInfo, ReceiveDirInfo, ReceiveFileCont, ReceiveEOF,
           WriteFile, CheckFile, EndOfSendingDir, ReceiveEOS, ReceiveOther, ReceiveFails, HandOver, Answer, clientVars
  <2> QED BY <2>1 DEF Sending
<1>2. ASSUME rpc[u] \in Active, result'[u] = result[u], rpc'[u] \in Active PROVE Ended(u)'
  <2>1. result'[u] = "none"
    BY <1>2 DEF Ended
  <2> QED BY <1>2, <2>1 DEF Ended
<1>3. ASSUME result'[u] = "failed", rpc'[u] \notin Active PROVE Position(u)' /\ Ended(u)'
  BY <1>3, LeavesLoop DEF Ended
<1>4. ASSUME Finish(u, "failed") PROVE Position(u)' /\ Ended(u)'
  <2>1. result'[u] = "failed" /\ rpc'[u] \notin Active
    BY <1>4 DEF Finish, SendTypes, Active
  <2> QED BY <1>3, <2>1
<1>5. CASE NoKanban(u)
  <2>1. result'[u] = "failed" /\ rpc'[u] \notin Active
    BY <1>5 DEF NoKanban, SendTypes, Active
  <2> QED BY <1>1, <1>3, <2>1
<1>6. CASE ReceiveSendingKanban(u)
  <2>1. rpc[u] \in Active /\ result'[u] = result[u] /\ rpc'[u] \in Active
    BY <1>6 DEF ReceiveSendingKanban, SendTypes, Active
  <2> QED BY <1>1, <1>2, <1>6, <2>1, KanbanStep
<1>7. CASE ReceiveFileInfo(u)
  <2>1. rpc[u] \in Active /\ result'[u] = result[u] /\ rpc'[u] \in Active
    BY <1>7 DEF ReceiveFileInfo, SendTypes, Active
  <2> QED BY <1>1, <1>2, <1>7, <2>1, FileInfoStep
<1>8. CASE ReceiveDirInfo(u)
  <2>1. rpc[u] \in Active /\ result'[u] = result[u] /\ rpc'[u] \in Active
    BY <1>8 DEF ReceiveDirInfo, SendTypes, Active
  <2> QED BY <1>1, <1>2, <1>8, <2>1, DirInfoStep
<1>9. CASE ReceiveFileCont(u)
  <2>1. Position(u)' /\ rpc' = rpc /\ result' = result
    BY <1>9, FileContStep
  <2>2. rpc[u] \in Active
    BY <1>9 DEF ReceiveFileCont, Active
  <2> QED BY <1>1, <1>2, <2>1, <2>2
<1>10. CASE ReceiveEOF(u)
  <2>1. Position(u)'
    BY <1>10, EOFStep
  <2>2. rpc[u] \in Active
    BY <1>10 DEF ReceiveEOF, Active
  <2>3. Finish(u, "failed") \/ (rpc'[u] \in Active /\ result'[u] = result[u])
    BY <1>10 DEF ReceiveEOF, SendTypes, Active
  <2> QED BY <1>1, <1>2, <1>4, <2>1, <2>2, <2>3
<1>11. CASE WriteFile(u)
  <2>1. Position(u)'
    BY <1>11, WriteStep
  <2>2. rpc[u] \in Active /\ result'[u] = result[u] /\ rpc'[u] \in Active
    BY <1>11 DEF WriteFile, SendTypes, Active
  <2> QED BY <1>1, <1>2, <2>1, <2>2
<1>12. CASE CheckFile(u)
  <2>1. Position(u)'
    BY <1>12, CheckStep
  <2>2. rpc[u] \in Active
    BY <1>12 DEF CheckFile, Active
  <2>3. Finish(u, "failed") \/ (rpc'[u] \in Active /\ result'[u] = result[u])
    BY <1>12 DEF CheckFile, FileDone, SendTypes, Active
  <2> QED BY <1>1, <1>2, <1>4, <2>1, <2>2, <2>3
<1>13. CASE EndOfSendingDir(u)
  <2>1. rpc[u] \in Active /\ result'[u] = result[u] /\ rpc'[u] \in Active
    BY <1>13 DEF EndOfSendingDir, SendTypes, Active
  <2> QED BY <1>1, <1>2, <1>13, <2>1, EndDirStep
<1>14. CASE ReceiveEOS(u)
  BY <1>1, <1>14, EOSStep
<1>15. CASE ReceiveOther(u)
  BY <1>1, <1>15, OtherStep
<1>16. CASE ReceiveFails(u)
  <2>1. Finish(u, "failed")
    BY <1>16 DEF ReceiveFails
  <2> QED BY <1>1, <1>4, <2>1
<1>17. CASE HandOver(u) \/ Answer(u)
  <2>1. /\ rpc[u] \notin Active /\ rpc'[u] \notin Active /\ result' = result
        /\ UNCHANGED <<fileList, lists, cnt, disk>>
    BY <1>17 DEF HandOver, Answer, SendTypes, Active, clientVars, recvVars, diskVars
  <2>2. \A O : Settled(u, O) => Settled(u, O)'
    <3>1. rpc[u] \notin {"write", "check"}
      BY <2>1 DEF Active
    <3> QED BY <2>1, <3>1, SettledStays
  <2>3. Ended(u)'
    BY <2>1, <2>2 DEF Ended
  <2> QED BY <1>1, <2>1, <2>3, LeavesLoop
<1> QED BY <1>5, <1>6, <1>7, <1>8, <1>9, <1>10, <1>11, <1>12, <1>13, <1>14, <1>15, <1>16, <1>17 DEF Handler

-----------------------------------------------------------------------------
(* The types *)

\* A received message leaves messages in flight.
LEMMA RecvTypes ==
  ASSUME SendTypes, NEW u \in Transfer, wire[u] # <<>>, wire' = [wire EXCEPT ![u] = Tail(@)]
  PROVE  wire' \in [Transfer -> Seq(Message)] /\ \A t \in Transfer : Len(wire'[t]) <= MaxWire
<1> DEFINE S == Seq(Message)
<1>1. wire \in [Transfer -> S] /\ \A t \in Transfer : Len(wire[t]) <= MaxWire
  BY DEF SendTypes
<1>2. Tail(wire[u]) \in S /\ Len(Tail(wire[u])) <= MaxWire
  <2>1. Tail(wire[u]) \in Seq(Message) /\ Len(Tail(wire[u])) <= Len(wire[u])
    BY WireOfLine
  <2>2. Len(Tail(wire[u])) \in Nat /\ Len(wire[u]) \in Nat /\ MaxWire \in Nat /\ Len(wire[u]) <= MaxWire
    BY <1>1, <2>1, WireAssumption
  <2> QED BY <2>1, <2>2
<1> HIDE DEF S
<1>3. wire' \in [Transfer -> S] /\ \A t \in Transfer : Len(wire'[t]) <= MaxWire
  BY <1>1, <1>2
<1> QED BY <1>3 DEF S

\* The types after a step of the client or a fault.
LEMMA ClientTypes ==
  ASSUME SendTypes, DiskTypes, NEW u \in Transfer, Sending(u), Client(u) \/ Faults(u)
  PROVE  SendTypes' /\ DiskTypes'
<1> DEFINE S == Seq(Message)
<1>0. /\ todo \in [Transfer -> S] /\ wire \in [Transfer -> S] /\ \A t \in Transfer : Len(wire[t]) <= MaxWire
      /\ spc \in [Transfer -> {"sending", "closing", "done"}] /\ broken \in [Transfer -> BOOLEAN]
      /\ fault \in [Transfer -> BOOLEAN]
  BY DEF SendTypes
<1>1. UNCHANGED <<fileList, rpc, recvVars, result, diskVars, brokerCh, handed>>
  BY DEF Client, Send, SendGivesUp, CloseAndRecv, Faults, ReadFails, FileChanges, StreamBreaks, clientVars
<1>2. /\ todo' \in [Transfer -> S] /\ wire' \in [Transfer -> S] /\ \A t \in Transfer : Len(wire'[t]) <= MaxWire
      /\ spc' \in [Transfer -> {"sending", "closing", "done"}] /\ broken' \in [Transfer -> BOOLEAN]
      /\ fault' \in [Transfer -> BOOLEAN]
  <2>1. CASE Send(u)
    <3>1. wire'[u] \in S /\ todo'[u] \in S /\ Len(wire'[u]) <= MaxWire
      BY <2>1, SendStep
    <3>2. wire' = [wire EXCEPT ![u] = wire'[u]] /\ todo' = [todo EXCEPT ![u] = todo'[u]]
      BY <1>0, <2>1 DEF Send
    <3> HIDE DEF S
    <3> QED BY <1>0, <2>1, <3>1, <3>2 DEF Send
  <2>2. CASE SendGivesUp(u)
    <3>1. <<>> \in S
      OBVIOUS
    <3> HIDE DEF S
    <3> QED BY <1>0, <2>2, <3>1 DEF SendGivesUp
  <2>3. CASE CloseAndRecv(u)
    BY <1>0, <2>3 DEF CloseAndRecv
  <2>4. CASE ReadFails(u)
    <3>1. todo'[u] \in S
      BY <2>4, ReadFailsStep
    <3>2. todo' = [todo EXCEPT ![u] = todo'[u]]
      BY <1>0, <2>4 DEF ReadFails
    <3> HIDE DEF S
    <3> QED BY <1>0, <2>4, <3>1, <3>2 DEF ReadFails
  <2>5. CASE FileChanges(u)
    <3>1. todo'[u] \in S
      BY <2>5, FileChangesStep
    <3>2. todo' = [todo EXCEPT ![u] = todo'[u]]
      BY <1>0, <2>5 DEF FileChanges
    <3> HIDE DEF S
    <3> QED BY <1>0, <2>5, <3>1, <3>2 DEF FileChanges
  <2>6. CASE StreamBreaks(u)
    <3>1. wire'[u] \in S /\ Len(wire'[u]) <= MaxWire
      BY <2>6, BreakStep
    <3>2. wire' = [wire EXCEPT ![u] = wire'[u]]
      BY <1>0, <2>6 DEF StreamBreaks
    <3> HIDE DEF S
    <3> QED BY <1>0, <2>6, <3>1, <3>2 DEF StreamBreaks, clientVars
  <2> QED BY <2>1, <2>2, <2>3, <2>4, <2>5, <2>6 DEF Client, Faults
<1>3. SendTypes'
  BY <1>1, <1>2 DEF SendTypes, recvVars, diskVars
<1>4. DiskTypes'
  BY <1>1 DEF DiskTypes, diskVars
<1> QED BY <1>3, <1>4

\* The paths of a handler are paths.
LEMMA PathTypes ==
  ASSUME SendTypes, NEW u \in Transfer, Position(u)
  PROVE  /\ OutputDirPath(u) \in Path
         /\ rpc[u] \in {"file", "write", "check"} =>
              /\ OutputDir(u) \in Path /\ FilePath(u) \in Path /\ rfile[u] \in File
              /\ \A n \in 0..Len(OutputDir(u)) : MadeUpTo(u, n) \subseteq Path
<1>1. OutputDirPath(u) \in Path
  <2>1. rdir[u] \in Item \cup {NoItem}
    BY DEF SendTypes
  <2>2. ASSUME NEW i \in Item PROVE MsDataPath[u] \in Path /\ Append(MsDataPath[u], DirName[i]) \in Path
    <3> DEFINE N == STRING
    <3>1. MsDataPath[u] \in Seq(N) /\ DirName[i] \in N
      BY PathAssumption
    <3> HIDE DEF N
    <3>2. MsDataPath[u] \in Seq(N) /\ Append(MsDataPath[u], DirName[i]) \in Seq(N)
      BY <3>1
    <3> QED BY <3>2 DEF N, Path
  <2>3. MsDataPath[u] \in Path
    BY PathAssumption DEF Path
  <2> QED BY <2>1, <2>2, <2>3 DEF OutputDirPath
<1>2. rpc[u] \in {"file", "write", "check"} => OutputDir(u) \in Path /\ FilePath(u) \in Path /\ rfile[u] \in File
  <2> SUFFICES ASSUME rpc[u] \in {"file", "write", "check"}
               PROVE  OutputDir(u) \in Path /\ FilePath(u) \in Path /\ rfile[u] \in File
    OBVIOUS
  <2>1. rfile[u] \in File
    BY CurrentLanding
  <2> DEFINE N == STRING
             a == OutputDirPath(u)
             b == RelDir[rfile[u]]
             c == Name[rfile[u]]
  <2>2. a \in Seq(N) /\ b \in Seq(N) /\ c \in N
    BY <1>1, <2>1, PathAssumption DEF Path
  <2> HIDE DEF N, a, b, c
  <2>3. a \o b \in Seq(N)
    BY <2>2
  <2>4. Append(a \o b, c) \in Seq(N)
    BY <2>2, <2>3
  <2> QED BY <2>1, <2>3, <2>4 DEF N, a, b, c, FilePath, OutputDir, Path
<1>3. ASSUME OutputDir(u) \in Path, NEW n \in 0..Len(OutputDir(u)) PROVE MadeUpTo(u, n) \subseteq Path
  <2>1. ASSUME NEW k \in 1..n PROVE SubSeq(OutputDir(u), 1, k) \in Path
    <3> DEFINE N == STRING
               a == OutputDir(u)
    <3>1. a \in Seq(N) /\ n \in 0..Len(a) /\ k \in 1..n
      BY <1>3, <2>1 DEF Path
    <3> HIDE DEF N, a
    <3>2. SubSeq(a, 1, k) \in Seq(N)
      BY <3>1
    <3> QED BY <3>2 DEF N, a, Path
  <2> QED BY <2>1 DEF MadeUpTo
<1> QED BY <1>1, <1>2, <1>3

\* The types after a step of the handler.
LEMMA HandlerTypes ==
  ASSUME SendTypes, DiskTypes, NEW u \in Transfer, Position(u), Handler(u)
  PROVE  SendTypes' /\ DiskTypes'
<1>0. UNCHANGED <<clientVars, broken, fault>>
  BY DEF Handler, NoKanban, ReceiveSendingKanban, ReceiveFileInfo, ReceiveDirInfo, ReceiveFileCont, ReceiveEOF,
         WriteFile, CheckFile, EndOfSendingDir, ReceiveEOS, ReceiveOther, ReceiveFails, HandOver, Answer
<1>w. wire' \in [Transfer -> Seq(Message)] /\ \A t \in Transfer : Len(wire'[t]) <= MaxWire
  <2>1. wire' = wire \/ (wire[u] # <<>> /\ wire' = [wire EXCEPT ![u] = Tail(@)])
    BY DEF Handler, NoKanban, ReceiveSendingKanban, ReceiveFileInfo, ReceiveDirInfo, ReceiveFileCont, ReceiveEOF,
           WriteFile, CheckFile, EndOfSendingDir, ReceiveEOS, ReceiveOther, ReceiveFails, HandOver, Answer, Recv
  <2> QED BY <2>1, RecvTypes DEF SendTypes
<1>h. brokerCh' \in Seq(Transfer) /\ Len(brokerCh') <= 1 /\ handed' \in [Transfer -> Nat]
  <2>1. UNCHANGED <<brokerCh, handed>> \/ HandOver(u)
    BY DEF Handler, NoKanban, ReceiveSendingKanban, ReceiveFileInfo, ReceiveDirInfo, ReceiveFileCont, ReceiveEOF,
           WriteFile, CheckFile, EndOfSendingDir, ReceiveEOS, ReceiveOther, ReceiveFails, Answer
  <2>2. CASE HandOver(u)
    <3>1. brokerCh' = <<u>> /\ handed' \in [Transfer -> Nat]
      BY <2>2 DEF HandOver, SendTypes
    <3>2. <<u>> \in Seq(Transfer) /\ Len(<<u>>) = 1
      OBVIOUS
    <3> QED BY <3>1, <3>2
  <2>3. CASE UNCHANGED <<brokerCh, handed>>
    BY <2>3 DEF SendTypes
  <2> QED BY <2>1, <2>2, <2>3
<1> DEFINE PCs == Active \cup {"handover", "answer", "done"}
           Result == {"none", "ok", "failed"}
           Lists == [dirs : Seq(Path), files : Seq(Path)]
<1>1. /\ rpc \in [Transfer -> PCs] /\ result \in [Transfer -> Result]
      /\ rdir \in [Transfer -> Item \cup {NoItem}] /\ rfile \in [Transfer -> File \cup {NoFile}]
      /\ rbuf \in [Transfer -> Nat] /\ rgood \in [Transfer -> BOOLEAN] /\ rdirCnt \in [Transfer -> Nat]
      /\ lists \in [Transfer -> Lists] /\ cnt \in [Transfer -> Nat]
  BY DEF SendTypes
<1>2. OutputDirPath(u) \in Path
  BY PathTypes
<1>3. rpc[u] \in {"file", "write", "check"} =>
        /\ OutputDir(u) \in Path /\ FilePath(u) \in Path /\ rfile[u] \in File
        /\ \A n \in 0..Len(OutputDir(u)) : MadeUpTo(u, n) \subseteq Path
  BY PathTypes
<1> HIDE DEF Lists
<1>4. ASSUME NEW p \in Path, NEW l \in Lists
      PROVE  [l EXCEPT !.dirs = Append(@, p)] \in Lists /\ [l EXCEPT !.files = Append(@, p)] \in Lists
  <2> DEFINE N == Path
  <2>1. l \in [dirs : Seq(N), files : Seq(N)] /\ p \in N
    BY <1>4 DEF Lists
  <2> HIDE DEF N
  <2>2. Append(l.dirs, p) \in Seq(N) /\ Append(l.files, p) \in Seq(N)
    BY <2>1
  <2>3. [l EXCEPT !.dirs = Append(@, p)] \in [dirs : Seq(N), files : Seq(N)]
    BY <2>1, <2>2
  <2>4. [l EXCEPT !.files = Append(@, p)] \in [dirs : Seq(N), files : Seq(N)]
    BY <2>1, <2>2
  <2> QED BY <2>3, <2>4 DEF N, Lists
<1>5. /\ rpc' \in [Transfer -> PCs] /\ result' \in [Transfer -> Result]
      /\ rdir' \in [Transfer -> Item \cup {NoItem}] /\ rfile' \in [Transfer -> File \cup {NoFile}]
      /\ rbuf' \in [Transfer -> Nat] /\ rgood' \in [Transfer -> BOOLEAN] /\ rdirCnt' \in [Transfer -> Nat]
      /\ lists' \in [Transfer -> Lists] /\ cnt' \in [Transfer -> Nat]
  <2>0. ASSUME NEW r \in Result, Finish(u, r) PROVE rpc' \in [Transfer -> PCs] /\ result' \in [Transfer -> Result]
    BY <1>1, <2>0 DEF Finish
  <2> HIDE DEF Result
  <2>f. "failed" \in Result /\ "ok" \in Result
    BY DEF Result
  <2>1. CASE NoKanban(u)
    BY <1>1, <2>f, <2>1 DEF NoKanban, recvVars
  <2>2. CASE ReceiveSendingKanban(u)
    BY <1>1, <2>2 DEF ReceiveSendingKanban, recvVars, Active
  <2>3. CASE ReceiveFileInfo(u)
    <3>1. Head(wire[u]).arg \in File
      BY <2>3, FileInfoStep
    <3> QED BY <1>1, <2>3, <3>1 DEF ReceiveFileInfo, Active
  <2>4. CASE ReceiveDirInfo(u)
    <3>1. Head(wire[u]).arg \in Item
      BY <2>4, DirInfoStep
    <3> QED BY <1>1, <2>4, <3>1 DEF ReceiveDirInfo, Active
  <2>5. CASE ReceiveFileCont(u)
    <3>2. UNCHANGED <<rdir, rfile, rdirCnt, lists, cnt, rpc, result>>
      BY <2>5, FileContStep DEF ReceiveFileCont
    <3>3. rbuf' \in [Transfer -> Nat]
      BY <1>1, <2>5 DEF ReceiveFileCont
    <3>4. rgood' = rgood \/ rgood' = [rgood EXCEPT ![u] = @ /\ Head(wire[u]).code = "cont"]
      BY <2>5 DEF ReceiveFileCont
    <3>5. rgood' \in [Transfer -> BOOLEAN]
      BY <1>1, <3>4
    <3> QED BY <1>1, <3>2, <3>3, <3>5
  <2>6. CASE ReceiveEOF(u)
    BY <1>1, <2>0, <2>f, <2>6 DEF ReceiveEOF, recvVars, Active
  <2>7. CASE WriteFile(u)
    BY <1>1, <2>7 DEF WriteFile, recvVars, Active
  <2>8. CASE CheckFile(u)
    <3>1. CASE Finish(u, "failed") /\ UNCHANGED recvVars
      BY <1>1, <2>0, <2>f, <3>1 DEF recvVars
    <3>2. CASE FileDone(u) /\ UNCHANGED result
      <4>1. FilePath(u) \in Path
        BY <1>3, <2>8 DEF CheckFile
      <4>2. lists' = lists \/ lists' = [lists EXCEPT ![u].files = Append(@, FilePath(u))]
        BY <3>2 DEF FileDone
      <4>3. lists' \in [Transfer -> Lists]
        <5> DEFINE p == FilePath(u)
                   l == lists[u]
        <5> HIDE DEF p
        <5>1. lists' = lists \/ lists' = [lists EXCEPT ![u] = [l EXCEPT !.files = Append(@, p)]]
          BY <4>2 DEF p
        <5>2. l \in Lists /\ p \in Path
          BY <1>1, <4>1 DEF p
        <5> HIDE DEF l
        <5>3. [l EXCEPT !.files = Append(@, p)] \in Lists
          BY <1>4, <5>2
        <5> QED BY <1>1, <5>1, <5>3
      <4>4. /\ rdir' = rdir /\ rbuf' = rbuf /\ rgood' = rgood /\ rfile' = [rfile EXCEPT ![u] = NoFile]
            /\ cnt' = cnt \/ cnt' = [cnt EXCEPT ![u] = @ + 1]
            /\ rdirCnt' = rdirCnt \/ rdirCnt' = [rdirCnt EXCEPT ![u] = @ + 1]
            /\ rpc' = [rpc EXCEPT ![u] = "top"] \/ rpc' = [rpc EXCEPT ![u] = "dir"]
        BY <3>2 DEF FileDone
      <4>5. rpc' \in [Transfer -> PCs]
        BY <1>1, <4>4 DEF Active
      <4>6. cnt' \in [Transfer -> Nat] /\ rdirCnt' \in [Transfer -> Nat]
        BY <1>1, <4>4
      <4>7. rfile' \in [Transfer -> File \cup {NoFile}]
        BY <1>1, <4>4
      <4> QED BY <1>1, <3>2, <4>3, <4>4, <4>5, <4>6, <4>7
    <3> QED BY <2>8, <3>1, <3>2 DEF CheckFile
  <2>9. CASE EndOfSendingDir(u)
    <3>1. lists' \in [Transfer -> Lists]
      BY <1>1, <1>2, <1>4, <2>9 DEF EndOfSendingDir
    <3> QED BY <1>1, <2>9, <3>1 DEF EndOfSendingDir, Active
  <2>10. CASE ReceiveEOS(u)
    <3>1. rpc' \in [Transfer -> PCs] /\ result' \in [Transfer -> Result]
      BY <2>0, <2>f, <2>10 DEF ReceiveEOS
    <3> QED BY <1>1, <2>10, <3>1 DEF ReceiveEOS, recvVars
  <2>11. CASE ReceiveOther(u)
    <3>1. rpc' \in [Transfer -> PCs] /\ result' \in [Transfer -> Result]
      BY <2>0, <2>f, <2>11 DEF ReceiveOther
    <3> QED BY <1>1, <2>11, <3>1 DEF ReceiveOther, recvVars
  <2>12. CASE ReceiveFails(u)
    BY <1>1, <2>0, <2>f, <2>12 DEF ReceiveFails, recvVars
  <2>13. CASE HandOver(u)
    BY <1>1, <2>13 DEF HandOver, recvVars
  <2>14. CASE Answer(u)
    BY <1>1, <2>14 DEF Answer, recvVars
  <2> QED BY <2>1, <2>2, <2>3, <2>4, <2>5, <2>6, <2>7, <2>8, <2>9, <2>10, <2>11, <2>12, <2>13, <2>14 DEF Handler
<1>6. linked' \in [Transfer -> BOOLEAN]
  <2>1. linked \in [Transfer -> BOOLEAN]
    BY DEF SendTypes
  <2>2. CASE ReceiveEOF(u)
    BY <2>1, <2>2 DEF ReceiveEOF
  <2>3. CASE CheckFile(u)
    BY <2>1, <2>3 DEF CheckFile, RemoveFile
  <2>4. linked' = linked \/ ReceiveEOF(u) \/ CheckFile(u)
    BY DEF Handler, NoKanban, ReceiveSendingKanban, ReceiveFileInfo, ReceiveDirInfo, ReceiveFileCont, WriteFile,
           EndOfSendingDir, ReceiveEOS, ReceiveOther, ReceiveFails, HandOver, Answer, diskVars
  <2> QED BY <2>1, <2>2, <2>3, <2>4
<1>7. SendTypes'
  BY <1>0, <1>w, <1>h, <1>5, <1>6 DEF SendTypes, clientVars, Lists
<1>8. DiskTypes'
  <2>1. CASE ReceiveSendingKanban(u)
    <3>1. MsDataPath[u] \in Path
      BY PathAssumption DEF Path
    <3> QED BY <2>1, <3>1 DEF ReceiveSendingKanban, DiskTypes
  <2>2. CASE ReceiveEOF(u)
    <3>1. rpc[u] = "file"
      BY <2>2 DEF ReceiveEOF
    <3>2. MadeUpTo(u, Len(OutputDir(u))) \subseteq Path
      <4>1. OutputDir(u) \in Path /\ \A n \in 0..Len(OutputDir(u)) : MadeUpTo(u, n) \subseteq Path
        BY <1>3, <3>1
      <4>2. Len(OutputDir(u)) \in 0..Len(OutputDir(u))
        BY <4>1 DEF Path
      <4> QED BY <4>1, <4>2
    <3>4. dirs \subseteq dirs' /\ dirs' \subseteq Path
      BY <2>2, <3>2 DEF ReceiveEOF, DiskTypes
    <3>5. CASE disk' = disk
      BY <3>4, <3>5 DEF DiskTypes
    <3>6. CASE /\ Front(DequeuePath(u)) \in dirs'
               /\ disk' = [p \in DOMAIN disk \cup {DequeuePath(u)} |-> IF p = DequeuePath(u) THEN {} ELSE disk[p]]
      BY <3>4, <3>6 DEF DiskTypes
    <3> QED BY <2>2, <3>5, <3>6 DEF ReceiveEOF
  <2>3. CASE WriteFile(u)
    <3>1. PICK x \in File \cup {Garbage} :
            disk' = IF linked[u] THEN [disk EXCEPT ![DequeuePath(u)] = @ \cup {x}] ELSE disk
      <4>1. rfile[u] \in File
        BY <1>3, <2>3 DEF WriteFile
      <4> QED BY <2>3, <4>1 DEF WriteFile
    <3>2. dirs' = dirs
      BY <2>3 DEF WriteFile
    <3> QED BY <3>1, <3>2 DEF DiskTypes
  <2>4. CASE CheckFile(u)
    <3>1. dirs' = dirs /\ (disk' = disk \/ disk' = Restrict(disk, DOMAIN disk \ {FilePath(u)}))
      BY <2>4 DEF CheckFile, RemoveFile
    <3> QED BY <3>1 DEF DiskTypes, Restrict
  <2>5. UNCHANGED <<dirs, disk>> \/ ReceiveSendingKanban(u) \/ ReceiveEOF(u) \/ WriteFile(u) \/ CheckFile(u)
    BY DEF Handler, NoKanban, ReceiveFileInfo, ReceiveDirInfo, ReceiveFileCont, EndOfSendingDir, ReceiveEOS,
           ReceiveOther, ReceiveFails, HandOver, Answer, diskVars
  <2> QED BY <2>1, <2>2, <2>3, <2>4, <2>5 DEF DiskTypes
<1> QED BY <1>7, <1>8

-----------------------------------------------------------------------------
(* A failing file system *)

\* The handler gives up, and of the disk only its own paths are touched.
LEMMA FileSystemDisk ==
  ASSUME SendTypes, NEW u \in Transfer, FileSystemFails(u)
  PROVE  /\ rpc[u] \in {"file", "write", "check"} /\ Finish(u, "failed") /\ fault' = [fault EXCEPT ![u] = TRUE]
         /\ UNCHANGED <<clientVars, broken, recvVars, brokerCh, handed>>
         /\ wire' = wire \/ (wire[u] # <<>> /\ wire' = [wire EXCEPT ![u] = Tail(@)])
         /\ \A p \in DOMAIN disk \ {FilePath(u), DequeuePath(u)} : p \in DOMAIN disk' /\ disk'[p] = disk[p]
         /\ linked' \in [Transfer -> BOOLEAN]
         /\ \A v \in Transfer : rpc[v] = "write" /\ DequeuePath(v) # FilePath(u) => linked'[v] = linked[v]
         /\ DOMAIN disk' \subseteq DOMAIN disk
         /\ \A p \in DOMAIN disk' : disk'[p] \subseteq disk[p] \cup {Garbage}
<1>0. linked \in [Transfer -> BOOLEAN]
  BY DEF SendTypes
<1>1. CASE CreateFails(u)
  BY <1>0, <1>1 DEF CreateFails, Recv
<1>2. CASE WriteFails(u)
  <2>1. disk' = disk \/ disk' = [disk EXCEPT ![DequeuePath(u)] = @ \cup {Garbage}]
    BY <1>2 DEF WriteFails
  <2> QED BY <1>0, <1>2, <2>1 DEF WriteFails
<1>3. CASE CheckFails(u)
  <2>1. \/ UNCHANGED <<disk, linked>>
        \/ /\ disk' = Restrict(disk, DOMAIN disk \ {FilePath(u)})
           /\ linked' = [v \in Transfer |-> linked[v] /\ ~(rpc[v] = "write" /\ DequeuePath(v) = FilePath(u))]
    BY <1>3 DEF CheckFails, RemoveFile
  <2>2. /\ DOMAIN disk' \subseteq DOMAIN disk
        /\ \A p \in DOMAIN disk' : disk'[p] = disk[p]
        /\ \A p \in DOMAIN disk \ {FilePath(u)} : p \in DOMAIN disk'
    BY <2>1 DEF Restrict
  <2>3. /\ linked' \in [Transfer -> BOOLEAN]
        /\ \A v \in Transfer : rpc[v] = "write" /\ DequeuePath(v) # FilePath(u) => linked'[v] = linked[v]
    BY <1>0, <2>1
  <2> QED BY <1>3, <2>2, <2>3 DEF CheckFails
<1> QED BY <1>1, <1>2, <1>3 DEF FileSystemFails

\* Nothing of another transfer moves.
LEMMA FileSystemQuiet ==
  ASSUME SendTypes, NEW u \in Transfer, FileSystemFails(u), NEW t \in Transfer \ {u}
  PROVE  Quiet(t) /\ UNCHANGED fileList
<1>1. /\ Finish(u, "failed") /\ fault' = [fault EXCEPT ![u] = TRUE]
      /\ UNCHANGED <<clientVars, broken, recvVars>>
      /\ wire' = wire \/ wire' = [wire EXCEPT ![u] = Tail(@)]
  BY FileSystemDisk
<1> QED BY <1>1 DEF Finish, Quiet, SendTypes, clientVars, recvVars

\* What is settled for another transfer stays so.
LEMMA FileSystemSettled ==
  ASSUME SendTypes, NEW u \in Transfer, Position(u), FileSystemFails(u), NEW t \in Transfer \ {u}
  PROVE  \A O : Settled(t, O) => Settled(t, O)'
<1>1. Quiet(t) /\ UNCHANGED fileList
  BY FileSystemQuiet
<1>2. /\ rpc[u] \in {"file", "write", "check"}
      /\ \A p \in DOMAIN disk \ {FilePath(u), DequeuePath(u)} : p \in DOMAIN disk' /\ disk'[p] = disk[p]
  BY FileSystemDisk
<1>3. PICK c \in Landings(u) : IsCurrent(u, c)
  BY <1>2, CurrentLanding
<1>4. ASSUME Alone(t), NEW q \in Landings(t), OnDisk(q) PROVE OnDisk(q)'
  <2>1. q.place # FilePath(u) /\ q.place # DequeuePath(u)
    BY <1>3, <1>4 DEF Alone, IsCurrent
  <2> QED BY <1>2, <1>4, <2>1 DEF OnDisk
<1>5. UNCHANGED <<fileList, rpc[t], rdir[t], rfile[t]>>
  BY <1>1 DEF Quiet
<1> QED BY <1>4, <1>5, SettledElse

\* The handler has left its loop with a result.
LEMMA FileSystemStep ==
  ASSUME SendTypes, NEW u \in Transfer, Sending(u), FileSystemFails(u)
  PROVE  Position(u)' /\ Ended(u)' /\ Sending(u)' /\ fault'[u]
<1>1. /\ Finish(u, "failed") /\ fault' = [fault EXCEPT ![u] = TRUE]
      /\ UNCHANGED <<clientVars, broken>>
  BY FileSystemDisk
<1>2. rpc'[u] \notin Active /\ result'[u] = "failed" /\ fault'[u] /\ UNCHANGED <<spc, todo>>
  BY <1>1 DEF Finish, SendTypes, Active, clientVars
<1>3. Sending(u)'
  BY <1>1, <1>2 DEF Sending
<1> QED BY <1>2, <1>3, LeavesLoop DEF Ended

\* The types after a failure.
LEMMA FileSystemTypes ==
  ASSUME SendTypes, DiskTypes, NEW u \in Transfer, Position(u), FileSystemFails(u)
  PROVE  SendTypes' /\ DiskTypes'
<1>1. /\ rpc[u] \in {"file", "write", "check"} /\ Finish(u, "failed") /\ fault' = [fault EXCEPT ![u] = TRUE]
      /\ UNCHANGED <<clientVars, broken, recvVars, brokerCh, handed>>
      /\ wire' = wire \/ (wire[u] # <<>> /\ wire' = [wire EXCEPT ![u] = Tail(@)])
      /\ linked' \in [Transfer -> BOOLEAN]
      /\ DOMAIN disk' \subseteq DOMAIN disk
      /\ \A p \in DOMAIN disk' : disk'[p] \subseteq disk[p] \cup {Garbage}
  BY FileSystemDisk
<1>2. wire' \in [Transfer -> Seq(Message)] /\ \A t \in Transfer : Len(wire'[t]) <= MaxWire
  BY <1>1, RecvTypes DEF SendTypes
<1>3. /\ rpc' \in [Transfer -> Active \cup {"handover", "answer", "done"}]
      /\ result' \in [Transfer -> {"none", "ok", "failed"}]
      /\ fault' \in [Transfer -> BOOLEAN]
  BY <1>1 DEF Finish, SendTypes
<1>4. SendTypes'
  BY <1>1, <1>2, <1>3 DEF SendTypes, clientVars, recvVars
<1>5. dirs \subseteq dirs' /\ dirs' \subseteq Path
  <2>1. dirs' = dirs \/ \E n \in 0..Len(OutputDir(u)) : dirs' = dirs \cup MadeUpTo(u, n)
    BY DEF FileSystemFails, CreateFails, WriteFails, CheckFails
  <2>2. \A n \in 0..Len(OutputDir(u)) : MadeUpTo(u, n) \subseteq Path
    BY <1>1, PathTypes
  <2> QED BY <2>1, <2>2 DEF DiskTypes
<1>6. DiskTypes'
  BY <1>1, <1>5 DEF DiskTypes
<1> QED BY <1>4, <1>6

-----------------------------------------------------------------------------
(* The theorems *)

\* A line with everything that is to come follows it.
LEMMA FollowsAll ==
  ASSUME NEW X \in Seq(Message), NEW e \in Message
  PROVE  Follows(Append(X, e), X, e)
<1> DEFINE Y == Append(X, e)
<1>1. Len(Y) = Len(X) + 1 /\ Len(X) \in Nat
  OBVIOUS
<1> HIDE DEF Y
<1>2. \A k \in 1..Len(Y) : Alike(Y[k], Y[k])
  BY DEF Alike
<1> QED BY <1>1, <1>2 DEF Follows, Y

\* At the beginning the handler waits for the kanban and the client has everything to send.
LEMMA InitInv == Init => SendInv
<1> SUFFICES ASSUME Init PROVE SendInv
  OBVIOUS
<1>1. fileList \in [Transfer -> Seq(Item)]
  BY ListAssumption DEF Init
<1>2. ASSUME NEW t \in Transfer
      PROVE  /\ todo[t] \in Seq(Message) /\ todo[t] # <<>>
             /\ Carries(t, <<Msg("kanban", t)>> \o ListMessages(fileList[t]))
  <2> DEFINE S == Message
             l == fileList[t]
             k == Msg("kanban", t)
             L == ListMessages(l)
             e == Msg("eos", SentFileCnt(l))
             X == <<k>> \o L
  <2>1. l \in Seq(Item)
    BY <1>1
  <2>2. k \in S /\ e \in S /\ L \in Seq(S)
    <3>1. SentFileCnt(l) \in Nat
      BY <2>1, CountFacts
    <3>2. SentFileCnt(l) \in Transfer \cup Item \cup File \cup Int
      BY <3>1
    <3> QED BY <2>1, <3>2, ListFacts, MsgType DEF Codes
  <2>3. todo[t] = X \o <<e>> /\ wire[t] = <<>> /\ ~broken[t] /\ EOS(t) = e
    BY DEF Init, Messages, EOS
  <2> HIDE DEF S, l, k, L, e
  <2>4. X \in Seq(S) /\ X \o <<e>> = Append(X, e) /\ X \o <<e>> \in Seq(S) /\ X \o <<e>> # <<>>
    <3>1. <<k>> \in Seq(S) /\ <<e>> \in Seq(S)
      BY <2>2
    <3>2. X \in Seq(S)
      BY <2>2, OneMore
    <3> HIDE DEF X
    <3> QED BY <2>2, <3>1, <3>2
  <2> HIDE DEF X
  <2>5. Line(t) = Append(X, e)
    <3>1. <<>> \o Append(X, e) = Append(X, e)
      BY <2>2, <2>4
    <3> QED BY <2>3, <2>4, <3>1 DEF Line
  <2>6. Follows(Append(X, e), X, e)
    BY <2>2, <2>4, FollowsAll DEF S
  <2>7. Carries(t, X)
    BY <2>3, <2>5, <2>6 DEF Carries, Exactly
  <2> QED BY <2>3, <2>4, <2>7 DEF S, X, k, L, l
<1>3. SendTypes
  <2>1. todo \in [Transfer -> Seq(Message)]
    <3> DEFINE S == Seq(Message)
    <3>1. \A t \in Transfer : todo[t] \in S
      BY <1>2
    <3>2. todo = [t \in Transfer |-> todo[t]]
      BY DEF Init
    <3> HIDE DEF S
    <3>3. todo \in [Transfer -> S]
      BY <3>1, <3>2
    <3> QED BY <3>3 DEF S
  <2>2. wire \in [Transfer -> Seq(Message)] /\ \A t \in Transfer : Len(wire[t]) <= MaxWire
    <3>1. <<>> \in Seq(Message) /\ Len(<<>>) = 0 /\ 0 <= MaxWire
      BY WireAssumption
    <3> QED BY <3>1 DEF Init
  <2>3. lists \in [Transfer -> [dirs : Seq(Path), files : Seq(Path)]]
    <3>1. <<>> \in Seq(Path)
      OBVIOUS
    <3> QED BY <3>1 DEF Init
  <2>4. brokerCh \in Seq(Transfer) /\ Len(brokerCh) <= 1
    BY DEF Init
  <2> QED BY <1>1, <2>1, <2>2, <2>3, <2>4 DEF Init, SendTypes, Active
<1>4. DiskTypes
  BY DEF Init, DiskTypes
<1>5. ASSUME NEW t \in Transfer PROVE Position(t) /\ Ended(t) /\ Sending(t)
  <2>1. rpc[t] = "kanban" /\ rdir[t] = NoItem /\ result[t] = "none" /\ spc[t] = "sending" /\ ~broken[t]
    BY DEF Init
  <2>2. lists[t].dirs = <<>> /\ lists[t].files = <<>> /\ cnt[t] = 0 /\ fileList[t] \in Seq(Item)
    BY <1>1 DEF Init
  <2>3. Progress(t, fileList[t])
    <3>1. <<>> \o DirPaths(t, fileList[t]) = DirPaths(t, fileList[t])
      <4> DEFINE S == Path
                 a == DirPaths(t, fileList[t])
      <4>1. a \in Seq(S)
        BY <2>2, DirPathsFacts
      <4> HIDE DEF S, a
      <4>2. <<>> \o a = a
        BY <4>1
      <4> QED BY <4>2 DEF a
    <3>2. <<>> \o FilePaths(t, fileList[t]) = FilePaths(t, fileList[t])
      <4> DEFINE S == Path
                 a == FilePaths(t, fileList[t])
      <4>1. a \in Seq(S)
        BY <2>2, FilePathsFacts
      <4> HIDE DEF S, a
      <4>2. <<>> \o a = a
        BY <4>1
      <4> QED BY <4>2 DEF a
    <3>3. 0 + SentFileCnt(fileList[t]) = SentFileCnt(fileList[t])
      <4>1. SentFileCnt(fileList[t]) \in Nat
        BY <2>2, CountFacts
      <4> QED BY <4>1
    <3>4. Len(lists[t].dirs) = 0 /\ Len(lists[t].files) = 0 /\ Len(fileList[t]) \in Nat
      BY <2>2
    <3>5. Len(lists[t].dirs) + Len(lists[t].files) + Len(fileList[t]) <= Len(fileList[t])
      BY <3>4
    <3> QED BY <2>2, <3>1, <3>2, <3>3, <3>5 DEF Progress, Landings
  <2>4. Begins(t)
    BY <1>2, <2>1, <2>3 DEF Begins
  <2>5. Ended(t) /\ Sending(t)
    BY <1>2, <2>1 DEF Ended, Sending, Active
  <2> QED BY <2>4, <2>5 DEF Position
<1> QED BY <1>3, <1>4, <1>5 DEF SendInv, Positions

\* Every step preserves the invariant.
LEMMA StepInv == SendInv /\ [Next]_vars => SendInv'
<1> SUFFICES ASSUME SendInv, [Next]_vars PROVE SendInv'
  OBVIOUS
<1>0. SendTypes /\ DiskTypes /\ \A t \in Transfer : Position(t) /\ Ended(t) /\ Sending(t)
  BY DEF SendInv, Positions
<1>1. ASSUME NEW u \in Transfer, Client(u) \/ Handler(u) \/ FileSystemFails(u) \/ Faults(u) PROVE SendInv'
  <2>1. SendTypes' /\ DiskTypes'
    BY <1>0, <1>1, ClientTypes, HandlerTypes, FileSystemTypes
  <2>2. ASSUME NEW t \in Transfer PROVE Position(t)' /\ Ended(t)' /\ Sending(t)'
    <3>1. CASE t = u
      BY <1>0, <1>1, <3>1, ClientStep, HandlerStep, FileSystemStep
    <3>2. CASE t # u
      <4>1. t \in Transfer \ {u}
        BY <3>2
      <4>2. \A O : Settled(t, O) => Settled(t, O)'
        BY <1>0, <1>1, <4>1, OthersSettled, FileSystemSettled
      <4>3. Quiet(t) /\ UNCHANGED fileList
        BY <1>0, <1>1, <4>1, OthersQuiet, FileSystemQuiet
      <4> QED BY <1>0, <4>2, <4>3, QuietStays
    <3> QED BY <3>1, <3>2
  <2> QED BY <2>1, <2>2 DEF SendInv, Positions
<1>2. ASSUME UNCHANGED <<clientVars, wire, broken, rpc, recvVars, result, diskVars, handed, fault>>,
             brokerCh' = brokerCh \/ brokerCh' = <<>>
      PROVE  SendInv'
  <2>1. SendTypes'
    <3>1. brokerCh' \in Seq(Transfer) /\ Len(brokerCh') <= 1
      <4>1. <<>> \in Seq(Transfer) /\ Len(<<>>) = 0
        OBVIOUS
      <4>2. brokerCh \in Seq(Transfer) /\ Len(brokerCh) <= 1
        BY <1>0 DEF SendTypes
      <4>3. CASE brokerCh' = <<>>
        BY <4>1, <4>3
      <4>4. CASE brokerCh' = brokerCh
        BY <4>2, <4>4
      <4> QED BY <1>2, <4>3, <4>4
    <3> QED BY <1>0, <1>2, <3>1 DEF SendTypes, clientVars, recvVars, diskVars
  <2>2. DiskTypes'
    BY <1>0, <1>2 DEF DiskTypes, diskVars
  <2>3. ASSUME NEW t \in Transfer PROVE Position(t)' /\ Ended(t)' /\ Sending(t)'
    <3>1. Quiet(t) /\ UNCHANGED fileList
      BY <1>2 DEF Quiet, clientVars, recvVars
    <3>2. \A q : OnDisk(q) => OnDisk(q)'
      BY <1>2 DEF OnDisk, diskVars
    <3>3. \A O : Settled(t, O) => Settled(t, O)'
      <4>1. UNCHANGED <<fileList, rpc[t], rdir[t], rfile[t]>>
        BY <3>1 DEF Quiet
      <4> QED BY <3>2, <4>1, SettledElse
    <3> QED BY <1>0, <3>1, <3>3, QuietStays
  <2> QED BY <2>1, <2>2, <2>3 DEF SendInv, Positions
<1>3. CASE BrokerTakes
  BY <1>2, <1>3 DEF BrokerTakes
<1>4. CASE UNCHANGED vars
  BY <1>2, <1>4 DEF vars
<1> QED BY <1>1, <1>3, <1>4 DEF Next

\* The invariant holds in every behaviour.
LEMMA InvHolds == Spec => []SendInv
<1> QED BY InitInv, StepInv, PTL DEF Spec

\* The handlers, the streams, the disk and the channel to the service broker
\* have their types: brokerCh never holds more than one kanban, and nothing is
\* written into a directory that does not exist.
THEOREM SendTypeCorrect == Spec => []TypeOK
<1>1. SendInv => TypeOK
  BY DEF SendInv, SendTypes, DiskTypes, TypeOK, Active
<1> QED BY <1>1, InvHolds, PTL

\* receiveEOS answers OK only to a transfer whose handler has received every
\* directory and every file of the sender's list: the kanban's new list names
\* them all, in the sender's order, the directories first.
THEOREM OKMeansComplete == Spec => []OKIsComplete
<1>1. SendInv => OKIsComplete
  BY DEF SendInv, Positions, Ended, OKIsComplete
<1> QED BY <1>1, InvHolds, PTL

\* The files that receiveEOF has checked stay on the disk with the content that
\* was hashed, whatever the other handlers create, write and remove, as long as
\* no other file is written to their paths.
THEOREM FilesStay == Spec => []OKFilesStay
<1>1. SendInv => OKFilesStay
  <2> SUFFICES ASSUME SendInv, NEW t \in Transfer, result[t] = "ok", Alone(t), NEW q \in Landings(t)
               PROVE  q.place \in DOMAIN disk /\ disk[q.place] = {q.file}
    BY DEF OKFilesStay
  <2>1. Settled(t, {}) /\ rpc[t] \notin Active
    BY DEF SendInv, Positions, Ended
  <2>2. ~UnderWay(t, q)
    BY <2>1 DEF UnderWay, Active
  <2>3. OnDisk(q)
    BY <2>1, <2>2 DEF Settled
  <2> QED BY <2>3 DEF OnDisk
<1> QED BY <1>1, InvHolds, PTL

-----------------------------------------------------------------------------
(* A transfer that nothing stands in the way of does not fail *)

\* Without a fault no error comes, and in a directory and in a file only what belongs there.
LEMMA Expected ==
  ASSUME SendTypes, NEW t \in Transfer, Position(t), Sending(t), ~fault[t], rpc[t] \in {"kanban", "top", "dir", "file"}
  PROVE  /\ ~RecvError(t)
         /\ rpc[t] = "dir" /\ wire[t] # <<>> => Head(wire[t]).code \in {"fileInfo", "endDir"}
         /\ rpc[t] = "file" /\ wire[t] # <<>> => Head(wire[t]).code \in {"cont", "eof"}
<1>1. CASE rpc[t] = "kanban"
  <2> DEFINE l == fileList[t]
             X == <<Msg("kanban", t)>> \o ListMessages(l)
  <2>1. Carries(t, X)
    BY <1>1 DEF Position, Begins, AtTop, InFile, AtDir, InDirFile, Active
  <2>2. X \in Seq(Message)
    <3>1. l \in Seq(Item) /\ <<>> \in Seq(File)
      BY LineTypes
    <3> QED BY <3>1, ToComeTypes
  <2> HIDE DEF X
  <2> QED BY <1>1, <2>1, <2>2, NoFault
<1>2. CASE rpc[t] = "top"
  <2>1. PICK rest \in Seq(Item) : AtTop(t, rest)
    BY <1>2, TopNormal
  <2> DEFINE X == ListMessages(rest)
  <2>2. Carries(t, X) /\ X \in Seq(Message)
    BY <2>1, ListFacts DEF AtTop
  <2> HIDE DEF X
  <2> QED BY <1>2, <2>2, NoFault
<1>3. CASE rpc[t] = "dir"
  <2>1. PICK rest \in Seq(Item) : \E fs \in Seq(File) : AtDir(t, rest, fs)
    BY <1>3 DEF Position, Begins, AtTop, InFile, InDirFile, Active
  <2>2. PICK fs \in Seq(File) : AtDir(t, rest, fs)
    BY <2>1
  <2> DEFINE i == Head(rest)
             Y == ListMessages(Tail(rest))
             X == DirRest(i, fs) \o Y
  <2>3. rest # <<>> /\ rdir[t] = i /\ i \in Item /\ Y \in Seq(Message)
    <3>1. rest # <<>> /\ rdir[t] = i
      BY <2>2 DEF AtDir
    <3>2. i \in Item /\ Tail(rest) \in Seq(Item)
      BY <3>1
    <3> QED BY <3>1, <3>2, ListFacts
  <2>4. Carries(t, X)
    BY <2>2, <2>3 DEF AtDir
  <2> HIDE DEF i, Y
  <2>5. PICK h \in Message, Z \in Seq(Message) : h.code \in {"fileInfo", "endDir"} /\ X = <<h>> \o Z
    <3>1. CASE fs = <<>>
      <4>1. Msg("endDir", i) \in Message /\ Msg("endDir", i).code = "endDir"
        BY <2>3, MsgType DEF Codes
      <4>2. X = <<Msg("endDir", i)>> \o Y
        BY <2>3, <3>1, NextInDir
      <4> QED BY <2>3, <4>1, <4>2
    <3>2. CASE fs # <<>>
      <4> DEFINE f == Head(fs)
                 W == DirRest(i, Tail(fs)) \o Y
      <4>1. f \in File /\ Tail(fs) \in Seq(File)
        BY <3>2
      <4>2. Msg("fileInfo", f) \in Message /\ Msg("fileInfo", f).code = "fileInfo"
        BY <4>1, MsgType DEF Codes
      <4>3. X = <<Msg("fileInfo", f)>> \o (FileRest(f, 0) \o W)
        BY <2>3, <3>2, NextInDir
      <4>4. W \in Seq(Message)
        BY <2>3, <4>1, NextInDir
      <4> HIDE DEF f, W, X
      <4>5. FileRest(f, 0) \o W \in Seq(Message)
        BY <4>1, <4>4, NextInFile
      <4> QED BY <4>2, <4>3, <4>5
    <3> QED BY <3>1, <3>2
  <2>6. X \in Seq(Message)
    BY <2>5, OneMore
  <2> HIDE DEF X
  <2> QED BY <1>3, <2>4, <2>5, <2>6, NoFault
<1>4. CASE rpc[t] = "file"
  <2>1. PICK rest \in Seq(Item), Y \in Seq(Message) : Carries(t, Current(t) \o Y)
    BY <1>4, FilePosition
  <2>2. PICK f \in File, k \in Nat : f = rfile[t] /\ k = rbuf[t]
    BY <1>4, CurrentLanding DEF SendTypes
  <2> DEFINE X == FileRest(f, k) \o Y
  <2>3. Carries(t, X) /\ X \in Seq(Message)
    BY <1>4, <2>1, <2>2, NextInFile DEF Current
  <2>4. PICK h \in Message, Z \in Seq(Message) : h.code \in {"cont", "eof"} /\ X = <<h>> \o Z
    <3>1. CASE k < ChunkCnt[f]
      <4>1. Msg("cont", k) \in Message /\ Msg("cont", k).code = "cont"
        BY MsgType DEF Codes
      <4>2. X = <<Msg("cont", k)>> \o (FileRest(f, k + 1) \o Y) /\ FileRest(f, k + 1) \o Y \in Seq(Message)
        BY <3>1, NextInFile
      <4> QED BY <4>1, <4>2
    <3>2. CASE ~(k < ChunkCnt[f])
      <4>1. Msg("eof", f) \in Message /\ Msg("eof", f).code = "eof"
        BY MsgType DEF Codes
      <4>2. X = <<Msg("eof", f)>> \o Y
        BY <3>2, NextInFile
      <4> QED BY <4>1, <4>2
    <3> QED BY <3>1, <3>2
  <2> HIDE DEF X
  <2> QED BY <1>4, <2>3, <2>4, NoFault
<1> QED BY <1>1, <1>2, <1>3, <1>4

\* Files that lie directly in a directory that is there are created where they belong.
LEMMA FlatPaths ==
  ASSUME SendTypes, NEW t \in Transfer, Position(t), rpc[t] \in {"file", "write", "check"}, Flat(t)
  PROVE  /\ DequeuePath(t) = FilePath(t) /\ Front(DequeuePath(t)) = OutputDir(t)
         /\ OutputDir(t) \in Path /\ OutputDir(t) = OutputDirPath(t)
<1>1. RelDir[rfile[t]] = <<>> /\ rfile[t] \in File /\ OutputDirPath(t) \in Path
  BY CurrentLanding DEF Flat, IsCurrent
<1> DEFINE N == STRING
           a == OutputDirPath(t)
           n == Name[rfile[t]]
<1>2. a \in Seq(N) /\ n \in N
  BY <1>1, PathAssumption DEF Path
<1> HIDE DEF N, a, n
<1>3. a \o <<>> = a /\ a \o Append(<<>>, n) = Append(a, n)
  BY <1>2
<1>4. OutputDir(t) = a
  BY <1>1, <1>3 DEF OutputDir, a
<1>5. DequeuePath(t) = Append(a, n) /\ FilePath(t) = Append(a, n)
  BY <1>1, <1>3, <1>4 DEF DequeuePath, FilePath, n
<1>6. Front(Append(a, n)) = a
  BY <1>2 DEF Front
<1> QED BY <1>1, <1>4, <1>5, <1>6 DEF a

\* Nobody else creates, writes or removes the file of a transfer that is alone.
LEMMA Apart ==
  ASSUME SendTypes, NEW t \in Transfer, Position(t), rpc[t] \in {"file", "write", "check"}, Alone(t),
         NEW u \in Transfer \ {t}, Position(u), rpc[u] \in {"file", "write", "check"}
  PROVE  FilePath(t) # FilePath(u) /\ FilePath(t) # DequeuePath(u)
<1>1. PICK q \in Landings(t) : IsCurrent(t, q)
  BY CurrentLanding
<1>2. PICK w \in Landings(u) : IsCurrent(u, w)
  BY CurrentLanding
<1> QED BY <1>1, <1>2 DEF Alone, IsCurrent

\* A step of another transfer does not stand in the way.
LEMMA OthersGood ==
  ASSUME SendTypes, NEW u \in Transfer, Position(u), Client(u) \/ Handler(u) \/ Faults(u),
         NEW t \in Transfer \ {u}, Position(t), Alone(t), Flat(t), Good(t)
  PROVE  Good(t)'
<1>1. Quiet(t) /\ UNCHANGED fileList
  BY OthersQuiet
<1>2. FilePath(t)' = FilePath(t)
  BY <1>1 DEF Quiet, FilePath, OutputDir, OutputDirPath
<1>3. ASSUME rpc[t] \in {"write", "check"}
      PROVE  /\ FilePath(t) \in DOMAIN disk => FilePath(t) \in DOMAIN disk' /\ disk'[FilePath(t)] = disk[FilePath(t)]
             /\ rpc[t] = "write" => linked'[t] = linked[t]
  <2> DEFINE p == FilePath(t)
  <2>0. linked \in [Transfer -> BOOLEAN] /\ DequeuePath(t) = p
    BY <1>3, FlatPaths DEF SendTypes
  <2>1. rpc[u] \in {"file", "write", "check"} => p # FilePath(u) /\ p # DequeuePath(u)
    BY <1>3, Apart
  <2> HIDE DEF p
  <2>2. CASE ReceiveEOF(u)
    <3>1. p # DequeuePath(u)
      BY <2>1, <2>2 DEF ReceiveEOF
    <3>2. \/ disk' = disk /\ linked' = linked
          \/ /\ disk' = [r \in DOMAIN disk \cup {DequeuePath(u)} |-> IF r = DequeuePath(u) THEN {} ELSE disk[r]]
             /\ linked' = [linked EXCEPT ![u] = TRUE]
      BY <2>2 DEF ReceiveEOF
    <3>3. linked'[t] = linked[t]
      BY <2>0, <3>2
    <3>4. p \in DOMAIN disk => p \in DOMAIN disk' /\ disk'[p] = disk[p]
      BY <3>1, <3>2
    <3> QED BY <3>3, <3>4 DEF p
  <2>3. CASE WriteFile(u)
    <3>1. p # DequeuePath(u) /\ linked' = linked
      BY <2>1, <2>3 DEF WriteFile
    <3>2. PICK x : disk' = IF linked[u] THEN [disk EXCEPT ![DequeuePath(u)] = x] ELSE disk
      BY <2>3 DEF WriteFile
    <3>3. p \in DOMAIN disk => p \in DOMAIN disk' /\ disk'[p] = disk[p]
      BY <3>1, <3>2
    <3> QED BY <3>1, <3>3 DEF p
  <2>4. CASE CheckFile(u)
    <3>1. p # FilePath(u)
      BY <2>1, <2>4 DEF CheckFile
    <3>2. \/ disk' = disk /\ linked' = linked
          \/ /\ disk' = Restrict(disk, DOMAIN disk \ {FilePath(u)})
             /\ linked' = [v \in Transfer |-> linked[v] /\ ~(rpc[v] = "write" /\ DequeuePath(v) = FilePath(u))]
      BY <2>4 DEF CheckFile, RemoveFile
    <3>3. linked'[t] = linked[t]
      BY <2>0, <3>1, <3>2
    <3>4. p \in DOMAIN disk => p \in DOMAIN disk' /\ disk'[p] = disk[p]
      BY <3>1, <3>2 DEF Restrict
    <3> QED BY <3>3, <3>4 DEF p
  <2>5. UNCHANGED <<disk, linked>> \/ ReceiveEOF(u) \/ WriteFile(u) \/ CheckFile(u)
    BY DEF Client, Send, SendGivesUp, CloseAndRecv, Faults, ReadFails, FileChanges, StreamBreaks, Handler, NoKanban,
           ReceiveSendingKanban, ReceiveFileInfo, ReceiveDirInfo, ReceiveFileCont, EndOfSendingDir, ReceiveEOS,
           ReceiveOther, ReceiveFails, HandOver, Answer, diskVars
  <2> QED BY <2>2, <2>3, <2>4, <2>5 DEF p
<1> QED BY <1>1, <1>2, <1>3 DEF Good, Quiet

\* Nor does a file system that fails for another transfer.
LEMMA FileSystemGood ==
  ASSUME SendTypes, NEW u \in Transfer, Position(u), FileSystemFails(u),
         NEW t \in Transfer \ {u}, Position(t), Alone(t), Flat(t), Good(t)
  PROVE  Good(t)'
<1>1. Quiet(t) /\ UNCHANGED fileList
  BY FileSystemQuiet
<1>2. FilePath(t)' = FilePath(t)
  BY <1>1 DEF Quiet, FilePath, OutputDir, OutputDirPath
<1>3. ASSUME rpc[t] \in {"write", "check"}
      PROVE  /\ FilePath(t) \in DOMAIN disk => FilePath(t) \in DOMAIN disk' /\ disk'[FilePath(t)] = disk[FilePath(t)]
             /\ rpc[t] = "write" => linked'[t] = linked[t]
  <2>1. /\ rpc[u] \in {"file", "write", "check"}
        /\ \A p \in DOMAIN disk \ {FilePath(u), DequeuePath(u)} : p \in DOMAIN disk' /\ disk'[p] = disk[p]
        /\ \A v \in Transfer : rpc[v] = "write" /\ DequeuePath(v) # FilePath(u) => linked'[v] = linked[v]
    BY FileSystemDisk
  <2>2. DequeuePath(t) = FilePath(t)
    BY <1>3, FlatPaths
  <2>3. FilePath(t) # FilePath(u) /\ FilePath(t) # DequeuePath(u)
    BY <1>3, <2>1, Apart
  <2> QED BY <2>1, <2>2, <2>3
<1> QED BY <1>1, <1>2, <1>3 DEF Good, Quiet

\* Nor does the transfer's own.
LEMMA OwnGood ==
  ASSUME SendTypes, DiskTypes, NEW u \in Transfer, Position(u), Ended(u), Sending(u),
         Client(u) \/ Handler(u) \/ Faults(u), ~fault'[u], Alone(u), Flat(u), ~fault[u] => Good(u)
  PROVE  Good(u)'
<1>0. ~fault[u] /\ Good(u) /\ UNCHANGED fileList
  <2>1. fault[u] => fault'[u]
    BY DEF Client, Send, SendGivesUp, CloseAndRecv, Faults, ReadFails, FileChanges, StreamBreaks, Handler, NoKanban,
           ReceiveSendingKanban, ReceiveFileInfo, ReceiveDirInfo, ReceiveFileCont, ReceiveEOF, WriteFile, CheckFile,
           EndOfSendingDir, ReceiveEOS, ReceiveOther, ReceiveFails, HandOver, Answer, SendTypes
  <2>2. UNCHANGED fileList
    BY DEF Client, Send, SendGivesUp, CloseAndRecv, Faults, ReadFails, FileChanges, StreamBreaks, Handler, NoKanban,
           ReceiveSendingKanban, ReceiveFileInfo, ReceiveDirInfo, ReceiveFileCont, ReceiveEOF, WriteFile, CheckFile,
           EndOfSendingDir, ReceiveEOS, ReceiveOther, ReceiveFails, HandOver, Answer, clientVars
  <2> QED BY <2>1, <2>2
<1>1. CASE Faults(u)
  BY <1>0, <1>1 DEF Faults, ReadFails, FileChanges, StreamBreaks, SendTypes
<1>2. CASE Client(u)
  <2>1. UNCHANGED <<rpc, recvVars, result, diskVars>>
    BY <1>2 DEF Client, Send, SendGivesUp, CloseAndRecv
  <2> QED BY <1>0, <2>1 DEF Good, FilePath, OutputDir, OutputDirPath, recvVars, diskVars
<1>3. CASE NoKanban(u)
  BY <1>0, <1>3, Expected DEF NoKanban
<1>4. CASE ReceiveSendingKanban(u)
  <2>1. rpc'[u] = "top" /\ result' = result
    BY <1>4 DEF ReceiveSendingKanban, SendTypes
  <2> QED BY <1>0, <2>1 DEF Good
<1>5. CASE ReceiveFileInfo(u)
  <2>1. /\ rpc[u] \in {"top", "dir"} /\ rpc'[u] = "file" /\ rgood'[u] /\ rbuf'[u] = 0 /\ UNCHANGED <<result, dirs>>
        /\ rfile'[u] = Head(wire[u]).arg
    BY <1>5 DEF ReceiveFileInfo, SendTypes, diskVars
  <2>2. Head(wire[u]).arg \in File
    BY <1>5, FileInfoStep
  <2>3. ChunkCnt[rfile'[u]] \in Nat
    BY <2>1, <2>2, ListAssumption
  <2>4. 0 <= ChunkCnt[rfile'[u]]
    BY <2>3
  <2> QED BY <1>0, <2>1, <2>4 DEF Good, Active
<1>6. CASE ReceiveDirInfo(u)
  <2>1. rpc[u] = "top" /\ rpc'[u] = "dir" /\ UNCHANGED <<result, dirs>>
    BY <1>6 DEF ReceiveDirInfo, SendTypes, diskVars
  <2> QED BY <1>0, <2>1 DEF Good, Active
<1>7. CASE ReceiveFileCont(u)
  <2>1. /\ rbuf[u] < ChunkCnt[rfile[u]] /\ rpc' = rpc /\ result' = result /\ rbuf'[u] = rbuf[u] + 1
        /\ Head(wire[u]).code = "cont"
    BY <1>0, <1>7, FileContStep
  <2>2. rpc[u] = "file" /\ UNCHANGED <<rfile, dirs>>
    BY <1>7 DEF ReceiveFileCont, diskVars
  <2>3. rgood[u] /\ rgood \in [Transfer -> BOOLEAN]
    BY <1>0, <2>2 DEF Good, SendTypes, Active
  <2>4. rgood' = rgood \/ rgood' = [rgood EXCEPT ![u] = @ /\ Head(wire[u]).code = "cont"]
    BY <1>7 DEF ReceiveFileCont
  <2>5. rgood'[u]
    BY <2>1, <2>3, <2>4
  <2>6. rbuf[u] + 1 <= ChunkCnt[rfile[u]]
    <3>1. rfile[u] \in File /\ rbuf[u] \in Nat
      BY <2>2, CurrentLanding DEF SendTypes
    <3>2. ChunkCnt[rfile[u]] \in Nat
      BY <3>1, ListAssumption
    <3> QED BY <2>1, <3>1, <3>2
  <2> QED BY <1>0, <2>1, <2>2, <2>3, <2>5, <2>6 DEF Good, Active
<1>8. CASE ReceiveEOF(u)
  <2>1. rpc[u] = "file" /\ UNCHANGED recvVars
    BY <1>8 DEF ReceiveEOF
  <2>2. rgood[u] /\ rbuf[u] <= ChunkCnt[rfile[u]] /\ ~(rbuf[u] < ChunkCnt[rfile[u]])
    BY <1>0, <1>8, <2>1, EOFStep DEF Good, Active
  <2>3. rbuf[u] = ChunkCnt[rfile[u]]
    <3>1. rfile[u] \in File /\ rbuf[u] \in Nat
      BY <2>1, CurrentLanding DEF SendTypes
    <3>2. ChunkCnt[rfile[u]] \in Nat
      BY <3>1, ListAssumption
    <3> QED BY <2>2, <3>1, <3>2
  <2>4. /\ DequeuePath(u) = FilePath(u) /\ Front(DequeuePath(u)) = OutputDir(u) /\ OutputDir(u) \in Path
        /\ OutputDir(u) = OutputDirPath(u)
    BY <2>1, FlatPaths
  <2>5. OutputDir(u) \in dirs'
    <3>1. dirs' = dirs \cup {SubSeq(OutputDir(u), 1, n) : n \in 1..Len(OutputDir(u))}
      BY <1>8 DEF ReceiveEOF, MadeUpTo
    <3> DEFINE N == STRING
               a == OutputDir(u)
               m == MsDataPath[u]
    <3>2. a \in Seq(N)
      BY <2>4 DEF Path
    <3>3. m \in Seq(N) /\ m # <<>>
      BY PathAssumption
    <3>4. rdir[u] # NoItem => DirName[rdir[u]] \in N
      BY PathAssumption DEF SendTypes
    <3>5. a = m \/ (rdir[u] # NoItem /\ a = Append(m, DirName[rdir[u]]))
      BY <2>4 DEF OutputDirPath
    <3> HIDE DEF N, a, m
    <3>6. Len(a) # 0
      BY <3>3, <3>4, <3>5
    <3>7. SubSeq(a, 1, Len(a)) = a /\ Len(a) \in 1..Len(a)
      BY <3>2, <3>6
    <3> QED BY <3>1, <3>7 DEF a
  <2>6. /\ disk' = [p \in DOMAIN disk \cup {DequeuePath(u)} |-> IF p = DequeuePath(u) THEN {} ELSE disk[p]]
        /\ linked' = [linked EXCEPT ![u] = TRUE] /\ rpc' = [rpc EXCEPT ![u] = "write"] /\ result' = result
    BY <1>8, <2>4, <2>5 DEF ReceiveEOF
  <2>7. linked'[u] /\ rpc'[u] = "write"
    BY <2>6 DEF SendTypes
  <2>8. FilePath(u) \in DOMAIN disk' /\ disk'[FilePath(u)] = {}
    BY <2>4, <2>6
  <2>9. FilePath(u)' = FilePath(u)
    BY <2>1 DEF FilePath, OutputDir, OutputDirPath, recvVars
  <2> QED BY <1>0, <2>1, <2>2, <2>3, <2>6, <2>7, <2>8, <2>9 DEF Good, recvVars
<1>9. CASE WriteFile(u)
  <2>1. rpc[u] = "write" /\ rpc'[u] = "check" /\ UNCHANGED <<recvVars, result, dirs>>
    BY <1>9 DEF WriteFile, SendTypes
  <2>2. /\ rgood[u] /\ rbuf[u] = ChunkCnt[rfile[u]] /\ rbuf[u] <= ChunkCnt[rfile[u]] /\ linked[u]
        /\ FilePath(u) \in DOMAIN disk /\ disk[FilePath(u)] = {}
    BY <1>0, <2>1 DEF Good, Active
  <2>3. DequeuePath(u) = FilePath(u)
    BY <2>1, FlatPaths
  <2>4. disk' = [disk EXCEPT ![FilePath(u)] = @ \cup {rfile[u]}]
    BY <1>9, <2>2, <2>3 DEF WriteFile
  <2>5. FilePath(u) \in DOMAIN disk' /\ disk'[FilePath(u)] = {rfile[u]}
    BY <2>2, <2>4
  <2>6. FilePath(u)' = FilePath(u)
    BY <2>1 DEF FilePath, OutputDir, OutputDirPath, recvVars
  <2> QED BY <1>0, <2>1, <2>2, <2>5, <2>6 DEF Good, recvVars
<1>10. CASE CheckFile(u)
  <2>1. rpc[u] = "check" /\ dirs' = dirs
    BY <1>10 DEF CheckFile
  <2>2. FilePath(u) \in DOMAIN disk /\ disk[FilePath(u)] = {rfile[u]}
    BY <1>0, <2>1 DEF Good, Active
  <2>3. FileDone(u) /\ result' = result
    BY <1>10, <2>2 DEF CheckFile
  <2>4. rpc'[u] \in {"top", "dir"}
    BY <2>3 DEF FileDone, SendTypes
  <2> QED BY <1>0, <2>1, <2>2, <2>3, <2>4 DEF Good
<1>11. CASE EndOfSendingDir(u)
  <2>1. rpc[u] = "dir" /\ rpc'[u] = "top" /\ UNCHANGED <<result, dirs>>
    BY <1>11 DEF EndOfSendingDir, SendTypes, diskVars
  <2> QED BY <1>0, <2>1 DEF Good, Active
<1>12. CASE ReceiveEOS(u)
  <2>1. result'[u] = "ok" /\ rpc'[u] = "handover"
    BY <1>0, <1>12, EOSStep DEF ReceiveEOS, Finish, SendTypes
  <2> QED BY <2>1 DEF Good, Active
<1>13. CASE ReceiveOther(u)
  BY <1>0, <1>13, OtherStep
<1>14. CASE ReceiveFails(u)
  <2> SUFFICES FALSE
    OBVIOUS
  <2>1. rpc[u] \in {"top", "dir", "file"}
    BY <1>14 DEF ReceiveFails
  <2>2. /\ ~RecvError(u)
        /\ rpc[u] = "dir" /\ wire[u] # <<>> => Head(wire[u]).code \in {"fileInfo", "endDir"}
        /\ rpc[u] = "file" /\ wire[u] # <<>> => Head(wire[u]).code \in {"cont", "eof"}
    BY <1>0, <2>1, Expected
  <2> QED BY <1>14, <2>1, <2>2 DEF ReceiveFails, Recv
<1>15. CASE HandOver(u) \/ Answer(u)
  <2>1. rpc'[u] \in {"answer", "done"} /\ result' = result
    BY <1>15 DEF HandOver, Answer, SendTypes
  <2> QED BY <1>0, <2>1 DEF Good, Active
<1> QED BY <1>1, <1>2, <1>3, <1>4, <1>5, <1>6, <1>7, <1>8, <1>9, <1>10, <1>11, <1>12, <1>13, <1>14, <1>15 DEF Handler

\* Without a fault, transfers that are alone and flat go well.
LEMMA WellHolds == Spec => []WellInv
<1>1. Init => WellInv
  <2> SUFFICES ASSUME Init PROVE WellInv
    OBVIOUS
  <2>1. ASSUME NEW t \in Transfer PROVE Good(t)
    <3>1. rpc[t] = "kanban" /\ result[t] = "none"
      BY DEF Init
    <3> QED BY <3>1 DEF Good, Active
  <2> QED BY <2>1, InitInv DEF WellInv, GoesWell
<1>2. WellInv /\ [Next]_vars => WellInv'
  <2> SUFFICES ASSUME WellInv, [Next]_vars PROVE WellInv'
    OBVIOUS
  <2>0. SendInv' /\ SendTypes /\ DiskTypes /\ \A t \in Transfer : Position(t) /\ Ended(t) /\ Sending(t) /\ GoesWell(t)
    BY StepInv DEF WellInv, SendInv, Positions
  <2>1. ASSUME NEW u \in Transfer, Client(u) \/ Handler(u) \/ FileSystemFails(u) \/ Faults(u), NEW t \in Transfer
        PROVE  GoesWell(t)'
    <3>1. UNCHANGED fileList
      BY <2>1 DEF FileSystemFails, CreateFails, WriteFails, CheckFails, Client, Send, SendGivesUp, CloseAndRecv, Faults, ReadFails, FileChanges, StreamBreaks, Handler,
            NoKanban, ReceiveSendingKanban, ReceiveFileInfo, ReceiveDirInfo, ReceiveFileCont, ReceiveEOF, WriteFile,
            CheckFile, EndOfSendingDir, ReceiveEOS, ReceiveOther, ReceiveFails, HandOver, Answer, clientVars
    <3>2. Alone(t)' = Alone(t) /\ Flat(t)' = Flat(t)
      BY <3>1, AloneSame DEF Flat
    <3>3. CASE t = u
      <4>1. ASSUME ~fault'[t], Alone(t), Flat(t) PROVE Good(t)'
        <5>1. ~FileSystemFails(u)
          BY <2>0, <3>3, <4>1, FileSystemStep
        <5> QED BY <2>0, <2>1, <3>3, <4>1, <5>1, OwnGood DEF GoesWell
      <4> QED BY <3>2, <4>1 DEF GoesWell
    <3>4. CASE t # u
      <4>1. t \in Transfer \ {u}
        BY <3>4
      <4>2. fault'[t] = fault[t]
        BY <2>0, <2>1, <4>1, OthersQuiet, FileSystemQuiet DEF Quiet
      <4>3. ASSUME ~fault'[t], Alone(t), Flat(t) PROVE Good(t)'
        BY <2>0, <2>1, <4>1, <4>2, <4>3, OthersGood, FileSystemGood DEF GoesWell
      <4> QED BY <3>2, <4>3 DEF GoesWell
    <3> QED BY <3>3, <3>4
  <2>2. ASSUME UNCHANGED <<clientVars, wire, broken, rpc, recvVars, result, diskVars, handed, fault>>,
               NEW t \in Transfer
        PROVE  GoesWell(t)'
    <3>1. UNCHANGED fileList
      BY <2>2 DEF clientVars
    <3>2. Alone(t)' = Alone(t) /\ Flat(t)' = Flat(t)
      BY <3>1, AloneSame DEF Flat
    <3>3. Good(t) => Good(t)'
      BY <2>2 DEF Good, FilePath, OutputDir, OutputDirPath, recvVars, diskVars
    <3> QED BY <2>0, <2>2, <3>2, <3>3 DEF GoesWell
  <2>3. CASE BrokerTakes
    BY <2>0, <2>2, <2>3 DEF BrokerTakes, WellInv
  <2>4. CASE UNCHANGED vars
    BY <2>0, <2>2, <2>4 DEF vars, WellInv
  <2> QED BY <2>0, <2>1, <2>3, <2>4 DEF Next, WellInv
<1> QED BY <1>1, <1>2, PTL DEF Spec

\* receiveFileInfo, receiveFileCont, receiveEOF and the loop around them answer
\* with an error only if the client, the stream or the file system (os.Create,
\* f.Write, os.Open, the read for the hash) failed, if another file is written to
\* one of the transfer's paths, or if a file lies in a subdirectory.
THEOREM FailuresHaveReasons == Spec => []FailsForAReason
<1>1. WellInv => FailsForAReason
  BY DEF WellInv, GoesWell, Good, FailsForAReason
<1> QED BY <1>1, WellHolds, PTL
=============================================================================
