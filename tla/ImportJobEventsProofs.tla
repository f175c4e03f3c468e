------------------------ MODULE ImportJobEventsProofs ------------------------
(***************************************************************************)
(* Proofs about ImportJobEvents, for any number of jobs, whichever of them *)
(* fail or are killed, and for a pipe of any size.                         *)
(***************************************************************************)
EXTENDS ImportJobEvents, FiniteSetTheorems, SequenceTheorems, TLAPS

(* A message is known by its job and its number in the program of the job. *)
Item(j, n) == <<j, Program(j)[n]>>
Numbers(j) == 1 .. Len(Program(j))
Occurs(s, j, n) == \E k \in DOMAIN s : s[k] = Item(j, n)

LEMMA ProgramFacts ==
  ASSUME NEW j \in Jobs
  PROVE  /\ Len(Program(j)) \in Nat /\ Len(Program(j)) > 0
         /\ \A n \in Numbers(j) :
              /\ Program(j)[n] \in Messages
              /\ Program(j)[n] = "finished" <=> n = Len(Program(j))
         /\ \A m, n \in Numbers(j) : Program(j)[m] = Program(j)[n] => m = n
<1>1. CASE j \in Failing
  <2>1. Program(j) = <<"started", "parsed", "failed", "finished">>
    BY <1>1 DEF Program
  <2>2. Len(Program(j)) = 4 /\ Numbers(j) = {1, 2, 3, 4}
    BY <2>1 DEF Numbers
  <2>3. QED BY <2>1, <2>2 DEF Messages
<1>2. CASE j \notin Failing
  <2>1. Program(j) = <<"started", "parsed", "validated", "stored", "finished">>
    BY <1>2 DEF Program
  <2>2. Len(Program(j)) = 5 /\ Numbers(j) = {1, 2, 3, 4, 5}
    BY <2>1 DEF Numbers
  <2>3. QED BY <2>1, <2>2 DEF Messages
<1>3. QED BY <1>1, <1>2

LEMMA ItemsDiffer ==
  ASSUME NEW i \in Jobs, NEW j \in Jobs, NEW m \in Numbers(i), NEW n \in Numbers(j),
         Item(i, m) = Item(j, n)
  PROVE  i = j /\ m = n
  BY ProgramFacts DEF Item

(* A sequence of such messages, those of one job in the order of the job.  *)
InProgramOrder(s) ==
  /\ \A k \in DOMAIN s : \E j \in Jobs : \E n \in Numbers(j) : s[k] = Item(j, n)
  /\ \A k, l \in DOMAIN s : k < l =>
       \A j \in Jobs : \A m, n \in Numbers(j) :
         s[k] = Item(j, m) /\ s[l] = Item(j, n) => m < n

LEMMA AppendInOrder ==
  ASSUME NEW S, NEW s \in Seq(S), InProgramOrder(s),
         NEW j \in Jobs, NEW n \in Numbers(j), Item(j, n) \in S,
         \A m \in Numbers(j) : Occurs(s, j, m) => m < n
  PROVE  /\ InProgramOrder(Append(s, Item(j, n)))
         /\ \A i \in Jobs : \A m \in Numbers(i) :
              Occurs(Append(s, Item(j, n)), i, m) <=> Occurs(s, i, m) \/ (i = j /\ m = n)
<1> DEFINE x == Item(j, n)
           t == Append(s, x)
<1>1. /\ DOMAIN s = 1 .. Len(s) /\ Len(s) \in Nat
      /\ DOMAIN t = 1 .. (Len(s) + 1)
      /\ \A k \in DOMAIN s : t[k] = s[k]
      /\ t[Len(s) + 1] = x
  OBVIOUS
<1>2. \A k \in DOMAIN t : k \in DOMAIN s \/ k = Len(s) + 1
  BY <1>1
<1>3. \A k \in DOMAIN s : k \in DOMAIN t /\ k < Len(s) + 1
  BY <1>1
<1>4. Len(s) + 1 \in DOMAIN t
  BY <1>1
<1> HIDE DEF t, x
<1>5. ASSUME NEW i \in Jobs, NEW m \in Numbers(i)
      PROVE  Occurs(t, i, m) <=> Occurs(s, i, m) \/ (i = j /\ m = n)
  <2>1. x = Item(i, m) <=> i = j /\ m = n
    BY ItemsDiffer DEF x
  <2>2. QED BY <1>1, <1>2, <1>3, <1>4, <2>1 DEF Occurs
<1>6. \A k \in DOMAIN t : \E i \in Jobs : \E m \in Numbers(i) : t[k] = Item(i, m)
  BY <1>1, <1>2 DEF InProgramOrder, x
<1>7. ASSUME NEW k \in DOMAIN t, NEW l \in DOMAIN t, k < l,
             NEW i \in Jobs, NEW p \in Numbers(i), NEW q \in Numbers(i),
             t[k] = Item(i, p), t[l] = Item(i, q)
      PROVE  p < q
  <2>1. k \in DOMAIN s
    BY <1>1, <1>2, <1>7
  <2>2. CASE l \in DOMAIN s
    BY <1>1, <1>7, <2>1, <2>2 DEF InProgramOrder
  <2>3. CASE l = Len(s) + 1
    <3>1. i = j /\ q = n
      BY <1>1, <1>7, <2>3, ItemsDiffer DEF x
    <3>2. Occurs(s, j, p)
      BY <1>1, <1>7, <2>1, <3>1 DEF Occurs
    <3>3. QED BY <3>1, <3>2
  <2>4. QED BY <1>2, <2>2, <2>3
<1>8. InProgramOrder(t)
  BY <1>6, <1>7 DEF InProgramOrder
<1>9. QED BY <1>5, <1>8 DEF t, x

(* Taking the first message, n of job j, takes the least of that job.      *)
TakesFirst(s, j, n) ==
  /\ Head(s) = Item(j, n) /\ Occurs(s, j, n)
  /\ \A m \in Numbers(j) : Occurs(s, j, m) => n <= m
  /\ \A i \in Jobs : \A m \in Numbers(i) :
       Occurs(Tail(s), i, m) <=> Occurs(s, i, m) /\ ~(i = j /\ m = n)

LEMMA TailInOrder ==
  ASSUME NEW S, NEW s \in Seq(S), s # <<>>, InProgramOrder(s)
  PROVE  /\ InProgramOrder(Tail(s))
         /\ \E j \in Jobs : \E n \in Numbers(j) : TakesFirst(s, j, n)
<1> DEFINE t == Tail(s)
<1>1. /\ Len(s) \in Nat \ {0} /\ DOMAIN s = 1 .. Len(s)
      /\ DOMAIN t = 1 .. (Len(s) - 1)
      /\ \A k \in 1 .. (Len(s) - 1) : t[k] = s[k + 1]
      /\ Head(s) = s[1]
  OBVIOUS
<1>2. /\ \A k \in DOMAIN t : k + 1 \in DOMAIN s /\ t[k] = s[k + 1] /\ 1 < k + 1
      /\ \A k \in DOMAIN s : k = 1 \/ (k - 1 \in DOMAIN t /\ t[k - 1] = s[k] /\ 1 < k)
      /\ 1 \in DOMAIN s
      /\ \A k, l \in DOMAIN t : k < l => k + 1 < l + 1
  <2>1. \A k \in 1 .. (Len(s) - 1) : k + 1 \in 1 .. Len(s) /\ 1 < k + 1
    BY <1>1
  <2>2. \A k \in 1 .. Len(s) : k = 1 \/ (k - 1 \in 1 .. (Len(s) - 1) /\ (k - 1) + 1 = k /\ 1 < k)
    BY <1>1
  <2>3. 1 \in 1 .. Len(s) /\ \A k, l \in 1 .. (Len(s) - 1) : k < l => k + 1 < l + 1
    BY <1>1
  <2> HIDE DEF t
  <2>4. QED BY <1>1, <2>1, <2>2, <2>3
<1> HIDE DEF t
<1>3a. PICK j \in Jobs : \E n \in Numbers(j) : s[1] = Item(j, n)
  BY <1>2 DEF InProgramOrder
<1>3. PICK n \in Numbers(j) : s[1] = Item(j, n)
  BY <1>3a
<1>4. InProgramOrder(t)
  BY <1>2 DEF InProgramOrder
<1>5. n \in Int /\ \A m \in Numbers(j) : m \in Int
  BY DEF Numbers
<1>6. ASSUME NEW k \in DOMAIN s, k # 1, NEW m \in Numbers(j), s[k] = Item(j, m)
      PROVE  n < m
  BY <1>2, <1>3, <1>6 DEF InProgramOrder
<1>7. \A m \in Numbers(j) : Occurs(s, j, m) => n <= m
  <2> SUFFICES ASSUME NEW m \in Numbers(j), NEW k \in DOMAIN s, s[k] = Item(j, m)
               PROVE  n <= m
    BY DEF Occurs
  <2>1. CASE k = 1
    BY <1>3, <1>5, <2>1, ItemsDiffer
  <2>2. CASE k # 1
    BY <1>5, <1>6, <2>2
  <2>3. QED BY <2>1, <2>2
<1>8. ASSUME NEW i \in Jobs, NEW m \in Numbers(i)
      PROVE  Occurs(t, i, m) <=> Occurs(s, i, m) /\ ~(i = j /\ m = n)
  <2>1. Occurs(t, i, m) => Occurs(s, i, m)
    BY <1>2 DEF Occurs
  <2>2. ~Occurs(t, j, n)
    <3> SUFFICES ASSUME NEW k \in DOMAIN t, t[k] = Item(j, n) PROVE FALSE
      BY DEF Occurs
    <3>1. k + 1 \in DOMAIN s /\ s[k + 1] = Item(j, n) /\ 1 < k + 1
      BY <1>2
    <3>2. n < n
      BY <1>2, <1>3, <3>1 DEF InProgramOrder
    <3>3. QED BY <1>5, <3>2
  <2>3. ASSUME Occurs(s, i, m), ~(i = j /\ m = n) PROVE Occurs(t, i, m)
    <3>1. PICK k \in DOMAIN s : s[k] = Item(i, m)
      BY <2>3 DEF Occurs
    <3>2. k # 1
      BY <1>3, <2>3, <3>1, ItemsDiffer
    <3>3. QED BY <1>2, <3>1, <3>2 DEF Occurs
  <2>4. QED BY <2>1, <2>2, <2>3
<1>9. Head(s) = Item(j, n) /\ Occurs(s, j, n)
  BY <1>1, <1>2, <1>3 DEF Occurs
<1>10. TakesFirst(s, j, n)
  BY <1>7, <1>8, <1>9 DEF TakesFirst, t
<1>11. QED BY <1>4, <1>10 DEF t
-----------------------------------------------------------------------------
(* How far each job is: its first r[j] messages are received, those up to  *)
(* w[j] are written to the pipe, the rest of what it has put is in its     *)
(* buffer, or lost with it.                                                *)
Progress(r, w) ==
  /\ r \in [Jobs -> Nat] /\ w \in [Jobs -> Nat]
  /\ \A j \in Jobs : r[j] <= w[j] /\ w[j] <= puts[j]
  /\ \A j \in Jobs : process[j] # "killed" =>
       /\ w[j] + Len(buffer[j]) = puts[j]
       /\ \A k \in DOMAIN buffer[j] : buffer[j][k] = Program(j)[w[j] + k]
  /\ \A j \in Jobs : \A n \in Numbers(j) :
       /\ Occurs(collected, j, n) <=> n <= r[j] /\ n < Len(Program(j))
       /\ Occurs(pipe, j, n) <=> r[j] < n /\ n <= w[j]
  /\ finished = Cardinality({j \in Jobs : r[j] = Len(Program(j))})

(* The two sequences of messages are in order.                             *)
SequencesOK == InProgramOrder(collected) /\ InProgramOrder(pipe)

(* What the parent has done so far.                                        *)
ParentOK ==
  /\ parent = "starting" => launched < JobCount /\ finished = 0
  /\ parent \in {"starting", "collecting"} => joined = 0 /\ finished < JobCount
  /\ parent \in {"joining", "returned"} => finished = JobCount
  /\ parent = "joining" => joined < JobCount
  /\ parent = "returned" => joined = JobCount
  /\ \A j \in Jobs : j > launched => process[j] = "new"
  /\ \A j \in Jobs : j <= joined => process[j] = "exited"
  /\ puts \in [Jobs -> Nat]
  /\ \A j \in Jobs : writer = j => process[j] # "new"
  /\ \A j \in Jobs : process[j] = "running" /\ writer = j => buffer[j] # <<>>

IInv == TypeOK /\ ParentOK /\ SequencesOK /\ \E r, w : Progress(r, w)

LEMMA InitIInv == Init => IInv
<1> SUFFICES ASSUME Init PROVE IInv
  OBVIOUS
<1> USE ImportAssumption DEF Init
<1>1. TypeOK
  <2>1. /\ parent \in {"starting", "collecting", "joining", "returned", "raised"}
        /\ launched \in 0 .. JobCount /\ finished \in 0 .. JobCount /\ joined \in 0 .. JobCount
        /\ process \in [Jobs -> {"new", "running", "exited", "killed"}]
        /\ writer \in Jobs \cup {0}
    OBVIOUS
  <2>2. <<>> \in Seq(Messages) /\ <<>> \in Seq(Jobs \X Messages)
        /\ <<>> \in Seq(Jobs \X (Messages \ {"finished"}))
    OBVIOUS
  <2>3. \A j \in Jobs : puts[j] \in 0 .. Len(Program(j))
    BY ProgramFacts
  <2>4. buffer \in [Jobs -> Seq(Messages)]
    BY <2>2
  <2>5. QED BY <2>1, <2>2, <2>3, <2>4 DEF TypeOK
<1>2. ParentOK
  BY DEF ParentOK, Jobs
<1>3. SequencesOK
  BY DEF SequencesOK, InProgramOrder
<1>4. Progress([j \in Jobs |-> 0], [j \in Jobs |-> 0])
  <2> DEFINE z == [j \in Jobs |-> 0]
  <2>1. {j \in Jobs : z[j] = Len(Program(j))} = {}
    BY ProgramFacts
  <2>2. finished = Cardinality({j \in Jobs : z[j] = Len(Program(j))})
    BY <2>1, FS_EmptySet
  <2>3. z \in [Jobs -> Nat] /\ \A j \in Jobs : z[j] = 0
    OBVIOUS
  <2> HIDE DEF z
  <2>4. \A j \in Jobs : \A n \in Numbers(j) :
          /\ Occurs(collected, j, n) <=> n <= z[j] /\ n < Len(Program(j))
          /\ Occurs(pipe, j, n) <=> z[j] < n /\ n <= z[j]
    BY <2>3 DEF Occurs, Numbers
  <2>5. Progress(z, z)
    BY <2>2, <2>3, <2>4 DEF Progress
  <2>6. QED BY <2>5 DEF z
<1>5. QED BY <1>1, <1>2, <1>3, <1>4 DEF IInv

(* A step that receives nothing and writes nothing.                        *)
LEMMA ProgressStays ==
  ASSUME NEW r, NEW w, Progress(r, w), UNCHANGED <<pipe, collected, finished>>,
         \A j \in Jobs : w[j] <= puts'[j],
         \A j \in Jobs : process'[j] # "killed" =>
           /\ w[j] + Len(buffer'[j]) = puts'[j]
           /\ \A k \in DOMAIN buffer'[j] : buffer'[j][k] = Program(j)[w[j] + k]
  PROVE  Progress(r, w)'
  BY DEF Progress, Occurs

LEMMA StartIInv == ASSUME IInv, Start PROVE IInv'
<1> USE ImportAssumption DEF IInv
<1>1. /\ parent = "starting" /\ launched < JobCount /\ launched \in Nat
      /\ launched' = launched + 1 /\ launched + 1 \in Jobs
      /\ process[launched + 1] = "new"
      /\ process' = [process EXCEPT ![launched + 1] = "running"]
      /\ parent' = (IF launched + 1 = JobCount THEN "collecting" ELSE parent)
      /\ UNCHANGED <<puts, buffer, writer, pipe, collected, finished, joined>>
  <2>1. parent = "starting" /\ launched < JobCount /\ launched \in Nat
    BY DEF Start, ParentOK, TypeOK
  <2>2. launched + 1 \in Jobs /\ launched + 1 > launched
    BY <2>1 DEF Jobs
  <2>3. process[launched + 1] = "new"
    BY <2>2 DEF ParentOK
  <2>4. QED BY <2>1, <2>2, <2>3 DEF Start
<1>2. PICK r, w : Progress(r, w)
  OBVIOUS
<1>3. /\ process'[launched + 1] = "running"
      /\ \A j \in Jobs : j # launched + 1 => process'[j] = process[j]
      /\ process' \in [Jobs -> {"new", "running", "exited", "killed"}]
  BY <1>1 DEF TypeOK
<1>4. TypeOK'
  <2>1. parent' \in {"starting", "collecting", "joining", "returned", "raised"}
    BY <1>1
  <2>2. launched' \in 0 .. JobCount
    BY <1>1 DEF Jobs
  <2>3. QED BY <1>1, <1>3, <2>1, <2>2 DEF TypeOK
<1>5. ParentOK'
  <2>1. /\ parent' = "starting" => launched' < JobCount
        /\ parent' \in {"starting", "collecting"} /\ finished' = 0 /\ joined' = 0
    BY <1>1 DEF ParentOK
  <2>2. \A j \in Jobs : j > launched' => process'[j] = "new"
    <3>1. \A j \in Jobs : j > launched + 1 => j > launched /\ j # launched + 1
      BY <1>1 DEF Jobs
    <3>2. QED BY <1>1, <1>3, <3>1 DEF ParentOK
  <2>3. \A j \in Jobs : ~(j <= joined')
    BY <2>1 DEF Jobs
  <2>4. writer # launched + 1
    BY <1>1 DEF ParentOK
  <2>5. QED BY <1>1, <1>3, <2>1, <2>2, <2>3, <2>4 DEF ParentOK
<1>6. SequencesOK'
  BY <1>1 DEF SequencesOK
<1>7. Progress(r, w)'
  BY <1>1, <1>2, <1>3, ProgressStays DEF Progress
<1>8. QED BY <1>4, <1>5, <1>6, <1>7

LEMMA JoinIInv == ASSUME IInv, Join PROVE IInv'
<1> USE ImportAssumption DEF IInv
<1>1. /\ parent = "joining" /\ joined < JobCount /\ joined \in Nat
      /\ UNCHANGED <<launched, process, puts, buffer, writer, pipe, collected, finished>>
      /\ \/ /\ process[joined + 1] = "exited" /\ joined' = joined + 1
            /\ parent' = (IF joined + 1 = JobCount THEN "returned" ELSE parent)
         \/ parent' = "raised" /\ joined' = joined
  BY DEF Join, ParentOK, TypeOK
<1>2. PICK r, w : Progress(r, w)
  OBVIOUS
<1>3. TypeOK'
  <2>1. joined' \in 0 .. JobCount
    BY <1>1
  <2>2. parent' \in {"starting", "collecting", "joining", "returned", "raised"}
    BY <1>1
  <2>3. QED BY <1>1, <2>1, <2>2 DEF TypeOK
<1>4. ParentOK'
  <2>1. \A j \in Jobs : j <= joined' => process'[j] = "exited"
    <3>1. \A j \in Jobs : j <= joined + 1 => j <= joined \/ j = joined + 1
      BY <1>1 DEF Jobs
    <3>2. QED BY <1>1, <3>1 DEF ParentOK
  <2>2. /\ parent' \notin {"starting", "collecting"} /\ finished' = JobCount
        /\ parent' = "joining" => joined' < JobCount
        /\ parent' = "returned" => joined' = JobCount
    BY <1>1 DEF ParentOK
  <2>3. QED BY <1>1, <2>1, <2>2 DEF ParentOK
<1>5. SequencesOK'
  BY <1>1 DEF SequencesOK
<1>6. Progress(r, w)'
  BY <1>1, <1>2, ProgressStays DEF Progress
<1>7. QED BY <1>3, <1>4, <1>5, <1>6

LEMMA PutIInv == ASSUME IInv, NEW j \in Jobs, Put(j) PROVE IInv'
<1> USE DEF IInv
<1> DEFINE x == Program(j)[puts[j] + 1]
<1>1. /\ process[j] = "running" /\ puts[j] < Len(Program(j)) /\ puts[j] \in Nat
      /\ puts' = [puts EXCEPT ![j] = puts[j] + 1]
      /\ buffer' = [buffer EXCEPT ![j] = Append(buffer[j], x)]
      /\ buffer[j] \in Seq(Messages)
      /\ UNCHANGED <<parent, launched, process, writer, pipe, collected, finished, joined>>
  BY DEF Put, ParentOK, TypeOK
<1>2. puts[j] + 1 \in Numbers(j) /\ x \in Messages
  <2>1. puts[j] + 1 \in Numbers(j)
    BY <1>1, ProgramFacts DEF Numbers
  <2>2. QED BY <2>1, ProgramFacts
<1>3. PICK r, w : Progress(r, w)
  OBVIOUS
<1> HIDE DEF x
<1>4. /\ puts' \in [Jobs -> Nat] /\ puts'[j] = puts[j] + 1
      /\ \A i \in Jobs : i # j => puts'[i] = puts[i] /\ buffer'[i] = buffer[i]
      /\ buffer'[j] = Append(buffer[j], x) /\ buffer'[j] \in Seq(Messages)
      /\ buffer' \in [Jobs -> Seq(Messages)]
  BY <1>1, <1>2 DEF ParentOK, TypeOK
<1>5. /\ Len(buffer[j]) \in Nat /\ Len(buffer'[j]) = Len(buffer[j]) + 1
      /\ DOMAIN buffer[j] = 1 .. Len(buffer[j])
      /\ DOMAIN buffer'[j] = 1 .. (Len(buffer[j]) + 1)
      /\ \A k \in DOMAIN buffer[j] : buffer'[j][k] = buffer[j][k]
      /\ buffer'[j][Len(buffer[j]) + 1] = x
  BY <1>1, <1>2, <1>4
<1>6. TypeOK'
  <2>1. \A i \in Jobs : puts'[i] \in 0 .. Len(Program(i))
    <3>1. puts'[j] \in 0 .. Len(Program(j))
      BY <1>1, <1>4, ProgramFacts
    <3>2. QED BY <1>4, <3>1 DEF TypeOK
  <2>2. QED BY <1>1, <1>4, <2>1 DEF TypeOK
<1>7. ParentOK'
  <2>1. buffer'[j] # <<>>
    BY <1>4, <1>5
  <2>2. \A i \in Jobs : process'[i] = "running" /\ writer' = i => buffer'[i] # <<>>
    BY <1>1, <1>4, <2>1 DEF ParentOK
  <2>3. QED BY <1>1, <1>4, <2>2 DEF ParentOK
<1>8. SequencesOK'
  BY <1>1 DEF SequencesOK
<1>9. Progress(r, w)'
  <2>1. /\ w \in [Jobs -> Nat] /\ w[j] <= puts[j] /\ w[j] + Len(buffer[j]) = puts[j]
        /\ \A k \in DOMAIN buffer[j] : buffer[j][k] = Program(j)[w[j] + k]
        /\ w[j] \in Nat
    BY <1>1, <1>3 DEF Progress
  <2>2. w[j] <= puts'[j] /\ w[j] + Len(buffer'[j]) = puts'[j]
    BY <1>1, <1>4, <1>5, <2>1
  <2>3. buffer'[j][Len(buffer[j]) + 1] = Program(j)[w[j] + (Len(buffer[j]) + 1)]
    <3>1. w[j] + (Len(buffer[j]) + 1) = puts[j] + 1
      BY <1>5, <2>1
    <3>2. QED BY <1>5, <3>1 DEF x
  <2>4. \A k \in DOMAIN buffer'[j] : k \in DOMAIN buffer[j] \/ k = Len(buffer[j]) + 1
    BY <1>5
  <2>5. \A k \in DOMAIN buffer'[j] : buffer'[j][k] = Program(j)[w[j] + k]
    BY <1>5, <2>1, <2>3, <2>4
  <2>6. \A i \in Jobs : w[i] <= puts'[i]
    BY <1>3, <1>4, <2>2 DEF Progress
  <2>7. \A i \in Jobs : process'[i] # "killed" =>
          /\ w[i] + Len(buffer'[i]) = puts'[i]
          /\ \A k \in DOMAIN buffer'[i] : buffer'[i][k] = Program(i)[w[i] + k]
    BY <1>1, <1>3, <1>4, <2>2, <2>5 DEF Progress
  <2>8. QED BY <1>1, <1>3, <2>6, <2>7, ProgressStays
<1>10. QED BY <1>6, <1>7, <1>8, <1>9

LEMMA LockIInv == ASSUME IInv, NEW j \in Jobs, TakeWriteLock(j) PROVE IInv'
<1> USE DEF IInv
<1>1. /\ process[j] = "running" /\ buffer[j] # <<>> /\ writer' = j
      /\ UNCHANGED <<parent, launched, process, puts, buffer, pipe, collected, finished, joined>>
  BY DEF TakeWriteLock
<1>2. PICK r, w : Progress(r, w)
  OBVIOUS
<1>3. TypeOK' /\ SequencesOK'
  BY <1>1 DEF TypeOK, SequencesOK
<1>4. ParentOK'
  BY <1>1 DEF ParentOK
<1>5. Progress(r, w)'
  BY <1>1, <1>2, ProgressStays DEF Progress
<1>6. QED BY <1>3, <1>4, <1>5

LEMMA EndIInv == ASSUME IInv, NEW j \in Jobs, Exit(j) \/ Kill(j) PROVE IInv'
<1> USE DEF IInv
<1>1. /\ process[j] = "running"
      /\ process' = [process EXCEPT ![j] = IF Exit(j) THEN "exited" ELSE "killed"]
      /\ process[j] # "killed" /\ process[j] # "exited" /\ process[j] # "new"
      /\ UNCHANGED <<parent, launched, puts, writer, pipe, collected, finished, joined>>
      /\ buffer' = buffer \/ (~Exit(j) /\ buffer' = [buffer EXCEPT ![j] = <<>>])
  BY DEF Exit, Kill
<1>2. PICK r, w : Progress(r, w)
  OBVIOUS
<1>3. /\ process'[j] \in {"exited", "killed"}
      /\ process'[j] # "killed" => buffer' = buffer
      /\ \A i \in Jobs : i # j => process'[i] = process[i] /\ buffer'[i] = buffer[i]
      /\ process' \in [Jobs -> {"new", "running", "exited", "killed"}]
  BY <1>1 DEF TypeOK
<1>4. TypeOK'
  <2>1. <<>> \in Seq(Messages)
    OBVIOUS
  <2>2. buffer' \in [Jobs -> Seq(Messages)]
    BY <1>1, <2>1 DEF TypeOK
  <2>3. QED BY <1>1, <1>3, <2>2 DEF TypeOK
<1>5. ParentOK'
  <2>1. ~(j > launched) /\ ~(j <= joined)
    BY <1>1 DEF ParentOK
  <2>2. QED BY <1>1, <1>3, <2>1 DEF ParentOK
<1>6. SequencesOK'
  BY <1>1 DEF SequencesOK
<1>7. Progress(r, w)'
  <2>1. \A i \in Jobs : process'[i] # "killed" => process[i] # "killed" /\ buffer'[i] = buffer[i]
    BY <1>1, <1>3
  <2>2. QED BY <1>1, <1>2, <2>1, ProgressStays DEF Progress
<1>8. QED BY <1>4, <1>5, <1>6, <1>7

LEMMA WriteIInv == ASSUME IInv, NEW j \in Jobs, Write(j) PROVE IInv'
<1> USE DEF IInv
<1>1. /\ process[j] = "running" /\ writer = j /\ buffer[j] # <<>>
      /\ pipe' = Append(pipe, <<j, Head(buffer[j])>>)
      /\ buffer' = [buffer EXCEPT ![j] = Tail(buffer[j])]
      /\ writer' = 0
      /\ buffer[j] \in Seq(Messages) /\ pipe \in Seq(Jobs \X Messages)
      /\ UNCHANGED <<parent, launched, process, puts, collected, finished, joined>>
  BY DEF Write, ParentOK, TypeOK
<1>2. PICK r, w : Progress(r, w)
  OBVIOUS
<1> DEFINE n == w[j] + 1
           v == [w EXCEPT ![j] = n]
<1>3. /\ Len(buffer[j]) \in Nat \ {0} /\ Head(buffer[j]) = buffer[j][1] /\ 1 \in DOMAIN buffer[j]
      /\ Tail(buffer[j]) \in Seq(Messages) /\ Len(Tail(buffer[j])) = Len(buffer[j]) - 1
      /\ \A k \in DOMAIN Tail(buffer[j]) :
           k \in Int /\ k + 1 \in DOMAIN buffer[j] /\ Tail(buffer[j])[k] = buffer[j][k + 1]
  BY <1>1
<1>4. /\ w \in [Jobs -> Nat] /\ w[j] \in Nat /\ r[j] \in Nat /\ puts[j] \in Nat
      /\ r[j] <= w[j] /\ w[j] + Len(buffer[j]) = puts[j]
      /\ \A k \in DOMAIN buffer[j] : buffer[j][k] = Program(j)[w[j] + k]
  BY <1>1, <1>2 DEF Progress, ParentOK
<1>5. /\ n \in Nat /\ n \in Numbers(j) /\ n <= puts[j] /\ r[j] <= n
      /\ v \in [Jobs -> Nat] /\ v[j] = n /\ \A i \in Jobs : i # j => v[i] = w[i]
  <2>1. n <= puts[j] /\ n \in Nat /\ r[j] <= n
    BY <1>3, <1>4
  <2>2. puts[j] <= Len(Program(j)) /\ Len(Program(j)) \in Nat
    BY ProgramFacts DEF TypeOK
  <2>3. n \in Numbers(j)
    BY <1>4, <2>1, <2>2 DEF Numbers
  <2>4. QED BY <1>4, <2>1, <2>3
<1>6. pipe' = Append(pipe, Item(j, n)) /\ Item(j, n) \in Jobs \X Messages
  <2>1. Head(buffer[j]) = Program(j)[n]
    BY <1>3, <1>4
  <2>2. QED BY <1>1, <1>5, <2>1, ProgramFacts DEF Item
<1> HIDE DEF n, v
<1>7. /\ buffer'[j] = Tail(buffer[j]) /\ \A i \in Jobs : i # j => buffer'[i] = buffer[i]
      /\ buffer' \in [Jobs -> Seq(Messages)]
  BY <1>1, <1>3 DEF TypeOK
<1>8. TypeOK'
  <2>1. pipe' \in Seq(Jobs \X Messages)
    BY <1>1, <1>6
  <2>2. QED BY <1>1, <1>7, <2>1 DEF TypeOK
<1>9. ParentOK'
  <2>1. \A i \in Jobs : writer' # i
    BY <1>1 DEF Jobs
  <2>2. QED BY <1>1, <2>1 DEF ParentOK
<1>10. \A m \in Numbers(j) : Occurs(pipe, j, m) => m < n
  <2>1. \A m \in Numbers(j) : Occurs(pipe, j, m) => m <= w[j]
    BY <1>2 DEF Progress
  <2>2. QED BY <1>4, <2>1 DEF n, Numbers
<1>11. /\ InProgramOrder(pipe')
       /\ \A i \in Jobs : \A m \in Numbers(i) :
            Occurs(pipe', i, m) <=> Occurs(pipe, i, m) \/ (i = j /\ m = n)
  <2>1. InProgramOrder(pipe) /\ pipe \in Seq(Jobs \X Messages)
    BY <1>1 DEF SequencesOK
  <2>2. QED BY <1>5, <1>6, <1>10, <2>1, AppendInOrder
<1>12. SequencesOK'
  BY <1>1, <1>11 DEF SequencesOK
<1>13. Progress(r, v)'
  <2>1. \A i \in Jobs : r[i] <= v[i] /\ v[i] <= puts[i]
    BY <1>2, <1>5 DEF Progress
  <2>2. \A i \in Jobs : process[i] # "killed" =>
          /\ v[i] + Len(buffer'[i]) = puts[i]
          /\ \A k \in DOMAIN buffer'[i] : buffer'[i][k] = Program(i)[v[i] + k]
    <3>1. v[j] + Len(buffer'[j]) = puts[j]
      <4>1. Len(buffer'[j]) = Len(buffer[j]) - 1 /\ Len(buffer[j]) \in Nat
        BY <1>3, <1>7
      <4>2. v[j] = w[j] + 1
        BY <1>5 DEF n
      <4>3. QED BY <1>4, <4>1, <4>2
    <3>2. ASSUME NEW k \in DOMAIN buffer'[j]
          PROVE  buffer'[j][k] = Program(j)[v[j] + k]
      <4>1. buffer'[j][k] = Program(j)[w[j] + (k + 1)] /\ k \in Int
        BY <1>3, <1>4, <1>7
      <4>2. w[j] + (k + 1) = v[j] + k
        BY <1>4, <1>5, <4>1 DEF n
      <4>3. QED BY <4>1, <4>2
    <3>3. ASSUME NEW i \in Jobs, i # j, process[i] # "killed"
          PROVE  /\ v[i] + Len(buffer'[i]) = puts[i]
                 /\ \A k \in DOMAIN buffer'[i] : buffer'[i][k] = Program(i)[v[i] + k]
      <4>1. v[i] = w[i] /\ buffer'[i] = buffer[i]
        BY <1>5, <1>7, <3>3
      <4>2. QED BY <1>2, <3>3, <4>1 DEF Progress
    <3>4. QED BY <3>1, <3>2, <3>3
  <2>3. ASSUME NEW i \in Jobs, NEW m \in Numbers(i)
        PROVE  Occurs(pipe', i, m) <=> r[i] < m /\ m <= v[i]
    <3>1. Occurs(pipe, i, m) <=> r[i] < m /\ m <= w[i]
      BY <1>2 DEF Progress
    <3>2. CASE i # j
      BY <1>5, <1>11, <3>1, <3>2
    <3>3. CASE i = j
      <4>1. m \in Int /\ (m <= n <=> m <= w[j] \/ m = n) /\ r[j] < n
        BY <1>4, <3>3 DEF Numbers, n
      <4>2. QED BY <1>5, <1>11, <3>1, <3>3, <4>1
    <3>4. QED BY <3>2, <3>3
  <2>4. /\ r \in [Jobs -> Nat]
        /\ \A i \in Jobs : \A m \in Numbers(i) :
             Occurs(collected', i, m) <=> m <= r[i] /\ m < Len(Program(i))
        /\ finished' = Cardinality({i \in Jobs : r[i] = Len(Program(i))})
    BY <1>1, <1>2 DEF Progress
  <2>5. QED BY <1>1, <1>5, <2>1, <2>2, <2>3, <2>4 DEF Progress
<1>14. QED BY <1>8, <1>9, <1>12, <1>13

(* The next message to be received of a job is the first one not received. *)
LEMMA ReceivesNext ==
  ASSUME IInv, Receive, NEW r, NEW w, Progress(r, w)
  PROVE  \E j \in Jobs :
           /\ r[j] + 1 \in Numbers(j) /\ r[j] + 1 <= w[j] /\ Head(pipe) = Item(j, r[j] + 1)
           /\ InProgramOrder(Tail(pipe))
           /\ \A i \in Jobs : \A m \in Numbers(i) :
                Occurs(Tail(pipe), i, m) <=> Occurs(pipe, i, m) /\ ~(i = j /\ m = r[j] + 1)
<1> USE DEF IInv
<1>1. pipe \in Seq(Jobs \X Messages) /\ pipe # <<>> /\ InProgramOrder(pipe)
  BY DEF Receive, TypeOK, SequencesOK
<1>0. /\ InProgramOrder(Tail(pipe))
      /\ \E j \in Jobs : \E n \in Numbers(j) : TakesFirst(pipe, j, n)
  BY <1>1, TailInOrder
<1>2. PICK j \in Jobs : \E n \in Numbers(j) : TakesFirst(pipe, j, n)
  BY <1>0
<1>2a. PICK n \in Numbers(j) : TakesFirst(pipe, j, n)
  BY <1>2
<1>3. /\ Head(pipe) = Item(j, n) /\ Occurs(pipe, j, n)
      /\ \A m \in Numbers(j) : Occurs(pipe, j, m) => n <= m
      /\ \A i \in Jobs : \A m \in Numbers(i) :
           Occurs(Tail(pipe), i, m) <=> Occurs(pipe, i, m) /\ ~(i = j /\ m = n)
  BY <1>2a DEF TakesFirst
<1>4. r[j] < n /\ n <= w[j] /\ r[j] \in Nat /\ w[j] \in Nat
  BY <1>3 DEF Progress
<1>5. n \in Nat /\ n <= Len(Program(j)) /\ Len(Program(j)) \in Nat
  BY ProgramFacts DEF Numbers
<1>6. r[j] + 1 \in Numbers(j) /\ r[j] < r[j] + 1 /\ r[j] + 1 <= w[j] /\ r[j] + 1 <= n
  BY <1>4, <1>5 DEF Numbers
<1>7. Occurs(pipe, j, r[j] + 1)
  BY <1>6 DEF Progress
<1>8. n = r[j] + 1
  BY <1>3, <1>4, <1>5, <1>6, <1>7
<1>9. QED BY <1>0, <1>3, <1>6, <1>8

LEMMA FinishedJobs ==
  ASSUME NEW S \in SUBSET Jobs
  PROVE  /\ IsFiniteSet(S) /\ Cardinality(S) \in Nat /\ Cardinality(S) <= JobCount
         /\ Cardinality(S) = JobCount => S = Jobs
<1>1. JobCount \in Nat /\ JobCount > 0
  BY ImportAssumption
<1>2. IsFiniteSet(Jobs) /\ Cardinality(Jobs) = JobCount
  BY <1>1, FS_Interval DEF Jobs
<1>3. QED BY <1>2, FS_Subset, FS_CardinalityType

LEMMA ReceiveIInv == ASSUME IInv, Receive PROVE IInv'
<1> USE ImportAssumption DEF IInv
<1>1. PICK r, w : Progress(r, w)
  OBVIOUS
<1>2. PICK j \in Jobs :
        /\ r[j] + 1 \in Numbers(j) /\ r[j] + 1 <= w[j] /\ Head(pipe) = Item(j, r[j] + 1)
        /\ InProgramOrder(Tail(pipe))
        /\ \A i \in Jobs : \A m \in Numbers(i) :
             Occurs(Tail(pipe), i, m) <=> Occurs(pipe, i, m) /\ ~(i = j /\ m = r[j] + 1)
  BY <1>1, ReceivesNext
<1> DEFINE n == r[j] + 1
           q == [r EXCEPT ![j] = n]
           F(f) == {i \in Jobs : f[i] = Len(Program(i))}
<1>3. /\ r \in [Jobs -> Nat] /\ r[j] \in Nat /\ n \in Nat
      /\ q \in [Jobs -> Nat] /\ q[j] = n /\ \A i \in Jobs : i # j => q[i] = r[i]
  BY <1>1 DEF Progress
<1>4. /\ Len(Program(j)) \in Nat /\ n <= Len(Program(j))
      /\ Program(j)[n] \in Messages
      /\ Program(j)[n] = "finished" <=> n = Len(Program(j))
      /\ Head(pipe)[2] = Program(j)[n]
  BY <1>2, ProgramFacts DEF Item, Numbers
<1>5. \A i \in Jobs : \A m \in Numbers(i) :
        Occurs(collected, i, m) <=> m <= r[i] /\ m < Len(Program(i))
  BY <1>1 DEF Progress
<1>6. finished = Cardinality(F(r)) /\ finished < JobCount /\ parent = "collecting"
  BY <1>1 DEF Progress, ParentOK, Receive
<1>7. /\ pipe' = Tail(pipe) /\ pipe' \in Seq(Jobs \X Messages) /\ InProgramOrder(pipe')
      /\ UNCHANGED <<launched, process, puts, buffer, writer, joined>>
  BY <1>2 DEF Receive, TypeOK
<1>8. ASSUME NEW i \in Jobs, NEW m \in Numbers(i)
      PROVE  Occurs(pipe', i, m) <=> q[i] < m /\ m <= w[i]
  <2>1. Occurs(pipe, i, m) <=> r[i] < m /\ m <= w[i]
    BY <1>1 DEF Progress
  <2>2. CASE i # j
    BY <1>2, <1>3, <1>7, <2>1, <2>2
  <2>3. CASE i = j
    <3>1. m \in Int /\ (n < m <=> r[j] < m /\ m # n)
      BY <1>3, <2>3 DEF Numbers
    <3>2. QED BY <1>2, <1>3, <1>7, <2>1, <2>3, <3>1
  <2>4. QED BY <2>2, <2>3
<1> HIDE DEF n, q
<1>9. ASSUME \A i \in Jobs : \A m \in Numbers(i) :
               Occurs(collected', i, m) <=> m <= q[i] /\ m < Len(Program(i)),
             finished' = Cardinality(F(q))
      PROVE  Progress(q, w)'
  <2>1. \A i \in Jobs : q[i] <= w[i]
    <3>1. \A i \in Jobs : i # j => q[i] <= w[i]
      BY <1>1, <1>3 DEF Progress
    <3>2. q[j] <= w[j]
      BY <1>2, <1>3 DEF n
    <3>3. QED BY <3>1, <3>2
  <2>2. /\ w \in [Jobs -> Nat] /\ \A i \in Jobs : w[i] <= puts[i]
        /\ \A i \in Jobs : process[i] # "killed" =>
             /\ w[i] + Len(buffer[i]) = puts[i]
             /\ \A k \in DOMAIN buffer[i] : buffer[i][k] = Program(i)[w[i] + k]
    BY <1>1 DEF Progress
  <2>3. QED BY <1>3, <1>7, <1>8, <1>9, <2>1, <2>2 DEF Progress
<1>10. CASE Program(j)[n] = "finished"
  <2>1. /\ finished' = finished + 1 /\ collected' = collected
        /\ parent' = (IF finished + 1 = JobCount THEN "joining" ELSE parent)
    BY <1>4, <1>10 DEF Receive
  <2>2. F(q) = F(r) \cup {j} /\ j \notin F(r)
    BY <1>3, <1>4, <1>10 DEF n
  <2>3. Cardinality(F(q)) = Cardinality(F(r)) + 1 /\ Cardinality(F(q)) <= JobCount
    BY <2>2, FinishedJobs, FS_AddElement
  <2>4. ASSUME NEW i \in Jobs, NEW m \in Numbers(i)
        PROVE  Occurs(collected', i, m) <=> m <= q[i] /\ m < Len(Program(i))
    <3>1. CASE i # j
      BY <1>3, <1>5, <2>1, <3>1
    <3>2. CASE i = j
      <4>1. m \in Int /\ (m <= n /\ m < n <=> m <= r[j] /\ m < n)
        BY <1>3, <3>2 DEF Numbers, n
      <4>2. QED BY <1>3, <1>4, <1>5, <1>10, <2>1, <3>2, <4>1
    <3>3. QED BY <3>1, <3>2
  <2>5. Progress(q, w)'
    BY <1>6, <1>9, <2>1, <2>3, <2>4
  <2>6. finished' \in 0 .. JobCount
    BY <1>6, <2>1 DEF TypeOK
  <2>7. parent' \in {"collecting", "joining"}
    BY <1>6, <2>1
  <2>8. TypeOK'
    BY <1>7, <2>1, <2>6, <2>7 DEF TypeOK
  <2>9. SequencesOK'
    BY <1>7, <2>1 DEF SequencesOK
  <2>10. ParentOK'
    <3>1. /\ joined = 0 /\ finished' <= JobCount
          /\ parent' = "joining" <=> finished' = JobCount
      BY <1>6, <2>1, <2>6 DEF ParentOK, TypeOK
    <3>2. QED BY <1>6, <1>7, <2>6, <2>7, <3>1 DEF ParentOK
  <2>11. QED BY <2>5, <2>8, <2>9, <2>10
<1>11. CASE Program(j)[n] # "finished"
  <2>1. collected' = Append(collected, Item(j, n)) /\ UNCHANGED <<parent, finished>>
    BY <1>2, <1>4, <1>11 DEF Receive, n
  <2>2. n < Len(Program(j)) /\ n \in Numbers(j)
    BY <1>2, <1>3, <1>4, <1>11 DEF n
  <2>3. /\ collected \in Seq(Jobs \X (Messages \ {"finished"})) /\ InProgramOrder(collected)
        /\ Item(j, n) \in Jobs \X (Messages \ {"finished"})
    BY <1>4, <1>11 DEF TypeOK, SequencesOK, Item
  <2>4. \A m \in Numbers(j) : Occurs(collected, j, m) => m < n
    <3>1. \A m \in Numbers(j) : Occurs(collected, j, m) => m <= r[j]
      BY <1>5
    <3>2. QED BY <1>3, <3>1 DEF Numbers, n
  <2>5. /\ InProgramOrder(collected')
        /\ \A i \in Jobs : \A m \in Numbers(i) :
             Occurs(collected', i, m) <=> Occurs(collected, i, m) \/ (i = j /\ m = n)
    BY <2>1, <2>2, <2>3, <2>4, AppendInOrder
  <2>6. ASSUME NEW i \in Jobs, NEW m \in Numbers(i)
        PROVE  Occurs(collected', i, m) <=> m <= q[i] /\ m < Len(Program(i))
    <3>1. CASE i # j
      BY <1>3, <1>5, <2>5, <3>1
    <3>2. CASE i = j
      <4>1. m \in Int /\ (m <= n <=> m <= r[j] \/ m = n)
        BY <1>3, <3>2 DEF Numbers, n
      <4>2. QED BY <1>3, <1>5, <2>2, <2>5, <3>2, <4>1
    <3>3. QED BY <3>1, <3>2
  <2>7. F(q) = F(r)
    <3>1. q[j] # Len(Program(j)) /\ r[j] # Len(Program(j))
      BY <1>3, <1>4, <2>2 DEF n
    <3>2. QED BY <1>3, <3>1
  <2>8. Progress(q, w)'
    BY <1>6, <1>9, <2>1, <2>6, <2>7
  <2>9. TypeOK'
    BY <1>7, <2>1, <2>3 DEF TypeOK
  <2>10. SequencesOK' /\ ParentOK'
    BY <1>7, <2>1, <2>5 DEF SequencesOK, ParentOK
  <2>11. QED BY <2>8, <2>9, <2>10
<1>12. QED BY <1>10, <1>11

LEMMA NextIInv == IInv /\ [Next]_vars => IInv'
<1> SUFFICES ASSUME IInv, [Next]_vars PROVE IInv'
  OBVIOUS
<1>1. CASE Parent
  BY <1>1, StartIInv, ReceiveIInv, JoinIInv DEF Parent
<1>2. ASSUME NEW j \in Jobs, Worker(j) \/ Feeder(j) \/ Kill(j) PROVE IInv'
  BY <1>2, PutIInv, EndIInv, LockIInv, WriteIInv DEF Worker, Feeder
<1>3. CASE UNCHANGED vars
  <2>1. UNCHANGED <<parent, launched, process, puts, buffer, writer, pipe, collected,
                    finished, joined>>
    BY <1>3 DEF vars
  <2>2. TypeOK' /\ ParentOK' /\ SequencesOK'
    BY <2>1 DEF IInv, TypeOK, ParentOK, SequencesOK
  <2>3. PICK r, w : Progress(r, w)
    BY DEF IInv
  <2>4. Progress(r, w)'
    BY <2>1, <2>3 DEF Progress, Occurs
  <2>5. QED BY <2>2, <2>4 DEF IInv
<1>4. QED BY <1>1, <1>2, <1>3 DEF Next

LEMMA Invariance == Spec => []IInv
  BY InitIInv, NextIInv, PTL DEF Spec

-----------------------------------------------------------------------------
(* Once every sentinel is received nothing is on its way, and what was     *)
(* collected is what the jobs emitted.                                     *)
LEMMA FinishedIsComplete ==
  ASSUME IInv, finished = JobCount
  PROVE  /\ pipe = <<>>
         /\ \A j \in Jobs : AllCollected(j)
         /\ \A j \in Jobs : process[j] # "killed" => buffer[j] = <<>>
<1> USE DEF IInv
<1>1. PICK r, w : Progress(r, w)
  OBVIOUS
<1>2. \A j \in Jobs : r[j] = Len(Program(j))
  <2> DEFINE F == {j \in Jobs : r[j] = Len(Program(j))}
  <2>1. Cardinality(F) = JobCount
    BY <1>1 DEF Progress
  <2>2. F = Jobs
    BY <2>1, FinishedJobs
  <2>3. QED BY <2>2
<1>3. pipe = <<>>
  <2> SUFFICES ASSUME pipe # <<>> PROVE FALSE
    OBVIOUS
  <2>1. 1 \in DOMAIN pipe
    BY DEF TypeOK
  <2>2. PICK j \in Jobs : \E n \in Numbers(j) : pipe[1] = Item(j, n)
    BY <2>1 DEF SequencesOK, InProgramOrder
  <2>3. PICK n \in Numbers(j) : pipe[1] = Item(j, n)
    BY <2>2
  <2>4. Occurs(pipe, j, n)
    BY <2>1, <2>3 DEF Occurs
  <2>5. r[j] < n
    BY <1>1, <2>4 DEF Progress
  <2>6. n <= Len(Program(j)) /\ n \in Int /\ Len(Program(j)) \in Nat
    BY ProgramFacts DEF Numbers
  <2>7. QED BY <1>2, <2>5, <2>6
<1>4. ASSUME NEW j \in Jobs, process[j] # "killed" PROVE buffer[j] = <<>>
  <2>1. /\ r[j] <= w[j] /\ w[j] <= puts[j] /\ w[j] + Len(buffer[j]) = puts[j]
        /\ r[j] = Len(Program(j)) /\ r[j] \in Nat /\ w[j] \in Nat
    BY <1>1, <1>2, <1>4 DEF Progress
  <2>2. puts[j] \in 0 .. Len(Program(j)) /\ buffer[j] \in Seq(Messages)
    BY DEF TypeOK
  <2>3. Len(buffer[j]) \in Nat /\ (Len(buffer[j]) = 0 => buffer[j] = <<>>)
    BY <2>2
  <2>4. QED BY <2>1, <2>2, <2>3, ProgramFacts
<1>5. ASSUME NEW j \in Jobs PROVE AllCollected(j)
  <2> DEFINE ev == 1 .. Len(Program(j)) - 1
             own == {k \in DOMAIN collected : collected[k][1] = j}
             pos == [n \in ev |-> CHOOSE k \in DOMAIN collected : collected[k] = Item(j, n)]
  <2>1. ev \subseteq Int /\ \A n \in ev : n \in Numbers(j) /\ n < Len(Program(j)) /\ n <= r[j]
    BY <1>2, ProgramFacts DEF Numbers
  <2>2. DOMAIN collected \subseteq Int
    BY DEF TypeOK
  <2>3. ASSUME NEW n \in ev
        PROVE  pos[n] \in DOMAIN collected /\ collected[pos[n]] = Item(j, n)
    <3>1. Occurs(collected, j, n)
      BY <1>1, <2>1 DEF Progress
    <3>2. QED BY <3>1 DEF Occurs
  <2> HIDE DEF pos
  <2>4. \A n \in ev : pos[n] \in own /\ collected[pos[n]][2] = Program(j)[n]
    BY <2>3 DEF Item
  <2>5. ASSUME NEW k \in own PROVE \E n \in ev : k = pos[n]
    <3>1. PICK i \in Jobs : \E n \in Numbers(i) : collected[k] = Item(i, n)
      BY DEF SequencesOK, InProgramOrder
    <3>2. i = j
      BY <3>1 DEF Item
    <3>3. PICK n \in Numbers(j) : collected[k] = Item(j, n)
      BY <3>1, <3>2
    <3>4. Occurs(collected, j, n) /\ n \in Int
      BY <3>3 DEF Occurs, Numbers
    <3>5. n \in ev
      BY <1>1, <3>4, ProgramFacts DEF Progress, Numbers
    <3>6. pos[n] \in DOMAIN collected /\ collected[pos[n]] = Item(j, n) /\ k \in DOMAIN collected
      BY <2>3, <3>5
    <3>7. ~(k < pos[n]) /\ ~(pos[n] < k)
      <4>1. k < pos[n] => n < n
        BY <3>3, <3>6 DEF SequencesOK, InProgramOrder
      <4>2. pos[n] < k => n < n
        BY <3>3, <3>6 DEF SequencesOK, InProgramOrder
      <4>3. QED BY <3>4, <4>1, <4>2
    <3>8. k = pos[n]
      BY <2>2, <3>6, <3>7
    <3>9. QED BY <3>5, <3>8
  <2>6. ASSUME NEW m \in ev, NEW n \in ev, m < n PROVE pos[m] < pos[n]
    <3>1. /\ pos[m] \in DOMAIN collected /\ pos[n] \in DOMAIN collected
          /\ collected[pos[m]] = Item(j, m) /\ collected[pos[n]] = Item(j, n)
      BY <2>3
    <3>2. pos[m] # pos[n]
      BY <2>1, <2>6, <3>1, ItemsDiffer
    <3>3. ~(pos[n] < pos[m])
      <4>1. pos[n] < pos[m] => n < m
        BY <2>1, <3>1 DEF SequencesOK, InProgramOrder
      <4>2. QED BY <2>1, <2>6, <4>1
    <3>4. QED BY <2>2, <3>1, <3>2, <3>3
  <2>7. pos = [n \in ev |-> pos[n]]
    BY DEF pos
  <2>8. pos \in [ev -> own]
    BY <2>4, <2>7
  <2>9. own = {pos[n] : n \in ev}
    BY <2>4, <2>5
  <2>10. QED BY <2>4, <2>6, <2>8, <2>9 DEF AllCollected
<1>6. QED BY <1>3, <1>4, <1>5

(* A tuple of events is returned only when it is complete, whichever jobs  *)
(* fail or are killed and however the processes and their feeders          *)
(* interleave: every process has exited by itself, its events are there,   *)
(* each once and in the order it emitted them, and nothing is left over.   *)
THEOREM ReturnIsComplete == Spec => []ReturnedIsComplete
<1>1. IInv => ReturnedIsComplete
  <2> SUFFICES ASSUME IInv PROVE ReturnedIsComplete
    OBVIOUS
  <2>1. ASSUME parent = "returned"
        PROVE  finished = JobCount /\ \A j \in Jobs : process[j] = "exited"
    BY <2>1 DEF IInv, ParentOK, Jobs
  <2>2. QED BY <2>1, FinishedIsComplete DEF ReturnedIsComplete, IInv
<1>2. QED BY <1>1, Invariance, PTL
=============================================================================
