--------------------------- MODULE BlockDevProofs ---------------------------
(***************************************************************************)
(* Proofs about BlockDev, for drives, commands and blocks of every size,   *)
(* any transfers and any number of calls and failures.  IInv relates the   *)
(* place of a call to the registers and to what the drive is at; DInv adds *)
(* what a get has put into its buffer by then, DevKnown and Clean what the *)
(* drive must not refuse, PInv what a put has stored.                      *)
(***************************************************************************)
EXTENDS BlockDev, TLAPS

-----------------------------------------------------------------------------
(* Arithmetic                                                              *)

\* Half of the drive, counted in its lower sectors.
LEMMA Constants ==
  /\ LowSecs \in Nat /\ LowSecs > 0 /\ LongSecs \in Nat /\ LongSecs > 0
  /\ SecCntMax \in Nat /\ SecCntMax > 0 /\ ErrRepCnt \in Nat /\ ErrRepCnt > 0
  /\ FileSecs \in Nat /\ MaxCalls \in Nat /\ MaxFaults \in Nat
  BY ConstAssumption

\* The two parts of a sector address, and what they are put together to.
LEMMA AddressFacts ==
  ASSUME NEW s \in Sectors
  PROVE  /\ s \div LowSecs \in 0 .. 1 /\ s % LowSecs \in 0 .. LowSecs - 1
         /\ (s \div LowSecs) * LowSecs + (s % LowSecs) = s
         /\ \A u \in 0 .. 1 : u * LowSecs + (s % LowSecs) \in Sectors
<1>1. s \in Nat /\ s < 2 * LowSecs /\ LowSecs \in Nat /\ LowSecs > 0
  BY Constants DEF Sectors
<1>2. CASE s < LowSecs
  <2>1. s \div LowSecs = 0 /\ s % LowSecs = s
    BY <1>1, <1>2
  <2> QED BY <1>1, <1>2, <2>1 DEF Sectors
<1>3. CASE s >= LowSecs
  <2>1. s = 1 * LowSecs + (s - LowSecs) /\ (s - LowSecs) \in 0 .. LowSecs - 1
    BY <1>1, <1>3
  <2>2. s \div LowSecs = 1 /\ s % LowSecs = s - LowSecs
    BY <1>1, <2>1
  <2> QED BY <1>1, <2>1, <2>2 DEF Sectors
<1> QED BY <1>1, <1>2, <1>3

\* What a wrapped offset is at most.
LEMMA OffsetFacts ==
  ASSUME NEW s \in Nat, Offset(s) >= 0
  PROVE  Offset(s) \in Nat /\ Offset(s) <= s
<1>1. s % LongSecs \in Nat /\ s % LongSecs <= s
  <2>1. s % LongSecs \in Nat /\ s % LongSecs < LongSecs
    BY Constants
  <2>2. CASE s < LongSecs
    BY <2>2, Constants
  <2>3. CASE s >= LongSecs
    BY <2>1, <2>3, Constants
  <2> QED BY <2>1, <2>2, <2>3, Constants
<1> QED BY <1>1 DEF Offset

\* The number in the sector count register, and what the drive reads from it.
LEMMA CountFacts ==
  ASSUME NEW c \in 0 .. SecCntMax
  PROVE  /\ CurSecs(c) \in 1 .. SecCntMax
         /\ SecCnt(c % SecCntMax) = CurSecs(c)
         /\ CurSecs(CurSecs(c)) = CurSecs(c)
<1>1. CASE c = 0
  BY <1>1, Constants DEF CurSecs, SecCnt
<1>2. CASE c = SecCntMax
  BY <1>2, Constants DEF CurSecs, SecCnt
<1>3. CASE c > 0 /\ c < SecCntMax
  BY <1>3, Constants DEF CurSecs, SecCnt
<1> QED BY <1>1, <1>2, <1>3, Constants

\* A command never asks for more than is left of the transfer.
LEMMA ChunkFacts ==
  ASSUME NEW d \in Devs, NEW n \in Nat, n > 0
  PROVE  Chunk(d, n) \in 0 .. SecCntMax /\ CurSecs(Chunk(d, n)) <= n
  BY Constants DEF Chunk, CurSecs

\* The loops of a transfer are the commands that it takes: there is one more
\* exactly when there is more than one command asks for.
LEMMA AtLeastOnce ==
  ASSUME NEW q \in Int, q >= 1 PROVE SecCntMax * q >= SecCntMax
  BY Constants
LEMMA Remainder ==
  ASSUME NEW a \in Nat
  PROVE  /\ a \div SecCntMax \in Nat /\ a % SecCntMax \in 0 .. SecCntMax - 1
         /\ a = SecCntMax * (a \div SecCntMax) + (a % SecCntMax)
  BY Constants
LEMMA Division ==
  ASSUME NEW a \in Nat, NEW q \in Nat, NEW r \in 0 .. SecCntMax - 1, a = SecCntMax * q + r
  PROVE  a \div SecCntMax = q /\ a % SecCntMax = r
<1>1. /\ a \div SecCntMax \in Nat /\ a % SecCntMax \in 0 .. SecCntMax - 1
      /\ a = SecCntMax * (a \div SecCntMax) + (a % SecCntMax)
  BY Constants
<1>2. SecCntMax * (a \div SecCntMax - q) = r - (a % SecCntMax)
  BY <1>1, Constants
<1>3. CASE a \div SecCntMax - q >= 1
  BY <1>1, <1>2, <1>3, AtLeastOnce, Constants
<1>4. CASE q - a \div SecCntMax >= 1
  <2>1. SecCntMax * (q - a \div SecCntMax) = (a % SecCntMax) - r
    BY <1>1, Constants
  <2> QED BY <1>1, <1>4, <2>1, AtLeastOnce, Constants
<1> QED BY <1>1, <1>3, <1>4, Constants
LEMMA PassesFacts ==
  ASSUME NEW d \in Devs, NEW n \in Nat, n > 0, bd[d].single \in BOOLEAN
  PROVE  /\ Passes(d, n) \in Nat
         /\ Passes(d, n) > 1 <=> n > CurSecs(Chunk(d, n))
         /\ n > CurSecs(Chunk(d, n)) =>
               Passes(d, n - CurSecs(Chunk(d, n))) = Passes(d, n) - 1
<1>1. CASE bd[d].single
  BY <1>1 DEF Passes, Chunk, CurSecs
<1>2. CASE ~bd[d].single
  <2> DEFINE q == n \div SecCntMax
             r == n % SecCntMax
  <2>1. q \in Nat /\ r \in 0 .. SecCntMax - 1 /\ n = SecCntMax * q + r
    BY Remainder
  <2>2. \A m \in Nat : Passes(d, m) = m \div SecCntMax + (IF m % SecCntMax # 0 THEN 1 ELSE 0)
    BY <1>2 DEF Passes
  <2>3. CurSecs(Chunk(d, n)) = IF n < SecCntMax THEN n ELSE SecCntMax
    BY <1>2, Constants DEF Chunk, CurSecs
  <2>4. Passes(d, n) > 1 <=> n > SecCntMax
    <3>1. CASE q = 0
      BY <2>1, <2>2, <3>1, Constants
    <3>2. CASE q = 1
      BY <2>1, <2>2, <3>2, Constants
    <3>3. CASE q >= 2
      <4>1. SecCntMax * (q - 1) >= SecCntMax
        BY <2>1, <3>3, AtLeastOnce
      <4> QED BY <2>1, <2>2, <3>3, <4>1, Constants
    <3> QED BY <2>1, <3>1, <3>2, <3>3
  <2>5. ASSUME n > SecCntMax PROVE Passes(d, n - SecCntMax) = Passes(d, n) - 1
    <3>1. q >= 1
      BY <2>1, <2>5, Constants
    <3>2. n - SecCntMax = SecCntMax * (q - 1) + r /\ n - SecCntMax \in Nat /\ q - 1 \in Nat
      BY <2>1, <2>5, <3>1, Constants
    <3> HIDE DEF q, r
    <3>3. (n - SecCntMax) \div SecCntMax = q - 1 /\ (n - SecCntMax) % SecCntMax = r
      BY <2>1, <3>2, Division
    <3> QED BY <2>1, <2>2, <3>2, <3>3 DEF q, r
  <2> QED BY <2>1, <2>2, <2>3, <2>4, <2>5, Constants
<1> QED BY <1>1, <1>2

-----------------------------------------------------------------------------
(* The inductive invariant                                                 *)

AtDrive == pc \in {"ready", "send", "status"}
AtData  == AtDrive /\ at.stage = "data"
Cur == CurSecs(at.cur)

\* Which driver a call is in, and what it is about.
CallPlace ==
  /\ AtDrive => ~IsFile /\ (IF at.stage = "data" THEN req.op \in {"get", "put"} ELSE req.op = "init")
  /\ pc \in {"open", "seek", "move"} => IsFile
  /\ pc \in {"seek", "move"} => req.op \in {"get", "put"}
  /\ IsFile => req.dev = 0
  /\ req.sec + req.count <= 2 * LowSecs
  /\ ret # "none" => pc = "idle"

\* How far the transfer and its current command have come.
Progress ==
  AtData => /\ req.sec <= at.sec /\ at.sec + at.count = req.sec + req.count
            /\ at.count > 0 /\ Cur <= at.count
            /\ at.iSec < Cur /\ (pc # "status" => at.iSec = 0)
            /\ Cur = CurSecs(Chunk(req.dev, at.count)) /\ at.loops = Passes(req.dev, at.count)
FileProgress ==
  /\ pc = "seek" => at.sec = req.sec /\ at.count = req.count
  /\ pc = "move" => /\ at.count <= req.count /\ at.sec + at.count <= 2 * LowSecs
                    /\ ~Wrapped => at.sec + at.count = req.sec + req.count

\* A drive at work is on sectors that it has, the ones the call has come to; the
\* drive that is not selected is not at work, and only drive 1, left so by a
\* reset, can be busy.
Resting(a, d) == a.st[d] = "idle" \/ (d = 1 /\ a.st[d] = "hung")
Aside(a) == \A d \in Devs : d # a.sel => Resting(a, d)
Working ==
  /\ Status(ata) # "drq"
  /\ Status(ata) = "work" => ata.lba + ata.left <= 2 * LowSecs
  /\ Aside(ata)
Command ==
  pc = "status" /\ Status(ata) = "work" =>
    CASE at.stage = "data"     -> /\ ata.left = Cur - at.iSec
                                  /\ ~mixed => ata.lba = at.sec + at.iSec
      [] at.stage = "identify" -> ata.left = 1
      [] OTHER                 -> ata.left = 0

\* The device bit is that of the call, and unless lower and upper sectors were
\* mixed, the upper address bits are those of the sector, too.
Selected == pc = "status" => ata.sel = req.dev
UpperBits ==
  /\ ata.upper = 1 => 1 \in uppers
  /\ pc = "send" /\ ~mixed => ata.upper = Upper

IInv == /\ TypeOK /\ CallPlace /\ Progress /\ FileProgress /\ Working /\ Command
        /\ SendsToIdle /\ Selected /\ UpperBits

-----------------------------------------------------------------------------
(* The registers                                                           *)

\* The status shown is that of a drive, and showing another leaves the other drive
\* alone.
States == {"idle", "work", "drq", "err", "hung"}
LEMMA StatusFacts ==
  ASSUME NEW a, a \in AtaType
  PROVE  a.sel \in Devs /\ a.st \in [Devs -> States] /\ Status(a) \in States
  BY DEF AtaType, States, Status
LEMMA ShowsFacts ==
  ASSUME NEW a, a \in AtaType, NEW x, x \in States, NEW r, r = Shows(a, x)
  PROVE  /\ r \in AtaType /\ Status(r) = x /\ r.sel = a.sel /\ r.upper = a.upper
         /\ r.op = a.op /\ r.lba = a.lba /\ r.left = a.left /\ r.set = a.set
         /\ Aside(a) => Aside(r)
         /\ \A d \in Devs : d # a.sel => r.st[d] = a.st[d]
<1>1. a.sel \in Devs /\ a.st \in [Devs -> States]
  BY StatusFacts
<1>2. PICK st : st = [a.st EXCEPT ![a.sel] = x]
  OBVIOUS
<1>3. st \in [Devs -> States] /\ st[a.sel] = x /\ \A d \in Devs : d # a.sel => st[d] = a.st[d]
  BY <1>1, <1>2
<1>4. r = [a EXCEPT !.st = st]
  BY <1>2 DEF Shows
<1>5. /\ r \in AtaType /\ r.st = st /\ r.sel = a.sel /\ r.upper = a.upper
      /\ r.op = a.op /\ r.lba = a.lba /\ r.left = a.left /\ r.set = a.set
  BY <1>3, <1>4 DEF AtaType, States
<1>6. Status(r) = x
  BY <1>3, <1>5 DEF Status
<1>7. Aside(a) => Aside(r)
  BY <1>3, <1>5 DEF Aside, Resting
<1> QED BY <1>3, <1>5, <1>6, <1>7

\* What the driver sees at the end of a wait differs in the status only.
LEMMA SeenFacts ==
  ASSUME ata \in AtaType, Working, NEW b \in Seen
  PROVE  /\ b \in AtaType /\ Aside(b)
         /\ b = ata \/ b = Shows(ata, Status(b))
         /\ b.sel = ata.sel /\ b.upper = ata.upper /\ b.op = ata.op /\ b.lba = ata.lba
         /\ b.left = ata.left /\ b.set = ata.set
         /\ Status(b) # "work"
         /\ Status(b) = "drq" => Status(ata) = "work" /\ ata.left # 0
<1>1. Status(ata) # "drq" /\ Aside(ata)
  BY DEF Working
<1>2. CASE Status(ata) # "work"
  <2>1. b = ata
    BY <1>2 DEF Seen, Comes, Trouble
  <2> QED BY <1>1, <1>2, <2>1
<1>3. CASE Status(ata) = "work"
  <2>1. PICK x \in States : b = Shows(ata, x) /\ x # "work" /\ (x = "drq" => ata.left # 0)
    <3>1. CASE b = Comes(ata)
      BY <1>3, <3>1 DEF Comes, States
    <3>2. CASE b \in Trouble(ata)
      BY <1>3, <3>2 DEF Trouble, States
    <3> QED BY <3>1, <3>2 DEF Seen
  <2> QED BY <1>1, <1>3, <2>1, ShowsFacts
<1> QED BY <1>2, <1>3
LEMMA ComesFacts ==
  ASSUME ata \in AtaType, Working
  PROVE  /\ Comes(ata) \in Seen
         /\ Status(ata) = "work" => Status(Comes(ata)) = IF ata.left = 0 THEN "idle" ELSE "drq"
         /\ Status(ata) # "work" => Comes(ata) = ata
<1>1. CASE Status(ata) = "work"
  <2>1. PICK x : x = IF ata.left = 0 THEN "idle" ELSE "drq"
    OBVIOUS
  <2>2. Comes(ata) = Shows(ata, x) /\ x \in States
    BY <1>1, <2>1 DEF Comes, States
  <2> QED BY <1>1, <2>1, <2>2, ShowsFacts DEF Seen
<1> QED BY <1>1 DEF Comes, Seen

LEMMA ResetFacts ==
  ASSUME NEW a \in AtaType, NEW busy \in SUBSET Devs, NEW r, r = AfterReset(a, busy)
  PROVE  /\ r \in AtaType /\ r.upper = 0 /\ r.sel = 0
         /\ \A d \in Devs : r.st[d] = IF d \in busy THEN "hung" ELSE "idle"
         /\ Status(r) \in {"idle", "hung"} /\ Aside(r)
<1> DEFINE set == [d \in Devs |-> a.set[d] /\ ~drive.reverts]
           st == [d \in Devs |-> IF d \in busy THEN "hung" ELSE "idle"]
<1>1. /\ set \in [Devs -> BOOLEAN] /\ st \in [Devs -> States]
      /\ \A d \in Devs : st[d] = IF d \in busy THEN "hung" ELSE "idle"
  BY DEF States
<1>2. r = [a EXCEPT !.sel = 0, !.upper = 0, !.op = "none", !.left = 0, !.st = st, !.set = set]
  BY DEF AfterReset
<1> HIDE DEF set, st
<1>3. 0 \in Devs /\ 0 \in 0 .. 1 /\ 0 \in 0 .. SecCntMax
  BY Constants DEF Devs
<1>4. /\ r \in AtaType /\ r.upper = 0 /\ r.sel = 0 /\ r.st = st
  <2>1. r = [sel |-> 0, upper |-> 0, st |-> st, op |-> "none", lba |-> a.lba, left |-> 0,
             set |-> set]
    BY <1>2 DEF AtaType
  <2>2. a.lba \in 0 .. 2 * LowSecs
    BY DEF AtaType
  <2> QED BY <1>1, <1>3, <2>1, <2>2 DEF AtaType, States
<1>5. Status(r) \in {"idle", "hung"}
  BY <1>1, <1>3, <1>4 DEF Status
<1>6. Aside(r)
  BY <1>1, <1>4 DEF Aside, Resting, Devs
<1> QED BY <1>1, <1>4, <1>5, <1>6

LEMMA DevLbaFacts ==
  ASSUME NEW a \in AtaType, NEW d \in Devs, NEW u \in 0 .. 1
  PROVE  /\ DevLba(a, d, u) \in AtaType
         /\ DevLba(a, d, u).sel = d /\ DevLba(a, d, u).upper = (IF a.upper = 1 THEN 1 ELSE u)
         /\ DevLba(a, d, u).st = a.st /\ DevLba(a, d, u).lba = a.lba
         /\ DevLba(a, d, u).left = a.left
  BY DEF DevLba, Or, AtaType

LEMMA TakesFacts ==
  ASSUME NEW a, a \in AtaType, NEW op, op \in {"identify", "setmultiple", "get", "put"},
         NEW lba, lba \in 0 .. 2 * LowSecs, NEW left, left \in 0 .. SecCntMax,
         NEW r, r = Takes(a, op, lba, left)
  PROVE  /\ r \in AtaType /\ r.sel = a.sel /\ r.upper = a.upper /\ r.op = op /\ r.lba = lba
         /\ r.left = left /\ Status(r) \in {"work", "err"}
         /\ Status(r) = "work" => lba + left <= 2 * LowSecs
         /\ Aside(a) => Aside(r)
<1> DEFINE set == [a.set EXCEPT ![a.sel] = a.set[a.sel] \/ op = "setmultiple"]
           refused == \/ kind = "bdh8b16" /\ op \in {"get", "put"} /\ ~a.set[a.sel]
                      \/ lba + left > 2 * LowSecs
           x == IF refused THEN "err" ELSE "work"
           st == [a.st EXCEPT ![a.sel] = x]
<1>1. a.set \in [Devs -> BOOLEAN] /\ a.sel \in Devs /\ a.st \in [Devs -> States]
  BY DEF AtaType, States
<1>2. set \in [Devs -> BOOLEAN]
  BY <1>1
<1>3. x \in {"work", "err"} /\ (x = "work" => lba + left <= 2 * LowSecs)
  BY Constants
<1>4. r = [a EXCEPT !.op = op, !.lba = lba, !.left = left, !.st = st, !.set = set]
  BY DEF Takes
<1> HIDE DEF x, set
<1>5. st \in [Devs -> States] /\ st[a.sel] = x /\ \A d \in Devs : d # a.sel => st[d] = a.st[d]
  BY <1>1, <1>3 DEF States
<1> HIDE DEF st
<1>6. /\ r \in AtaType /\ r.sel = a.sel /\ r.upper = a.upper /\ r.op = op /\ r.lba = lba
      /\ r.left = left /\ r.st = st
  BY <1>2, <1>4, <1>5 DEF AtaType, States
<1>7. Aside(a) => Aside(r)
  BY <1>5, <1>6 DEF Aside, Resting
<1> QED BY <1>3, <1>5, <1>6, <1>7 DEF Status

LEMMA MovedFacts ==
  ASSUME NEW a, a \in AtaType, NEW n, n \in Nat, n <= a.left, a.lba + a.left <= 2 * LowSecs,
         NEW r, r = Moved(a, n) \/ r = Shows(Moved(a, n), "err")
  PROVE  /\ r \in AtaType /\ r.sel = a.sel /\ r.upper = a.upper
         /\ r.lba = a.lba + n /\ r.left = a.left - n
         /\ Status(r) \in {"idle", "work", "err"} /\ (r = Moved(a, n) => Status(r) # "err")
         /\ Aside(a) => Aside(r)
         /\ r.set = a.set
<1> DEFINE x == IF a.op # "put" /\ a.left = n THEN "idle" ELSE "work"
           st == [a.st EXCEPT ![a.sel] = x]
<1>1. /\ a.lba \in Nat /\ a.lba + n \in 0 .. 2 * LowSecs
      /\ a.left \in 0 .. SecCntMax /\ a.left - n \in 0 .. SecCntMax
  BY Constants DEF AtaType
<1>2. x \in {"idle", "work"} /\ a.sel \in Devs /\ a.st \in [Devs -> States]
  BY StatusFacts
<1>3. Moved(a, n) = [a EXCEPT !.lba = a.lba + n, !.left = a.left - n, !.st = st]
  BY DEF Moved, AtaType
<1> HIDE DEF x
<1>4. st \in [Devs -> States] /\ st[a.sel] = x /\ \A d \in Devs : d # a.sel => st[d] = a.st[d]
  BY <1>2 DEF States
<1> HIDE DEF st
<1>5. /\ Moved(a, n) \in AtaType /\ Moved(a, n).sel = a.sel /\ Moved(a, n).upper = a.upper
      /\ Moved(a, n).lba = a.lba + n /\ Moved(a, n).left = a.left - n /\ Moved(a, n).st = st
      /\ Moved(a, n).set = a.set
  BY <1>1, <1>3, <1>4 DEF AtaType, States
<1>6. Status(Moved(a, n)) \in {"idle", "work"} /\ (Aside(a) => Aside(Moved(a, n)))
  BY <1>2, <1>4, <1>5 DEF Status, Aside, Resting
<1>7. CASE r = Moved(a, n)
  BY <1>5, <1>6, <1>7
<1>8. CASE r = Shows(Moved(a, n), "err")
  <2>1. "err" \in States
    BY DEF States
  <2>2. /\ r \in AtaType /\ r.sel = a.sel /\ r.upper = a.upper /\ r.lba = a.lba + n
        /\ r.left = a.left - n /\ Status(r) = "err" /\ r.set = a.set
        /\ Aside(Moved(a, n)) => Aside(r)
    BY <1>5, <1>8, <2>1, ShowsFacts
  <2> QED BY <1>6, <2>2
<1> QED BY <1>7, <1>8

LEMMA WorkingNext ==
  ASSUME Status(ata') # "drq", Aside(ata'),
         Status(ata') = "work" => ata'.lba + ata'.left <= 2 * LowSecs
  PROVE  Working'
  BY DEF Working, Status, Aside, Resting

-----------------------------------------------------------------------------
(* Initially, and in a step that changes nothing                           *)

LEMMA InitInv == Init => IInv
<1> SUFFICES ASSUME Init PROVE IInv
  OBVIOUS
<1>1. 0 \in Devs /\ 0 \in 0 .. 1 /\ 0 \in 0 .. SecCntMax /\ 0 \in 0 .. 2 * LowSecs
      /\ 0 \in Nat /\ 0 \in 0 .. ErrRepCnt /\ 0 \in 0 .. MaxCalls /\ 0 \in 0 .. MaxFaults /\ FileSecs \in Nat
  BY Constants DEF Devs
<1>2. ata \in AtaType /\ req \in ReqType /\ at \in AtType
  BY <1>1 DEF Init, AtaType, ReqType, AtType, NoReq, NoAt
<1>3. media \in [Devs -> [Sectors -> Content]]
  BY <1>1 DEF Init, Content
<1>4. bd \in [Devs -> [up : BOOLEAN, single : BOOLEAN, multi : 0 .. SecCntMax]]
  BY <1>1 DEF Init
<1>5. buf \in Seq(Content) /\ len \in Nat
  BY <1>1 DEF Init
<1>6. TypeOK
  BY <1>1, <1>2, <1>3, <1>4, <1>5 DEF Init, TypeOK
<1>7. CallPlace
  BY Constants DEF Init, CallPlace, AtDrive, NoReq
<1>8. Status(ata) = "idle" /\ Aside(ata)
  BY <1>1 DEF Init, Status, Aside, Resting
<1> QED BY <1>6, <1>7, <1>8
    DEF Init, IInv, AtData, AtDrive, Progress, FileProgress, Working, Command, SendsToIdle,
        Selected, UpperBits

LEMMA StutterInv == IInv /\ UNCHANGED vars => IInv'
  BY DEF vars, env, IInv, TypeOK, CallPlace, AtDrive, AtData, Progress, FileProgress, Working, Command,
         SendsToIdle, Selected, UpperBits, IsFile, Cur, Upper, Wrapped, Offset, Status, Aside, Resting,
         Chunk, Passes

-----------------------------------------------------------------------------
(* The steps of the ATA drivers                                            *)

\* A fault leaves its counter and mark typed.
LEMMA FaultFacts ==
  ASSUME TypeOK, Fault \/ Fine
  PROVE  faults' \in 0 .. MaxFaults /\ hit' \in BOOLEAN
<1>1. faults' \in 0 .. MaxFaults
  <2>1. faults \in 0 .. MaxFaults
    BY DEF TypeOK
  <2> QED BY <2>1, Constants DEF Fault, Fine
<1>2. hit' \in BOOLEAN
  BY DEF Fault, Fine, TypeOK
<1> QED BY <1>1, <1>2
LEMMA WaitFacts ==
  ASSUME NEW b, Wait(b) PROVE Fault \/ Fine
  BY DEF Wait

\* The sector a transfer has come to is one of the device's.
LEMMA AtSector ==
  ASSUME IInv, AtDrive
  PROVE  Upper \in 0 .. 1 /\ (at.stage = "data" => at.sec \in Sectors)
<1>1. CASE at.stage = "data"
  <2>1. at.sec \in Nat /\ at.count \in Nat /\ req.sec \in Nat /\ req.count \in Nat
    BY DEF IInv, TypeOK, AtType, ReqType
  <2>2. at.sec \in Sectors
    BY <1>1, <2>1, Constants DEF IInv, Progress, AtData, CallPlace, Sectors
  <2> QED BY <1>1, <2>2, AddressFacts DEF Upper
<1>2. CASE at.stage # "data"
  BY <1>2 DEF Upper
<1> QED BY <1>1, <1>2

\* Selecting the device, after a wait or a reset: the drive not selected any more
\* was at rest.
LEMMA SelectFacts ==
  ASSUME IInv, AtDrive, NEW a \in AtaType, \A d \in Devs : d # req.dev => Resting(a, d),
         NEW seen \in SUBSET {0, 1}, a.upper = 1 => 1 \in seen, Select(a, seen)
  PROVE  /\ ata' \in AtaType /\ Status(ata') = a.st[req.dev] /\ ata'.sel = req.dev
         /\ Aside(ata') /\ ata'.st = a.st
         /\ uppers' \subseteq {0, 1} /\ mixed' \in BOOLEAN
         /\ ata'.upper = 1 => 1 \in uppers'
         /\ ~mixed' => ata'.upper = Upper
<1>1. req.dev \in Devs /\ Upper \in 0 .. 1
  BY AtSector DEF IInv, TypeOK, ReqType
<1>2. /\ ata' \in AtaType /\ ata'.st = a.st /\ ata'.sel = req.dev
      /\ ata'.upper = (IF a.upper = 1 THEN 1 ELSE Upper)
  BY <1>1, DevLbaFacts DEF Select
<1>3. uppers' = seen \cup {Upper} /\ (uppers' = {0, 1} => mixed') /\ mixed' \in BOOLEAN
  BY DEF Select
<1>4. a.upper = 1 /\ Upper = 0 => uppers' = {0, 1}
  BY <1>3
<1>5. Upper = 0 \/ Upper = 1
  BY <1>1
<1>6. a.upper = 0 \/ a.upper = 1
  BY DEF AtaType
<1>7. Status(ata') = a.st[req.dev] /\ Aside(ata')
  BY <1>2 DEF Status, Aside, Resting
<1> QED BY <1>1, <1>2, <1>3, <1>4, <1>5, <1>6, <1>7

\* Once the drive selected is quiet, both rest; after a reset, too, if drive 0 has
\* come back.
LEMMA AllRest ==
  ASSUME NEW a \in AtaType, Aside(a), Quiet(a)
  PROVE  \A d \in Devs : Resting(a, d)
  BY DEF Aside, Quiet, Status, Resting, AtaType

\* A step that returns from the call has only the types and the registers left.
LEMMA ReturnInv ==
  ASSUME IInv, TypeOK', Working', pc' = "idle", kind' = kind, req' = req,
         ata'.upper = 1 => 1 \in uppers'
  PROVE  IInv'
  BY DEF IInv, CallPlace, AtDrive, AtData, Progress, FileProgress, Command, SendsToIdle, Selected,
         UpperBits, IsFile

LEMMA NoAtType == NoAt \in AtType
  BY Constants DEF NoAt, AtType

\* Once a drive is ready, or made so by a reset, both rest, and the one of the call
\* is selected.
LEMMA ReadyFacts ==
  ASSUME IInv, Ready \/ ReadyByReset
  PROVE  /\ ata' \in AtaType /\ ata'.sel = req.dev /\ Aside(ata')
         /\ \A d \in Devs : Resting(ata', d)
         /\ uppers' \subseteq {0, 1} /\ mixed' \in BOOLEAN
         /\ ata'.upper = 1 => 1 \in uppers'
         /\ ~mixed' => ata'.upper = Upper
<1>1. pc = "ready"
  BY DEF Ready, ReadyByReset
<1>2. ata \in AtaType /\ Working /\ uppers \in SUBSET {0, 1} /\ AtDrive /\ req.dev \in Devs
  BY <1>1 DEF IInv, TypeOK, AtDrive, ReqType
<1>3. CASE Ready
  <2>1. PICK b \in Seen : Wait(b) /\ Quiet(b) /\ Select(b, uppers)
    BY <1>3 DEF Ready
  <2>2. b \in AtaType /\ Aside(b) /\ (b.upper = 1 => 1 \in uppers)
    BY <1>2, <2>1, SeenFacts DEF IInv, UpperBits
  <2>3. \A d \in Devs : Resting(b, d)
    BY <2>1, <2>2, AllRest
  <2>4. ata'.st = b.st => \A d \in Devs : Resting(ata', d)
    BY <2>3 DEF Resting
  <2> QED BY <1>2, <2>1, <2>2, <2>3, <2>4, SelectFacts
<1>4. CASE ReadyByReset
  <2>1. PICK b \in Seen, busy \in {{}, {1}} : Select(AfterReset(b, busy), {})
    BY <1>4 DEF ReadyByReset
  <2>2. PICK a : a = AfterReset(b, busy)
    OBVIOUS
  <2>3. b \in AtaType /\ busy \in SUBSET Devs
    BY <1>2, <2>1, SeenFacts DEF Devs
  <2>4. a \in AtaType /\ a.upper = 0 /\ \A d \in Devs : Resting(a, d)
    BY <2>1, <2>2, <2>3, ResetFacts DEF Resting, Devs
  <2>5. ata'.st = a.st => \A d \in Devs : Resting(ata', d)
    BY <2>4 DEF Resting
  <2> QED BY <1>2, <2>1, <2>2, <2>4, <2>5, SelectFacts
<1> QED BY <1>3, <1>4

LEMMA ReadySteps == ASSUME IInv, Ready \/ ReadyByReset PROVE IInv'
<1>1. /\ pc = "ready" /\ kind' = kind /\ drive' = drive /\ media' = media
      /\ len' = len /\ bd' = bd /\ req' = req /\ buf' = buf /\ calls' = calls
      /\ IF Status(ata') = "hung" THEN pc' = "idle" /\ ret' = "fail" /\ at' = NoAt
         ELSE pc' = "send" /\ ret' = ret /\ at' = at
  BY DEF Ready, ReadyByReset, Proceed, Return, Goto, env
<1>2. Fault \/ Fine
  BY WaitFacts DEF Ready, ReadyByReset
<1>3. ata \in AtaType /\ Working /\ uppers \in SUBSET {0, 1} /\ AtDrive /\ req.dev \in Devs
  BY <1>1 DEF IInv, TypeOK, AtDrive, ReqType
<1>4. /\ ata' \in AtaType /\ Status(ata') \in {"idle", "hung"} /\ ata'.sel = req.dev
      /\ Aside(ata') /\ \A d \in Devs : ata'.st[d] \in {"idle", "hung"}
      /\ uppers' \subseteq {0, 1} /\ mixed' \in BOOLEAN
      /\ ata'.upper = 1 => 1 \in uppers'
      /\ ~mixed' => ata'.upper = Upper
  BY <1>3, ReadyFacts DEF Resting, Status
<1>5. faults' \in 0 .. MaxFaults /\ hit' \in BOOLEAN
  BY <1>2, FaultFacts DEF IInv
<1>6. CASE Status(ata') = "hung"
  <2>1. TypeOK'
    BY <1>1, <1>4, <1>5, <1>6, NoAtType DEF IInv, TypeOK
  <2>2. Working'
    BY <1>4, <1>6 DEF Working, Status
  <2> QED BY <1>1, <1>4, <1>6, <2>1, <2>2, ReturnInv
<1>7. CASE Status(ata') # "hung"
  <2>1. TypeOK'
    BY <1>1, <1>4, <1>5, <1>7 DEF IInv, TypeOK
  <2>2. CallPlace' /\ Progress' /\ FileProgress'
    BY <1>1, <1>7 DEF IInv, CallPlace, AtDrive, AtData, Progress, FileProgress, Cur, IsFile,
                      Chunk, Passes
  <2>3. Working'
    BY <1>4, <1>7 DEF Working, Status
  <2>4. SendsToIdle'
    BY <1>1, <1>3, <1>4, <1>7 DEF SendsToIdle, Status
  <2>5. Command' /\ Selected' /\ UpperBits'
    BY <1>1, <1>4, <1>7 DEF Command, Selected, UpperBits, Upper
  <2> QED BY <2>1, <2>2, <2>3, <2>4, <2>5 DEF IInv
<1> QED BY <1>6, <1>7

\* A call that gives up before its command.
LEMMA NotReadySteps == ASSUME IInv, StillNotOk \/ SuddenlyBusy PROVE IInv'
<1>1. /\ pc = "ready" /\ pc' = "idle" /\ kind' = kind /\ drive' = drive /\ media' = media
      /\ len' = len /\ bd' = bd /\ req' = req /\ at' = NoAt /\ buf' = buf /\ calls' = calls
      /\ ret' = "fail" /\ Fault
  BY DEF StillNotOk, SuddenlyBusy, Return, env
<1>2. /\ ata \in AtaType /\ Working /\ uppers \in SUBSET {0, 1} /\ mixed \in BOOLEAN
      /\ AtDrive /\ req.dev \in Devs
  BY <1>1 DEF IInv, TypeOK, AtDrive, ReqType
<1>3. /\ ata' \in AtaType /\ Status(ata') \in {"idle", "hung"} /\ Aside(ata')
      /\ uppers' \subseteq {0, 1} /\ mixed' \in BOOLEAN
      /\ ata'.upper = 1 => 1 \in uppers'
  <2>1. CASE StillNotOk
    <3>1. PICK busy \in {{0}, Devs} : ata' = AfterReset(ata, busy)
      BY <2>1 DEF StillNotOk
    <3>2. busy \in SUBSET Devs
      BY DEF Devs
    <3> QED BY <1>2, <2>1, <3>1, <3>2, ResetFacts DEF StillNotOk
  <2>2. CASE SuddenlyBusy
    <3>1. PICK a : a = [Comes(ata) EXCEPT !.st[req.dev] = "hung"]
      OBVIOUS
    <3>2. Select(a, uppers) /\ Quiet(Comes(ata))
      BY <2>2, <3>1 DEF SuddenlyBusy
    <3>3. Comes(ata) \in AtaType /\ Aside(Comes(ata)) /\ Comes(ata).upper = ata.upper
      BY <1>2, ComesFacts, SeenFacts
    <3>4. \A d \in Devs : Resting(Comes(ata), d)
      BY <3>2, <3>3, AllRest
    <3>5. /\ a \in AtaType /\ a.upper = ata.upper /\ a.st[req.dev] = "hung"
          /\ \A d \in Devs : d # req.dev => a.st[d] = Comes(ata).st[d]
      BY <1>2, <3>1, <3>3 DEF AtaType
    <3>6. \A d \in Devs : d # req.dev => Resting(a, d)
      BY <3>4, <3>5 DEF Resting
    <3>7. a.upper = 1 => 1 \in uppers
      BY <3>5 DEF IInv, UpperBits
    <3> QED BY <1>2, <3>2, <3>5, <3>6, <3>7, SelectFacts
  <2> QED BY <2>1, <2>2 DEF StillNotOk, SuddenlyBusy
<1>4. TypeOK'
  <2>1. faults' \in 0 .. MaxFaults /\ hit' \in BOOLEAN
    BY <1>1, FaultFacts DEF IInv
  <2> QED BY <1>1, <1>3, <2>1, NoAtType DEF IInv, TypeOK
<1>5. Working'
  BY <1>3 DEF Working, Status
<1> QED BY <1>1, <1>3, <1>4, <1>5, ReturnInv

LEMMA SendStep == ASSUME IInv, Send PROVE IInv'
<1>1. /\ pc = "send" /\ pc' = "status" /\ kind' = kind /\ drive' = drive /\ media' = media
      /\ len' = len /\ bd' = bd /\ req' = req /\ at' = at /\ buf' = buf /\ calls' = calls /\ ret' = ret
      /\ uppers' = uppers /\ mixed' = mixed /\ hit' = hit /\ faults' = faults
  BY DEF Send, Goto, env
<1>2. /\ ata \in AtaType /\ ata.sel = req.dev /\ ata.upper \in 0 .. 1 /\ at \in AtType
      /\ at.cur \in 0 .. SecCntMax /\ Aside(ata)
  BY <1>1 DEF IInv, TypeOK, SendsToIdle, AtaType, AtType, Working
<1>3. /\ ata' \in AtaType /\ ata'.sel = req.dev /\ ata'.upper = ata.upper
      /\ Status(ata') \in {"work", "err"}
      /\ Working' /\ Command'
  <2>1. CASE at.stage = "identify"
    <3>1. ata' = Takes(ata, "identify", 0, 1)
      BY <2>1 DEF Send
    <3>2. /\ 0 \in 0 .. 2 * LowSecs /\ 1 \in 0 .. SecCntMax
          /\ "identify" \in {"identify", "setmultiple", "get", "put"}
      BY Constants
    <3>3. /\ ata' \in AtaType /\ ata'.sel = ata.sel /\ ata'.upper = ata.upper
          /\ ata'.lba = 0 /\ ata'.left = 1 /\ Status(ata') \in {"work", "err"} /\ Aside(ata')
          /\ Status(ata') = "work" => 0 + 1 <= 2 * LowSecs
      BY <1>2, <3>1, <3>2, TakesFacts, Constants
    <3>4. Working' /\ Command'
      BY <1>1, <2>1, <3>3 DEF Working, Command, Status, Aside, Resting
    <3> QED BY <1>2, <3>3, <3>4
  <2>2. CASE at.stage = "setmultiple"
    <3>1. ata' = Takes(ata, "setmultiple", 0, 0)
      BY <2>2 DEF Send
    <3>2. /\ 0 \in 0 .. 2 * LowSecs /\ 0 \in 0 .. SecCntMax
          /\ "setmultiple" \in {"identify", "setmultiple", "get", "put"}
      BY Constants
    <3>3. /\ ata' \in AtaType /\ ata'.sel = ata.sel /\ ata'.upper = ata.upper
          /\ ata'.lba = 0 /\ ata'.left = 0 /\ Status(ata') \in {"work", "err"} /\ Aside(ata')
          /\ Status(ata') = "work" => 0 + 0 <= 2 * LowSecs
      BY <1>2, <3>1, <3>2, TakesFacts, Constants
    <3>4. Working' /\ Command'
      BY <1>1, <2>2, <3>3 DEF Working, Command, Status, Aside, Resting
    <3> QED BY <1>2, <3>3, <3>4
  <2>3. CASE at.stage = "data"
    <3> DEFINE lba == ata.upper * LowSecs + (at.sec % LowSecs)
               left == SecCnt(at.cur % SecCntMax)
    <3>1. ata' = Takes(ata, req.op, lba, left)
      BY <2>3 DEF Send
    <3>2. at.sec \in Sectors /\ req.op \in {"identify", "setmultiple", "get", "put"}
      BY <1>1, <2>3, AtSector DEF IInv, CallPlace, AtDrive
    <3>3. lba \in 0 .. 2 * LowSecs /\ (~mixed => lba = at.sec)
      <4>1. lba \in Sectors
        BY <1>2, <3>2, AddressFacts
      <4>2. ~mixed => ata.upper = at.sec \div LowSecs
        BY <1>1, <2>3 DEF IInv, UpperBits, Upper
      <4> QED BY <3>2, <4>1, <4>2, AddressFacts, Constants DEF Sectors
    <3>4. left = Cur /\ left \in 0 .. SecCntMax /\ at.iSec = 0
      BY <1>1, <1>2, <2>3, CountFacts, Constants DEF Cur, IInv, Progress, AtData, AtDrive
    <3>5. at.sec \in Nat /\ Cur \in Nat
      BY <1>2, CountFacts, Constants DEF AtType, Cur
    <3> HIDE DEF lba, left
    <3>6. /\ ata' \in AtaType /\ ata'.sel = ata.sel /\ ata'.upper = ata.upper
          /\ ata'.op = req.op /\ ata'.lba = lba /\ ata'.left = left /\ Status(ata') \in {"work", "err"}
          /\ Aside(ata')
          /\ Status(ata') = "work" => lba + left <= 2 * LowSecs
      BY <1>2, <3>1, <3>2, <3>3, <3>4, TakesFacts, Constants
    <3>7. Working'
      BY <3>6 DEF Working, Status, Aside, Resting
    <3>8. Cur' = Cur
      BY <1>1 DEF Cur
    <3>9. Command'
      BY <1>1, <2>3, <3>3, <3>4, <3>5, <3>6, <3>8 DEF Command, Status
    <3> QED BY <1>2, <3>6, <3>7, <3>9
  <2> QED BY <1>2, <2>1, <2>2, <2>3 DEF AtType
<1>4. TypeOK'
  BY <1>1, <1>3 DEF IInv, TypeOK
<1>5. CallPlace' /\ Progress' /\ FileProgress'
  BY <1>1 DEF IInv, CallPlace, AtDrive, AtData, Progress, FileProgress, Cur, IsFile,
                    Chunk, Passes
<1>6. SendsToIdle' /\ Selected' /\ UpperBits'
  BY <1>1, <1>3 DEF SendsToIdle, Selected, UpperBits, IInv
<1> QED BY <1>3, <1>4, <1>5, <1>6 DEF IInv

\* A status that is not what the command needs: the chunk is asked for again, or
\* the call fails.
LEMMA BadStatusSteps == ASSUME IInv, RepOnError \/ StatusBad PROVE IInv'
<1>1. /\ pc = "status" /\ kind' = kind /\ drive' = drive /\ media' = media
      /\ len' = len /\ bd' = bd /\ req' = req /\ buf' = buf /\ calls' = calls
      /\ uppers' = uppers /\ mixed' = mixed
  BY DEF RepOnError, StatusBad, env
<1>2. PICK b \in Seen : Wait(b) /\ ~StatusOk(b) /\ ata' = b
  BY DEF RepOnError, StatusBad
<1>3. ata \in AtaType /\ Working /\ ata.sel = req.dev
  BY <1>1 DEF IInv, TypeOK, Selected
<1>4. ata' \in AtaType /\ ata'.upper = ata.upper /\ Status(ata') # "work" /\ Aside(ata')
      /\ (Status(ata') = "drq" => Status(ata) = "work" /\ ata.left # 0)
  BY <1>2, <1>3, SeenFacts
<1>5. Status(ata') # "drq"
  <2>1. SUFFICES ASSUME Status(ata') = "drq" PROVE FALSE
    OBVIOUS
  <2>2. at.stage = "setmultiple"
    BY <1>2, <2>1 DEF StatusOk
  <2>3. ata.left = 0
    BY <1>1, <1>4, <2>1, <2>2 DEF IInv, Command
  <2> QED BY <1>4, <2>1, <2>3
<1>6. Working' /\ (ata'.upper = 1 => 1 \in uppers')
  BY <1>1, <1>4, <1>5 DEF Working, IInv, UpperBits, Status, Aside, Resting
<1>7. faults' \in 0 .. MaxFaults /\ hit' \in BOOLEAN
  BY <1>2, WaitFacts, FaultFacts DEF IInv
<1>8. CASE RepOnError
  <2>1. /\ at' = [at EXCEPT !.rep = @ + 1] /\ at.rep + 1 < ErrRepCnt /\ pc' = "ready" /\ ret' = ret
        /\ at.stage = "data" /\ at.iSec = 0
    BY <1>8 DEF RepOnError, Retries, Goto
  <2>2. at \in AtType
    BY DEF IInv, TypeOK
  <2>3. at.rep + 1 \in 0 .. ErrRepCnt
    BY <2>1, <2>2, Constants DEF AtType
  <2>4. /\ at' \in AtType /\ at'.stage = at.stage /\ at'.sec = at.sec /\ at'.count = at.count
        /\ at'.iSec = at.iSec /\ at'.cur = at.cur /\ at'.loops = at.loops
    BY <2>1, <2>2, <2>3 DEF AtType
  <2>5. TypeOK'
    BY <1>1, <1>4, <1>7, <2>1, <2>4 DEF IInv, TypeOK
  <2>6. CallPlace' /\ Progress' /\ FileProgress'
    BY <1>1, <2>1, <2>4 DEF IInv, CallPlace, AtDrive, AtData, Progress, FileProgress, Cur, IsFile,
                             Chunk, Passes
  <2>7. Command' /\ SendsToIdle' /\ Selected' /\ UpperBits'
    BY <1>6, <2>1 DEF Command, SendsToIdle, Selected, UpperBits
  <2> QED BY <1>6, <2>5, <2>6, <2>7 DEF IInv
<1>9. CASE StatusBad
  <2>1. pc' = "idle" /\ at' = NoAt /\ ret' = "fail"
    BY <1>9 DEF StatusBad, Return
  <2>2. TypeOK'
    BY <1>1, <1>4, <1>7, <2>1, NoAtType DEF IInv, TypeOK
  <2> QED BY <1>1, <1>6, <2>1, <2>2, ReturnInv
<1> QED BY <1>8, <1>9

\* What the driver moves in one go is what the command has left, or a block.
LEMMA BlockFacts ==
  ASSUME IInv, pc = "status", at.stage = "data", StatusOk(Comes(ata))
  PROVE  /\ Status(ata) = "work" /\ Comes(ata) \in AtaType /\ Block \in Nat /\ Cur \in 1 .. SecCntMax
         /\ Lesser(Block, Cur - at.iSec) \in Nat
         /\ Lesser(Block, Cur - at.iSec) <= ata.left
         /\ ata.left = Cur - at.iSec /\ ata.lba + ata.left <= 2 * LowSecs
         /\ Comes(ata).lba = ata.lba /\ Comes(ata).left = ata.left /\ Comes(ata).sel = req.dev
         /\ Comes(ata).upper = ata.upper /\ ata.sel = req.dev /\ Aside(Comes(ata))
<1>1. ata \in AtaType /\ Working /\ at \in AtType /\ req \in ReqType
  BY DEF IInv, TypeOK
<1>2. Comes(ata) \in Seen /\ Status(Comes(ata)) = "drq"
  BY <1>1, ComesFacts DEF StatusOk
<1>3. /\ Status(ata) = "work" /\ Comes(ata) \in AtaType
      /\ Comes(ata).lba = ata.lba /\ Comes(ata).left = ata.left /\ Comes(ata).sel = ata.sel
      /\ Comes(ata).upper = ata.upper /\ Aside(Comes(ata))
  BY <1>1, <1>2, SeenFacts
<1>4. Block \in Nat
  <2>1. bd \in [Devs -> [up : BOOLEAN, single : BOOLEAN, multi : 0 .. SecCntMax]]
    BY DEF IInv, TypeOK
  <2>2. bd[req.dev].multi \in 0 .. SecCntMax
    BY <1>1, <2>1 DEF ReqType
  <2> QED BY <2>2, Constants DEF Block
<1>5. Cur \in 1 .. SecCntMax
  BY <1>1, CountFacts DEF Cur, AtType
<1>6. at.iSec \in Nat /\ at.iSec < Cur
  BY <1>1 DEF AtType, IInv, Progress, AtData, AtDrive
<1>7. ata.left = Cur - at.iSec /\ ata.lba + ata.left <= 2 * LowSecs /\ ata.sel = req.dev
  BY <1>3 DEF IInv, Command, Working, Selected
<1>8. Lesser(Block, Cur - at.iSec) \in Nat /\ Lesser(Block, Cur - at.iSec) <= Cur - at.iSec
  BY <1>4, <1>5, <1>6, Constants DEF Lesser
<1> QED BY <1>3, <1>4, <1>5, <1>7, <1>8

\* The next command of a transfer.
LEMMA PassFacts ==
  ASSUME NEW d \in Devs, NEW sec \in Nat, NEW n \in Nat, NEW l \in Nat
  PROVE  /\ Pass(d, sec, n, l) \in AtType
         /\ Pass(d, sec, n, l).sec = sec /\ Pass(d, sec, n, l).count = n
         /\ Pass(d, sec, n, l).cur = Chunk(d, n) /\ Pass(d, sec, n, l).iSec = 0
         /\ Pass(d, sec, n, l).loops = l /\ Pass(d, sec, n, l).stage = "data"
<1>1. PICK c \in 0 .. SecCntMax : c = Chunk(d, n)
  BY Constants DEF Chunk
<1>2. Pass(d, sec, n, l) = [NoAt EXCEPT !.sec = sec, !.count = n, !.cur = c, !.loops = l]
  BY <1>1 DEF Pass
<1>4. Pass(d, sec, n, l) = [sec |-> sec, count |-> n, cur |-> c, iSec |-> 0, rep |-> 0,
                            loops |-> l, stage |-> "data"]
  BY <1>2 DEF NoAt
<1>3. 0 \in Nat /\ 0 \in 0 .. ErrRepCnt
  BY Constants
<1> QED BY <1>1, <1>3, <1>4 DEF AtType

\* The counted loop goes on as long as there is something left to move.
LEMMA LoopFacts ==
  ASSUME IInv, AtDrive, at.stage = "data"
  PROVE  /\ at.loops > 1 <=> at.count > Cur
         /\ at.count > Cur => Passes(req.dev, at.count - Cur) = at.loops - 1
         /\ at.loops \in Nat
<1>1. req.dev \in Devs /\ at.count \in Nat /\ at.loops \in Nat /\ bd[req.dev].single \in BOOLEAN
  BY DEF IInv, TypeOK, ReqType, AtType
<1>2. /\ at.count > 0 /\ Cur = CurSecs(Chunk(req.dev, at.count))
      /\ at.loops = Passes(req.dev, at.count)
  BY DEF IInv, Progress, AtData
<1> QED BY <1>1, <1>2, PassesFacts

\* Where the call goes on: with the next command, when a command is over and some
\* of the transfer is left.
LEMMA AdvanceFacts ==
  ASSUME IInv, pc = "status", at.stage = "data", Advance(Cur), ~(at.iSec + Block < Cur)
  PROVE  /\ at.count > Cur =>
              /\ pc' = "ready" /\ ret' = ret /\ at' \in AtType
              /\ at'.sec = at.sec + Cur /\ at'.count = at.count - Cur
              /\ at'.cur = Chunk(req.dev, at.count - Cur) /\ at'.iSec = 0 /\ at'.stage = "data"
              /\ at'.loops = Passes(req.dev, at.count - Cur)
         /\ ~(at.count > Cur) => pc' = "idle" /\ ret' = "ok" /\ at' = NoAt
<1>1. /\ at.loops > 1 <=> at.count > Cur
      /\ at.count > Cur => Passes(req.dev, at.count - Cur) = at.loops - 1
      /\ at.loops \in Nat
  BY LoopFacts DEF AtDrive
<1>2. /\ at.sec \in Nat /\ at.count \in Nat /\ req.dev \in Devs /\ Cur \in 1 .. SecCntMax
  <2>1. at.cur \in 0 .. SecCntMax
    BY DEF IInv, TypeOK, AtType
  <2> QED BY <2>1, CountFacts DEF Cur, IInv, TypeOK, AtType, ReqType
<1>3. CASE at.count > Cur
  <2>1. at' = Pass(req.dev, at.sec + Cur, at.count - Cur, at.loops - 1) /\ pc' = "ready" /\ ret' = ret
    BY <1>1, <1>3 DEF Advance, Goto
  <2>2. PICK d \in Devs, sec \in Nat, n \in Nat, l \in Nat :
          d = req.dev /\ sec = at.sec + Cur /\ n = at.count - Cur /\ l = at.loops - 1
    BY <1>1, <1>2, <1>3, Constants
  <2>3. at' = Pass(d, sec, n, l)
    BY <2>1, <2>2
  <2>4. /\ at' \in AtType /\ at'.sec = sec /\ at'.count = n /\ at'.cur = Chunk(d, n)
        /\ at'.iSec = 0 /\ at'.loops = l /\ at'.stage = "data"
    BY <2>3, PassFacts
  <2> QED BY <1>1, <1>3, <2>1, <2>2, <2>4
<1>4. CASE ~(at.count > Cur)
  BY <1>1, <1>4 DEF Advance, Return
<1> QED BY <1>3, <1>4

\* The next block, the next command, or the end of the call: the drive and the
\* call stay in step.
LEMMA AdvanceInv ==
  ASSUME IInv, pc = "status", at.stage = "data", StatusOk(Comes(ata)), Advance(Cur),
         ata' \in AtaType, Status(ata') \in {"idle", "work", "err"},
         ata'.sel = req.dev, ata'.upper = ata.upper, Aside(ata'),
         Status(ata') = "work" => /\ ata'.lba = ata.lba + Lesser(Block, Cur - at.iSec)
                                  /\ ata'.left = ata.left - Lesser(Block, Cur - at.iSec),
         kind' = kind, drive' = drive, len' = len, bd' = bd, req' = req, uppers' = uppers,
         mixed' = mixed, calls' = calls,
         media' \in [Devs -> [Sectors -> Content]], buf' \in Seq(Content),
         faults' \in 0 .. MaxFaults, hit' \in BOOLEAN
  PROVE  IInv'
<1> DEFINE n == Lesser(Block, Cur - at.iSec)
<1>1. /\ at \in AtType /\ req \in ReqType /\ AtData /\ AtDrive
      /\ at.iSec \in Nat /\ at.sec \in Nat /\ at.count \in Nat
      /\ req.sec \in Nat /\ req.count \in Nat /\ req.dev \in Devs
  BY DEF IInv, TypeOK, AtType, ReqType, AtData, AtDrive
<1>2. /\ Block \in Nat /\ Cur \in 1 .. SecCntMax /\ n \in Nat /\ n <= ata.left
      /\ Status(ata) = "work" /\ ata.left = Cur - at.iSec /\ ata.lba + ata.left <= 2 * LowSecs
      /\ ata.lba \in Nat /\ Cur \in Nat
  <2>1. ata.lba \in 0 .. 2 * LowSecs
    BY DEF IInv, TypeOK, AtaType
  <2> QED BY <2>1, BlockFacts, Constants
<1>3. /\ req.sec <= at.sec /\ at.sec + at.count = req.sec + req.count /\ Cur <= at.count
      /\ at.iSec < Cur /\ at.count > 0
  BY <1>1 DEF IInv, Progress
<1>4. Working' /\ (ata'.upper = 1 => 1 \in uppers')
  <2>1. ata.lba + n + (ata.left - n) = ata.lba + ata.left
    <3> HIDE DEF n
    <3> QED BY <1>1, <1>2
  <2> QED BY <1>2, <2>1 DEF Working, IInv, UpperBits, Status, Aside, Resting
<1>5. ASSUME at' \in AtType, pc' \in {"status", "ready", "idle"}, ret' \in {"none", "ok", "fail"}
      PROVE  TypeOK'
  BY <1>5 DEF IInv, TypeOK
<1>6. CASE at.iSec + Block < Cur
  <2>1. at' = [at EXCEPT !.cur = Cur, !.iSec = @ + Block] /\ pc' = "status" /\ ret' = ret
    BY <1>6 DEF Advance, Goto
  <2>2. Cur \in 0 .. SecCntMax /\ at.iSec + Block \in Nat
    BY <1>1, <1>2, SMTT(30)
  <2>3. /\ at' \in AtType /\ at'.sec = at.sec /\ at'.count = at.count
        /\ at'.iSec = at.iSec + Block /\ at'.stage = "data" /\ at'.cur = Cur
        /\ at'.loops = at.loops
    BY <1>1, <2>1, <2>2 DEF AtType
  <2>4. Cur' = Cur
    <3>1. at.cur \in 0 .. SecCntMax
      BY <1>1 DEF AtType
    <3> QED BY <2>3, <3>1, CountFacts DEF Cur
  <2>5. n = Block
    BY <1>1, <1>2, <1>6 DEF Lesser
  <2>6. TypeOK'
    BY <1>5, <2>1, <2>3 DEF IInv, TypeOK
  <2>7. CallPlace' /\ Progress' /\ FileProgress'
    BY <1>1, <1>3, <1>6, <2>1, <2>3, <2>4
       DEF IInv, CallPlace, AtDrive, AtData, Progress, FileProgress, IsFile, Chunk, Passes
  <2>8. Command'
    <3>1. ~mixed => ata.lba = at.sec + at.iSec
      BY <1>2 DEF IInv, Command
    <3>2. Status(ata') = "work" => /\ ata'.left = Cur - (at.iSec + Block)
                                   /\ ~mixed => ata'.lba = at.sec + (at.iSec + Block)
      <4>1. ata.left - Block = Cur - (at.iSec + Block)
        BY <1>1, <1>2
      <4>2. ~mixed => ata.lba + Block = at.sec + (at.iSec + Block)
        BY <1>1, <1>2, <3>1, SMTT(30)
      <4> QED BY <2>5, <4>1, <4>2
    <3>3. Status(ata)' = Status(ata')
      BY DEF Status
    <3> QED BY <2>3, <2>4, <3>2, <3>3 DEF Command
  <2>9. SendsToIdle' /\ Selected' /\ UpperBits'
    BY <1>4, <2>1 DEF SendsToIdle, Selected, UpperBits
  <2> QED BY <1>4, <2>6, <2>7, <2>8, <2>9 DEF IInv
<1>7. CASE ~(at.iSec + Block < Cur) /\ at.count > Cur
  <2> DEFINE rest == at.count - Cur
             chunk == Chunk(req.dev, rest)
  <2>1. /\ at' \in AtType /\ at'.sec = at.sec + Cur /\ at'.count = rest /\ at'.cur = chunk
        /\ at'.iSec = 0 /\ at'.stage = "data" /\ at'.loops = Passes(req.dev, rest)
        /\ pc' = "ready" /\ ret' = ret
    BY <1>7, AdvanceFacts
  <2>2. rest \in Nat /\ rest > 0 /\ at.sec + Cur \in Nat
    <3>1. Cur \in Nat /\ at.count \in Nat /\ at.sec \in Nat /\ at.count > Cur
      BY <1>1, <1>2, <1>7
    <3> QED BY <3>1
  <2>3. chunk \in 0 .. SecCntMax /\ CurSecs(chunk) <= rest
    <3> HIDE DEF rest
    <3> QED BY <1>1, <2>2, ChunkFacts
  <2>4. CurSecs(chunk) \in 1 .. SecCntMax
    BY <2>3, CountFacts
  <2>5. /\ at' \in AtType /\ at'.sec = at.sec + Cur /\ at'.count = rest /\ at'.cur = chunk
        /\ at'.iSec = 0 /\ at'.stage = "data" /\ at'.loops = Passes(req.dev, rest)
    BY <2>1
  <2> HIDE DEF chunk
  <2>6. Cur' = CurSecs(chunk)
    BY <2>5 DEF Cur
  <2>7. at'.sec + at'.count = at.sec + at.count /\ req.sec <= at'.sec
    <3>1. Cur \in Nat /\ at.count \in Nat /\ at.sec \in Nat /\ req.sec \in Nat /\ req.sec <= at.sec
      BY <1>1, <1>2, <1>3
    <3> QED BY <2>5, <3>1
  <2>8. TypeOK'
    BY <1>5, <2>1, <2>5 DEF IInv, TypeOK
  <2>9. CallPlace' /\ FileProgress'
    BY <1>1, <2>1, <2>5
       DEF IInv, CallPlace, AtDrive, FileProgress, IsFile
  <2>10. Progress'
    <3> HIDE DEF rest
    <3>1. /\ CurSecs(Chunk(req.dev, rest)) = CurSecs(Chunk(req.dev, at.count))'
          /\ Passes(req.dev, rest) = Passes(req.dev, at.count)'
      BY <2>5 DEF Chunk, Passes
    <3> QED BY <1>3, <2>1, <2>2, <2>3, <2>4, <2>5, <2>6, <2>7, <3>1 DEF Progress, chunk
  <2>11. Command' /\ SendsToIdle' /\ Selected' /\ UpperBits'
    BY <1>4, <2>1 DEF Command, SendsToIdle, Selected, UpperBits
  <2> QED BY <1>4, <2>8, <2>9, <2>10, <2>11 DEF IInv
<1>8. CASE ~(at.iSec + Block < Cur) /\ ~(at.count > Cur)
  <2>1. pc' = "idle" /\ at' = NoAt /\ ret' = "ok"
    BY <1>8, AdvanceFacts
  <2>2. TypeOK'
    BY <1>5, <2>1, NoAtType
  <2> QED BY <1>4, <2>1, <2>2, ReturnInv
<1> QED BY <1>6, <1>7, <1>8

LEMMA GetBlockStep == ASSUME IInv, GetBlock PROVE IInv'
<1> DEFINE n == Lesser(Block, Cur - at.iSec)
<1>1. /\ pc = "status" /\ req.op = "get" /\ StatusOk(Comes(ata)) /\ Fine
      /\ buf' = buf \o Words(n) /\ ata' = Moved(Comes(ata), n) /\ Advance(Cur)
      /\ kind' = kind /\ drive' = drive /\ media' = media /\ len' = len /\ bd' = bd /\ req' = req
      /\ uppers' = uppers /\ mixed' = mixed /\ calls' = calls
  BY DEF GetBlock, Cur, env
<1>2. at.stage = "data"
  BY <1>1 DEF IInv, CallPlace, AtDrive
<1>3. /\ Comes(ata) \in AtaType /\ n \in Nat /\ n <= ata.left /\ ata.lba + ata.left <= 2 * LowSecs
      /\ Comes(ata).lba = ata.lba /\ Comes(ata).left = ata.left /\ Comes(ata).sel = req.dev
      /\ Comes(ata).upper = ata.upper /\ Aside(Comes(ata))
  BY <1>1, <1>2, BlockFacts
<1> HIDE DEF n
<1>4. /\ ata' \in AtaType /\ Status(ata') \in {"idle", "work"} /\ ata'.sel = req.dev /\ ata'.upper = ata.upper
      /\ ata'.lba = ata.lba + n /\ ata'.left = ata.left - n /\ Aside(ata')
  BY <1>1, <1>3, MovedFacts
<1>5. buf' \in Seq(Content)
  <2>1. /\ ata.lba \in Nat /\ ata.left \in Nat /\ ata.sel \in Devs
        /\ media \in [Devs -> [Sectors -> Content]] /\ buf \in Seq(Content)
    BY Constants DEF IInv, TypeOK, AtaType
  <2>2. ASSUME NEW i \in 1 .. n PROVE media[ata.sel][ata.lba + i - 1] \in Content
    <3>1. ata.lba + i - 1 \in Sectors
      BY <1>3, <2>1, Constants DEF Sectors
    <3> QED BY <2>1, <3>1
  <2>3. Words(n) \in Seq(Content)
    BY <1>3, <2>2 DEF Words
  <2> QED BY <1>1, <2>1, <2>3
<1>6. faults' \in 0 .. MaxFaults /\ hit' \in BOOLEAN
  BY <1>1, FaultFacts DEF IInv
<1>7. media' \in [Devs -> [Sectors -> Content]]
  BY <1>1 DEF IInv, TypeOK
<1> QED BY <1>1, <1>2, <1>4, <1>5, <1>6, <1>7, AdvanceInv DEF n

\* What a write of n sectors from a sector on does to the media.
LEMMA StoredFacts ==
  ASSUME TypeOK, IsFile => req.dev = 0, ~IsFile => ata.sel = req.dev,
         NEW from \in Nat, NEW n \in Nat, NEW first \in Nat,
         from + n <= 2 * LowSecs, first + n <= 2 * LowSecs
  PROVE  /\ Stored(media, from, n, first) \in [Devs -> [Sectors -> Content]]
         /\ \A d \in Devs, s \in Sectors :
              Stored(media, from, n, first)[d][s]
                = IF d = req.dev /\ s \in from .. from + n - 1 THEN <<calls, first + s - from>>
                  ELSE media[d][s]
<1>1. media \in [Devs -> [Sectors -> Content]] /\ calls \in 0 .. MaxCalls /\ req.dev \in Devs
  BY DEF TypeOK, ReqType
<1>2. (IF IsFile THEN 0 ELSE ata.sel) = req.dev
  OBVIOUS
<1> DEFINE new == [s \in Sectors |-> IF s \in from .. from + n - 1
                                     THEN <<calls, first + s - from>> ELSE media[req.dev][s]]
<1>3. Stored(media, from, n, first) = [media EXCEPT ![req.dev] = new]
  BY <1>1, <1>2 DEF Stored
<1>4. new \in [Sectors -> Content]
  <2>1. ASSUME NEW s \in Sectors, s \in from .. from + n - 1
        PROVE  <<calls, first + s - from>> \in Content
    <3>1. first + s - from \in Sectors
      BY <2>1, Constants DEF Sectors
    <3> QED BY <1>1, <3>1 DEF Content
  <2>2. ASSUME NEW s \in Sectors PROVE media[req.dev][s] \in Content
    BY <1>1
  <2> QED BY <2>1, <2>2
<1>5. Stored(media, from, n, first) \in [Devs -> [Sectors -> Content]]
  <2> HIDE DEF new
  <2> QED BY <1>1, <1>3, <1>4
<1>6. ASSUME NEW d \in Devs, NEW s \in Sectors
      PROVE  Stored(media, from, n, first)[d][s]
                = IF d = req.dev /\ s \in from .. from + n - 1 THEN <<calls, first + s - from>>
                  ELSE media[d][s]
  BY <1>1, <1>3
<1> QED BY <1>5, <1>6

\* Where a block of a write goes and where it is from.
LEMMA PutPlace ==
  ASSUME IInv, PutBlock
  PROVE  LET n == Lesser(Block, Cur - at.iSec)
             first == at.sec - req.sec + at.iSec
         IN /\ pc = "status" /\ at.stage = "data" /\ req.op = "put" /\ ~IsFile
            /\ n \in Nat /\ first \in Nat /\ ata.lba \in Nat /\ ata.sel = req.dev
            /\ ata.lba + n <= 2 * LowSecs /\ first + n <= req.count /\ first + n <= 2 * LowSecs
            /\ ~mixed => ata.lba = req.sec + first
            /\ \E k \in 0 .. n : media' = Stored(media, ata.lba, k, first)
<1> DEFINE n == Lesser(Block, Cur - at.iSec)
           first == at.sec - req.sec + at.iSec
<1>1. /\ pc = "status" /\ req.op = "put" /\ StatusOk(Comes(ata))
      /\ \E k \in 0 .. n : media' = Stored(media, ata.lba, k, first)
  BY DEF PutBlock, Cur
<1>2. at.stage = "data" /\ ~IsFile
  BY <1>1 DEF IInv, CallPlace, AtDrive
<1>3. /\ n \in Nat /\ n <= ata.left /\ ata.lba + ata.left <= 2 * LowSecs /\ ata.sel = req.dev
      /\ ata.left = Cur - at.iSec /\ Status(ata) = "work" /\ Cur \in 1 .. SecCntMax
  BY <1>1, <1>2, BlockFacts
<1>4. /\ at.iSec \in Nat /\ at.sec \in Nat /\ at.count \in Nat /\ req.sec \in Nat /\ req.count \in Nat
      /\ ata.lba \in Nat /\ ata.left \in Nat
  BY Constants DEF IInv, TypeOK, AtType, ReqType, AtaType
<1>5. /\ req.sec <= at.sec /\ at.sec + at.count = req.sec + req.count /\ Cur <= at.count
      /\ at.iSec < Cur /\ req.sec + req.count <= 2 * LowSecs
  BY <1>1, <1>2 DEF IInv, Progress, AtData, AtDrive, CallPlace
<1>6. ~mixed => ata.lba = at.sec + at.iSec
  BY <1>1, <1>2, <1>3 DEF IInv, Command
<1> HIDE DEF n
<1>7. /\ first \in Nat /\ ata.lba + n <= 2 * LowSecs /\ first + n <= req.count
      /\ first + n <= 2 * LowSecs /\ (~mixed => ata.lba = req.sec + first)
  BY <1>3, <1>4, <1>5, <1>6, Constants
<1> QED BY <1>1, <1>2, <1>3, <1>4, <1>7 DEF n

LEMMA PutBlockStep == ASSUME IInv, PutBlock PROVE IInv'
<1> DEFINE n == Lesser(Block, Cur - at.iSec)
           first == at.sec - req.sec + at.iSec
<1>1. /\ pc = "status" /\ StatusOk(Comes(ata)) /\ Advance(Cur)
      /\ \/ ata' = Moved(Comes(ata), n) /\ Fine
         \/ ata' = Shows(Moved(Comes(ata), n), "err") /\ Fault
      /\ kind' = kind /\ drive' = drive /\ len' = len /\ bd' = bd /\ req' = req /\ buf' = buf
      /\ uppers' = uppers /\ mixed' = mixed /\ calls' = calls
  BY DEF PutBlock, Cur, env
<1>2. /\ at.stage = "data" /\ ~IsFile /\ n \in Nat /\ first \in Nat /\ ata.lba \in Nat
      /\ ata.sel = req.dev /\ ata.lba + n <= 2 * LowSecs /\ first + n <= 2 * LowSecs
      /\ \E k \in 0 .. n : media' = Stored(media, ata.lba, k, first)
  BY PutPlace
<1>3. /\ Comes(ata) \in AtaType /\ n <= ata.left /\ ata.lba + ata.left <= 2 * LowSecs
      /\ Comes(ata).lba = ata.lba /\ Comes(ata).left = ata.left /\ Comes(ata).sel = req.dev
      /\ Comes(ata).upper = ata.upper /\ Aside(Comes(ata))
  BY <1>1, <1>2, BlockFacts
<1> HIDE DEF n, first
<1>4. /\ ata' \in AtaType /\ Status(ata') \in {"idle", "work", "err"} /\ ata'.sel = req.dev
      /\ ata'.upper = ata.upper
      /\ Status(ata') = "work" => ata'.lba = ata.lba + n /\ ata'.left = ata.left - n
      /\ Aside(ata')
  BY <1>1, <1>2, <1>3, MovedFacts
<1>5. media' \in [Devs -> [Sectors -> Content]] /\ buf' \in Seq(Content)
  <2>1. media \in [Devs -> [Sectors -> Content]] /\ buf \in Seq(Content)
    BY DEF IInv, TypeOK
  <2>2. PICK k \in 0 .. n : media' = Stored(media, ata.lba, k, first)
    BY <1>2
  <2>3. k \in Nat /\ ata.lba + k <= 2 * LowSecs /\ first + k <= 2 * LowSecs
    BY <1>2, Constants
  <2>4. Stored(media, ata.lba, k, first) \in [Devs -> [Sectors -> Content]]
    BY <1>2, <2>3, StoredFacts DEF IInv
  <2> QED BY <1>1, <2>1, <2>2, <2>4
<1>6. faults' \in 0 .. MaxFaults /\ hit' \in BOOLEAN
  BY <1>1, FaultFacts DEF IInv
<1> QED BY <1>1, <1>2, <1>4, <1>5, <1>6, AdvanceInv DEF n

\* What an init tells of a device.
LEMMA UpFacts ==
  ASSUME TypeOK, Up
  PROVE  bd' \in [Devs -> [up : BOOLEAN, single : BOOLEAN, multi : 0 .. SecCntMax]]
<1>1. /\ bd \in [Devs -> [up : BOOLEAN, single : BOOLEAN, multi : 0 .. SecCntMax]]
      /\ req.dev \in Devs /\ req.single \in BOOLEAN /\ drive.multi \in 0 .. SecCntMax
  BY ConstAssumption DEF TypeOK, ReqType, DriveType
<1> QED BY <1>1 DEF Up

LEMMA IdentifiedStep == ASSUME IInv, Identified PROVE IInv'
<1>1. /\ pc = "status" /\ at.stage = "identify" /\ StatusOk(Comes(ata)) /\ Fine
      /\ ata' = Moved(Comes(ata), 1)
      /\ kind' = kind /\ drive' = drive /\ media' = media /\ len' = len /\ req' = req /\ buf' = buf
      /\ uppers' = uppers /\ mixed' = mixed /\ calls' = calls
  BY DEF Identified, env
<1>2. ata \in AtaType /\ Working /\ at \in AtType
  BY DEF IInv, TypeOK
<1>3. /\ Status(ata) = "work" /\ Comes(ata) \in AtaType
      /\ Comes(ata).lba = ata.lba /\ Comes(ata).left = ata.left /\ Comes(ata).sel = ata.sel
      /\ Comes(ata).upper = ata.upper /\ Aside(Comes(ata))
  BY <1>1, <1>2, ComesFacts, SeenFacts DEF StatusOk
<1>4. ata.left = 1 /\ ata.lba + 1 <= 2 * LowSecs /\ ata.lba \in Nat
  <2>1. ata.left = 1
    BY <1>1, <1>3 DEF IInv, Command
  <2>2. ata.lba \in Nat
    BY <1>2, Constants DEF AtaType
  <2> QED BY <1>2, <1>3, <2>1, <2>2 DEF Working
<1>5. /\ ata' \in AtaType /\ Status(ata') \in {"idle", "work"} /\ ata'.upper = ata.upper
      /\ ata'.lba = ata.lba + 1 /\ ata'.left = 0 /\ Aside(ata')
  BY <1>1, <1>3, <1>4, MovedFacts
<1>6. Working' /\ (ata'.upper = 1 => 1 \in uppers')
  BY <1>1, <1>4, <1>5, WorkingNext DEF IInv, UpperBits
<1>7. faults' \in 0 .. MaxFaults /\ hit' \in BOOLEAN
  BY <1>1, FaultFacts DEF IInv
<1>8. ASSUME bd' = bd \/ Up, at' \in AtType, pc' \in {"idle", "ready"}, ret' \in {"none", "ok", "fail"}
      PROVE  TypeOK'
  <2>1. bd' \in [Devs -> [up : BOOLEAN, single : BOOLEAN, multi : 0 .. SecCntMax]]
    BY <1>8, UpFacts DEF IInv, TypeOK
  <2> QED BY <1>1, <1>5, <1>7, <1>8, <2>1 DEF IInv, TypeOK
<1>9. CASE pc' = "idle" /\ at' = NoAt /\ (bd' = bd \/ Up) /\ ret' \in {"ok", "fail"}
  <2>1. TypeOK'
    BY <1>8, <1>9, NoAtType
  <2> QED BY <1>1, <1>6, <1>9, <2>1, ReturnInv
<1>10. CASE at' = [at EXCEPT !.stage = "setmultiple"] /\ pc' = "ready" /\ ret' = ret /\ bd' = bd
  <2>1. at' \in AtType /\ at'.stage = "setmultiple"
    BY <1>2, <1>10 DEF AtType
  <2>2. TypeOK'
    BY <1>8, <1>10, <2>1 DEF IInv, TypeOK
  <2>3. CallPlace' /\ Progress' /\ FileProgress'
    BY <1>1, <1>10, <2>1 DEF IInv, CallPlace, AtDrive, AtData, Progress, FileProgress, IsFile
  <2>4. Command' /\ SendsToIdle' /\ Selected' /\ UpperBits'
    BY <1>6, <1>10 DEF Command, SendsToIdle, Selected, UpperBits
  <2> QED BY <1>6, <2>2, <2>3, <2>4 DEF IInv
<1> QED BY <1>9, <1>10 DEF Identified, Return, Goto

LEMMA MultipleSetStep == ASSUME IInv, MultipleSet PROVE IInv'
<1>1. /\ pc' = "idle" /\ StatusOk(Comes(ata)) /\ Fine /\ ata' = Comes(ata) /\ Up /\ at.stage = "setmultiple"
      /\ at' = NoAt /\ ret' = "ok"
      /\ kind' = kind /\ drive' = drive /\ media' = media /\ len' = len /\ req' = req /\ buf' = buf
      /\ uppers' = uppers /\ mixed' = mixed /\ calls' = calls
  BY DEF MultipleSet, Return, env
<1>2. ata \in AtaType /\ Working
  BY DEF IInv, TypeOK
<1>3. ata' \in AtaType /\ Status(ata') = "idle" /\ ata'.upper = ata.upper /\ Aside(ata')
  BY <1>1, <1>2, ComesFacts, SeenFacts DEF StatusOk
<1>4. Working' /\ (ata'.upper = 1 => 1 \in uppers')
  BY <1>1, <1>3, WorkingNext DEF IInv, UpperBits
<1>5. faults' \in 0 .. MaxFaults /\ hit' \in BOOLEAN
  BY <1>1, FaultFacts DEF IInv
<1>6. bd' \in [Devs -> [up : BOOLEAN, single : BOOLEAN, multi : 0 .. SecCntMax]]
  BY <1>1, UpFacts DEF IInv
<1>7. TypeOK'
  BY <1>1, <1>3, <1>5, <1>6, NoAtType DEF IInv, TypeOK
<1> QED BY <1>1, <1>4, <1>7, ReturnInv

-----------------------------------------------------------------------------
(* The steps of the image file                                             *)

\* What every step of the file leaves alone.
FileFrame == /\ kind' = kind /\ drive' = drive /\ ata' = ata /\ req' = req /\ uppers' = uppers
             /\ mixed' = mixed /\ calls' = calls

\* A step of the file that goes on has to keep its place only.
LEMMA FileInv ==
  ASSUME IInv, FileFrame, TypeOK', IsFile, FileProgress',
         pc' \in {"idle", "exited", "seek", "move"}, ret' # "none" => pc' = "idle",
         pc' \in {"seek", "move"} => req.op \in {"get", "put"}
  PROVE  IInv'
<1>1. CallPlace' /\ Progress'
  BY DEF FileFrame, IInv, CallPlace, AtDrive, AtData, Progress, IsFile
<1>2. Working' /\ Command' /\ SendsToIdle' /\ Selected' /\ UpperBits'
  BY DEF FileFrame, IInv, Working, Command, SendsToIdle, Selected, UpperBits, Status, Aside, Resting
<1> QED BY <1>1, <1>2 DEF IInv

LEMMA OpenStep == ASSUME IInv, Open PROVE IInv'
<1>1. /\ FileFrame /\ pc = "open" /\ media' = media /\ len' = len /\ buf' = buf /\ (Fault \/ Fine)
      /\ \/ pc' = "idle" /\ at' = NoAt /\ ret' = "ok" /\ bd' = [bd EXCEPT ![0].up = TRUE]
         \/ pc' = "exited" /\ at' = at /\ ret' = ret /\ bd' = bd
  BY DEF Open, Return, FileFrame, env
<1>2. IsFile /\ ret = "none"
  BY <1>1 DEF IInv, CallPlace
<1>3. faults' \in 0 .. MaxFaults /\ hit' \in BOOLEAN
  BY <1>1, FaultFacts DEF IInv
<1>4. bd' \in [Devs -> [up : BOOLEAN, single : BOOLEAN, multi : 0 .. SecCntMax]]
  <2>1. bd \in [Devs -> [up : BOOLEAN, single : BOOLEAN, multi : 0 .. SecCntMax]] /\ 0 \in Devs
    BY DEF IInv, TypeOK, Devs
  <2> QED BY <1>1, <2>1
<1>5. TypeOK'
  BY <1>1, <1>3, <1>4, NoAtType, SMTT(30) DEF IInv, TypeOK, FileFrame
<1> QED BY <1>1, <1>2, <1>5, FileInv DEF FileProgress

LEMMA SeekStep == ASSUME IInv, Seek PROVE IInv'
<1>1. /\ FileFrame /\ pc = "seek" /\ media' = media /\ len' = len /\ buf' = buf /\ bd' = bd
      /\ hit' = hit /\ faults' = faults
      /\ \/ /\ Offset(at.sec) >= 0 /\ at' = [at EXCEPT !.sec = Offset(@)]
            /\ pc' = "move" /\ ret' = ret
         \/ pc' = "idle" /\ at' = NoAt /\ ret' = "fail"
  BY DEF Seek, Return, Goto, FileFrame, env
<1>2. /\ IsFile /\ ret = "none" /\ req.op \in {"get", "put"} /\ at \in AtType /\ req \in ReqType
      /\ at.sec = req.sec /\ at.count = req.count /\ req.sec + req.count <= 2 * LowSecs
  BY <1>1 DEF IInv, CallPlace, FileProgress, TypeOK
<1>3. CASE pc' = "move"
  <2>1. Offset(at.sec) >= 0 /\ at' = [at EXCEPT !.sec = Offset(@)] /\ ret' = ret
    BY <1>1, <1>3
  <2>2. at.sec \in Nat /\ at.count \in Nat /\ Offset(at.sec) \in Nat /\ Offset(at.sec) <= at.sec
    BY <1>2, <2>1, OffsetFacts DEF AtType
  <2>3. at' \in AtType /\ at'.sec = Offset(req.sec) /\ at'.count = req.count
    BY <1>2, <2>1, <2>2 DEF AtType
  <2>4. Wrapped' = Wrapped
    BY <1>1 DEF FileFrame, Wrapped, Offset
  <2>5. ~Wrapped => Offset(req.sec) = req.sec
    BY <1>2 DEF Wrapped, IsFile, Offset
  <2>6. FileProgress'
    BY <1>1, <1>2, <1>3, <2>2, <2>3, <2>4, <2>5, Constants DEF FileFrame, FileProgress
  <2>7. TypeOK'
    BY <1>1, <1>3, <2>3 DEF IInv, TypeOK, FileFrame
  <2> QED BY <1>1, <1>2, <1>3, <2>1, <2>6, <2>7, FileInv
<1>4. CASE pc' = "idle"
  <2>1. at' = NoAt /\ ret' = "fail"
    BY <1>1, <1>4
  <2>2. TypeOK'
    BY <1>1, <1>4, <2>1, NoAtType DEF IInv, TypeOK, FileFrame
  <2> QED BY <1>1, <1>2, <1>4, <2>2, FileInv DEF FileProgress
<1> QED BY <1>1, <1>3, <1>4

\* What a read or write of n sectors leaves to be done.
LEMMA MoveOnFacts ==
  ASSUME IInv, pc = "move", NEW n \in Nat, n <= at.count, MoveOn(n),
         kind' = kind, req' = req
  PROVE  /\ FileProgress' /\ at' \in AtType /\ pc' \in {"idle", "move"}
         /\ ret' \in {"none", "ok", "fail"} /\ (ret' # "none" => pc' = "idle")
<1>1. /\ at \in AtType /\ req \in ReqType /\ ret = "none"
      /\ at.count <= req.count /\ at.sec + at.count <= 2 * LowSecs
      /\ ~Wrapped => at.sec + at.count = req.sec + req.count
  BY DEF IInv, TypeOK, FileProgress, CallPlace
<1>2. at.sec \in Nat /\ at.count \in Nat /\ req.sec \in Nat /\ req.count \in Nat
  BY <1>1 DEF AtType, ReqType
<1>3. CASE n = at.count
  <2>1. pc' = "idle" /\ at' = NoAt /\ ret' = "ok"
    BY <1>3 DEF MoveOn, Return
  <2> QED BY <2>1, NoAtType DEF FileProgress
<1>4. CASE n # at.count
  <2>1. at' = [at EXCEPT !.sec = @ + n, !.count = @ - n] /\ pc' = "move" /\ ret' = ret
    BY <1>4 DEF MoveOn, Goto
  <2>2. at.sec + n \in Nat /\ at.count - n \in Nat
    BY <1>2
  <2>3. at' \in AtType /\ at'.sec = at.sec + n /\ at'.count = at.count - n
    BY <1>1, <2>1, <2>2 DEF AtType
  <2>4. Wrapped' = Wrapped
    BY DEF Wrapped, Offset
  <2>5. FileProgress'
    BY <1>1, <1>2, <2>1, <2>3, <2>4, Constants DEF FileProgress
  <2> QED BY <1>1, <2>1, <2>3, <2>5
<1> QED BY <1>3, <1>4

LEMMA ReadSomeStep == ASSUME IInv, ReadSome PROVE IInv'
<1>1. /\ FileFrame /\ pc = "move" /\ media' = media /\ len' = len /\ bd' = bd /\ Fine
      /\ at.sec < len \/ at.count = 0
  BY DEF ReadSome, FileFrame, env
<1>2. PICK n \in Some(Lesser(at.count, len - at.sec)) :
         /\ buf' = buf \o [i \in 1 .. n |-> media[0][at.sec + i - 1]]
         /\ MoveOn(n)
  BY DEF ReadSome
<1>3. /\ IsFile /\ req.op \in {"get", "put"} /\ at.sec \in Nat /\ at.count \in Nat /\ len \in Nat
      /\ at.sec + at.count <= 2 * LowSecs
  BY <1>1 DEF IInv, CallPlace, FileProgress, TypeOK, AtType
<1>4. n \in Nat /\ n <= at.count
  BY <1>1, <1>2, <1>3 DEF Some, Lesser
<1>5. /\ FileProgress' /\ at' \in AtType /\ pc' \in {"idle", "move"}
      /\ ret' \in {"none", "ok", "fail"} /\ (ret' # "none" => pc' = "idle")
  BY <1>1, <1>2, <1>4, MoveOnFacts DEF FileFrame
<1>6. buf' \in Seq(Content)
  <2>1. media \in [Devs -> [Sectors -> Content]] /\ buf \in Seq(Content) /\ 0 \in Devs
    BY DEF IInv, TypeOK, Devs
  <2>2. ASSUME NEW i \in 1 .. n PROVE media[0][at.sec + i - 1] \in Content
    <3>1. at.sec + i - 1 \in Sectors
      BY <1>3, <1>4, Constants DEF Sectors
    <3> QED BY <2>1, <3>1
  <2>3. [i \in 1 .. n |-> media[0][at.sec + i - 1]] \in Seq(Content)
    BY <1>4, <2>2
  <2> QED BY <1>2, <2>1, <2>3
<1>7. TypeOK'
  BY <1>1, <1>5, <1>6 DEF IInv, TypeOK, FileFrame, Fine
<1> QED BY <1>1, <1>3, <1>5, <1>7, FileInv

\* Where a piece of a write to the file goes and where it is from.
LEMMA WritePlace ==
  ASSUME IInv, WriteSome
  PROVE  \E n \in Nat :
           LET first == req.count - at.count
           IN /\ IsFile /\ req.op = "put" /\ pc = "move" /\ n <= at.count /\ MoveOn(n)
              /\ first \in Nat /\ at.sec \in Nat
              /\ at.sec + n <= 2 * LowSecs /\ first + n <= req.count /\ first + n <= 2 * LowSecs
              /\ ~Wrapped => at.sec = req.sec + first
              /\ media' = Stored(media, at.sec, n, first)
              /\ len' \in Nat
<1>1. PICK n \in Some(at.count) :
         /\ media' = Stored(media, at.sec, n, req.count - at.count)
         /\ len' = IF n > 0 /\ at.sec + n > len THEN at.sec + n ELSE len
         /\ MoveOn(n)
  BY DEF WriteSome
<1>2. pc = "move" /\ req.op = "put"
  BY DEF WriteSome
<1>3. /\ IsFile /\ at.sec \in Nat /\ at.count \in Nat /\ len \in Nat
      /\ req.sec \in Nat /\ req.count \in Nat
      /\ req.sec + req.count <= 2 * LowSecs
      /\ at.count <= req.count /\ at.sec + at.count <= 2 * LowSecs
      /\ ~Wrapped => at.sec + at.count = req.sec + req.count
  BY <1>2 DEF IInv, CallPlace, FileProgress, TypeOK, AtType, ReqType
<1>4. n \in Nat /\ n <= at.count
  BY <1>1, <1>3 DEF Some
<1> DEFINE first == req.count - at.count
<1>5. first \in Nat /\ at.sec + n <= 2 * LowSecs /\ first + n <= req.count /\ first + n <= 2 * LowSecs
  BY <1>3, <1>4, Constants
<1>6. ~Wrapped => at.sec = req.sec + first
  BY <1>3
<1>7. len' \in Nat
  BY <1>1, <1>3, <1>4
<1> QED BY <1>1, <1>2, <1>3, <1>4, <1>5, <1>6, <1>7

LEMMA WriteSomeStep == ASSUME IInv, WriteSome PROVE IInv'
<1>1. FileFrame /\ pc = "move" /\ bd' = bd /\ buf' = buf /\ Fine
  BY DEF WriteSome, FileFrame, env
<1> DEFINE first == req.count - at.count
<1>2. PICK n \in Nat :
        /\ IsFile /\ req.op = "put" /\ n <= at.count /\ MoveOn(n) /\ first \in Nat /\ at.sec \in Nat
        /\ at.sec + n <= 2 * LowSecs /\ first + n <= 2 * LowSecs
        /\ media' = Stored(media, at.sec, n, first) /\ len' \in Nat
  BY WritePlace
<1> HIDE DEF first
<1>3. IsFile => req.dev = 0
  BY DEF IInv, CallPlace
<1>4. media' \in [Devs -> [Sectors -> Content]]
  BY <1>2, <1>3, StoredFacts DEF IInv
<1>5. /\ FileProgress' /\ at' \in AtType /\ pc' \in {"idle", "move"}
      /\ ret' \in {"none", "ok", "fail"} /\ (ret' # "none" => pc' = "idle")
  BY <1>1, <1>2, MoveOnFacts DEF FileFrame
<1>6. TypeOK'
  BY <1>1, <1>2, <1>4, <1>5 DEF IInv, TypeOK, FileFrame, Fine
<1> QED BY <1>1, <1>2, <1>5, <1>6, FileInv

LEMMA MoveFailsStep == ASSUME IInv, MoveFails PROVE IInv'
<1>1. /\ FileFrame /\ pc = "move" /\ media' = media /\ len' = len /\ bd' = bd /\ buf' = buf /\ Fault
      /\ pc' = "idle" /\ ret' = "fail" /\ at' = NoAt
  BY DEF MoveFails, Return, FileFrame, env
<1>2. IsFile
  BY <1>1 DEF IInv, CallPlace
<1>3. faults' \in 0 .. MaxFaults /\ hit' \in BOOLEAN
  BY <1>1, FaultFacts DEF IInv
<1>4. TypeOK'
  BY <1>1, <1>3, NoAtType DEF IInv, TypeOK, FileFrame
<1> QED BY <1>1, <1>2, <1>4, FileInv DEF FileProgress

-----------------------------------------------------------------------------
(* The calls                                                               *)

\* What a call is given, and what its beginning leaves alone.
LEMMA CallFacts ==
  ASSUME IInv, NEW op, op \in {"init", "get", "put", "reset", "cleanup"},
         NEW dev, dev \in Devs, NEW sec, sec \in Nat, NEW count, count \in Nat,
         NEW single, single \in BOOLEAN, sec + count <= 2 * LowSecs,
         Call(op, dev, sec, count, single)
  PROVE  /\ pc = "idle" /\ calls' \in 0 .. MaxCalls /\ req' \in ReqType
         /\ req'.op = op /\ req'.dev = dev /\ req'.sec = sec /\ req'.count = count
         /\ IsFile => dev = 0
         /\ buf' \in Seq(Content) /\ mixed' \in BOOLEAN
         /\ kind' = kind /\ drive' = drive /\ len' = len
<1>1. calls' \in 0 .. MaxCalls
  <2>1. calls \in 0 .. MaxCalls /\ calls < MaxCalls /\ calls' = calls + 1
    BY DEF IInv, TypeOK, Call
  <2> QED BY <2>1, Constants
<1>2. req' = [op |-> op, dev |-> dev, sec |-> sec, count |-> count, single |-> single]
  BY DEF Call
<1>3. req' \in ReqType /\ req'.op = op /\ req'.dev = dev /\ req'.sec = sec /\ req'.count = count
  BY <1>2 DEF ReqType
<1>4. buf' = <<>> /\ mixed' = (uppers = {0, 1})
  BY DEF Call
<1>5. buf' \in Seq(Content) /\ mixed' \in BOOLEAN
  BY <1>4
<1> QED BY <1>1, <1>3, <1>5 DEF Call, env

\* A call that begins or is over at once: the place it goes to.
LEMMA BeginInv ==
  ASSUME IInv, TypeOK', Working', ata'.upper = 1 => 1 \in uppers', kind' = kind,
         IsFile => req'.dev = 0, req'.sec + req'.count <= 2 * LowSecs,
         \/ pc' = "idle"
         \/ pc' = "open" /\ IsFile /\ ret' = "none"
         \/ /\ pc' = "seek" /\ IsFile /\ ret' = "none" /\ req'.op \in {"get", "put"}
            /\ at'.sec = req'.sec /\ at'.count = req'.count
         \/ /\ pc' = "ready" /\ ~IsFile /\ ret' = "none" /\ req'.op = "init"
            /\ at'.stage = "identify"
         \/ /\ pc' = "ready" /\ ~IsFile /\ ret' = "none" /\ req'.op \in {"get", "put"}
            /\ at'.stage = "data" /\ at'.sec = req'.sec /\ at'.count = req'.count
            /\ req'.count > 0 /\ CurSecs(at'.cur) \in 1 .. req'.count /\ at'.iSec = 0
            /\ (at.cur = Chunk(req.dev, at.count) /\ at.loops = Passes(req.dev, at.count))'
  PROVE  IInv'
<1>1. CallPlace'
  BY DEF CallPlace, AtDrive, IsFile
<1>2. req'.sec \in Nat /\ req'.count \in Nat
  BY DEF TypeOK, ReqType
<1>3. Progress'
  BY <1>2 DEF Progress, AtData, AtDrive, Cur, CurSecs
<1>4. FileProgress'
  BY DEF FileProgress
<1>5. Command' /\ SendsToIdle' /\ Selected' /\ UpperBits'
  BY DEF Command, SendsToIdle, Selected, UpperBits
<1> QED BY <1>1, <1>3, <1>4, <1>5 DEF IInv

LEMMA TransferStep ==
  ASSUME IInv, NEW op, op \in {"get", "put"}, Transfer(op) PROVE IInv'
<1>1. /\ hit' = FALSE /\ ata' = ata /\ media' = media /\ bd' = bd /\ uppers' = uppers
      /\ faults' = faults
  BY DEF Transfer
<1>2. PICK dev \in Devs, a \in Asked :
        /\ Call(op, dev, a[1], a[2], FALSE)
        /\ LET start == [NoAt EXCEPT !.sec = a[1], !.count = a[2]]
           IN \/ IsFile /\ Enter("seek", start)
              \/ Return("fail") \/ Return("ok")
              \/ ~IsFile /\ a[2] # 0 /\ Enter("ready", Pass(dev, a[1], a[2], Passes(dev, a[2])))
  BY DEF Transfer
<1>3. a[1] \in Nat /\ a[2] \in Nat /\ a[1] + a[2] <= 2 * LowSecs
  BY ConstAssumption
<1>4. /\ calls' \in 0 .. MaxCalls /\ req' \in ReqType
      /\ req'.op = op /\ req'.dev = dev /\ req'.sec = a[1] /\ req'.count = a[2]
      /\ IsFile => dev = 0
      /\ buf' \in Seq(Content) /\ mixed' \in BOOLEAN
      /\ kind' = kind /\ drive' = drive /\ len' = len
  <2>1. FALSE \in BOOLEAN /\ op \in {"init", "get", "put", "reset", "cleanup"}
    OBVIOUS
  <2> QED BY <1>2, <1>3, <2>1, CallFacts
<1> DEFINE start == [NoAt EXCEPT !.sec = a[1], !.count = a[2]]
<1>5. start \in AtType /\ start.sec = a[1] /\ start.count = a[2] /\ start.iSec = 0
      /\ start.stage = "data"
  <2>1. NoAt \in AtType /\ NoAt.iSec = 0 /\ NoAt.stage = "data"
    BY NoAtType DEF NoAt
  <2> QED BY <1>3, <2>1 DEF AtType
<1>6. ASSUME pc' \in {"idle", "seek", "ready"}, at' \in AtType, ret' \in {"none", "ok", "fail"}
      PROVE  TypeOK' /\ Working' /\ (ata'.upper = 1 => 1 \in uppers')
  <2>1. TypeOK'
    BY <1>1, <1>4, <1>6 DEF IInv, TypeOK
  <2> QED BY <1>1, <2>1 DEF IInv, Working, UpperBits, Status, Aside, Resting
<1>7. CASE Return("fail") \/ Return("ok")
  <2>1. pc' = "idle" /\ at' = NoAt /\ ret' \in {"ok", "fail"}
    BY <1>7 DEF Return
  <2>2. TypeOK' /\ Working' /\ (ata'.upper = 1 => 1 \in uppers')
    BY <1>6, <2>1, NoAtType
  <2> QED BY <1>3, <1>4, <2>1, <2>2, BeginInv
<1> HIDE DEF start
<1>8. CASE IsFile /\ Enter("seek", start)
  <2>1. pc' = "seek" /\ at' = start /\ ret' = "none"
    BY <1>8 DEF Enter
  <2>2. TypeOK' /\ Working' /\ (ata'.upper = 1 => 1 \in uppers')
    BY <1>5, <1>6, <2>1
  <2> QED BY <1>3, <1>4, <1>5, <1>8, <2>1, <2>2, BeginInv
<1>9. CASE ~IsFile /\ a[2] # 0 /\ Enter("ready", Pass(dev, a[1], a[2], Passes(dev, a[2])))
  <2>1. pc' = "ready" /\ at' = Pass(dev, a[1], a[2], Passes(dev, a[2])) /\ ret' = "none"
    BY <1>9 DEF Enter
  <2>2. Chunk(dev, a[2]) \in 0 .. SecCntMax /\ CurSecs(Chunk(dev, a[2])) <= a[2]
    BY <1>3, <1>9, ChunkFacts
  <2>3. CurSecs(Chunk(dev, a[2])) \in 1 .. a[2]
    BY <1>3, <2>2, CountFacts, Constants
  <2>4. PICK l \in Nat : l = Passes(dev, a[2])
    <3>1. bd[dev].single \in BOOLEAN
      BY DEF IInv, TypeOK
    <3> QED BY <1>3, <1>9, <3>1, PassesFacts
  <2>5. PICK sec \in Nat, n \in Nat : sec = a[1] /\ n = a[2]
    BY <1>3
  <2>6. at' = Pass(dev, sec, n, l)
    BY <2>1, <2>4, <2>5
  <2>7. /\ at' \in AtType /\ at'.cur = Chunk(dev, n) /\ at'.sec = sec /\ at'.count = n
        /\ at'.iSec = 0 /\ at'.stage = "data" /\ at'.loops = l
    BY <2>6, PassFacts
  <2>8. TypeOK' /\ Working' /\ (ata'.upper = 1 => 1 \in uppers')
    BY <1>6, <2>1, <2>7
  <2>9. a[2] > 0
    BY <1>3, <1>9
  <2>10. (at.cur = Chunk(req.dev, at.count) /\ at.loops = Passes(req.dev, at.count))'
    BY <1>1, <1>4, <2>4, <2>5, <2>7 DEF Chunk, Passes
  <2> QED BY <1>3, <1>4, <1>9, <2>1, <2>3, <2>5, <2>7, <2>8, <2>9, <2>10, BeginInv
<1> QED BY <1>2, <1>7, <1>8, <1>9 DEF start

\* The registers after a reset, and the fault when it does not end.
LEMMA ResetStep ==
  ASSUME IInv, Reset
  PROVE  /\ ata' \in AtaType /\ ata'.upper = 0 /\ Status(ata') \in {"idle", "hung"}
         /\ Aside(ata') /\ faults' \in 0 .. MaxFaults /\ hit' \in BOOLEAN
<1>1. /\ ata' \in AtaType /\ ata'.upper = 0 /\ Status(ata') \in {"idle", "hung"}
      /\ Aside(ata')
  <2>1. ata \in AtaType
    BY DEF IInv, TypeOK
  <2>2. PICK busy \in SUBSET Devs : ata' = AfterReset(ata, busy)
    BY DEF Reset
  <2> QED BY <2>1, <2>2, ResetFacts
<1>2. CASE hit' = FALSE /\ faults' = faults
  BY <1>1, <1>2 DEF IInv, TypeOK
<1>3. CASE Fault
  BY <1>1, <1>3, FaultFacts DEF IInv
<1> QED BY <1>1, <1>2, <1>3 DEF Reset

LEMMA InitDevStep == ASSUME IInv, InitDev PROVE IInv'
<1>1. PICK dev \in Devs, single \in BOOLEAN :
        /\ Call("init", dev, 0, 0, single)
        /\ IF IsFile THEN Enter("open", NoAt)
           ELSE Enter("ready", [NoAt EXCEPT !.stage = "identify"])
        /\ \/ Reset /\ uppers' = {}
           \/ ata' = ata /\ uppers' = uppers /\ faults' = faults /\ hit' = FALSE
  BY DEF InitDev
<1>2. media' = media /\ bd' = bd
  BY DEF InitDev
<1>3. /\ calls' \in 0 .. MaxCalls /\ req' \in ReqType
      /\ req'.op = "init" /\ req'.dev = dev /\ req'.sec = 0 /\ req'.count = 0
      /\ IsFile => dev = 0
      /\ buf' \in Seq(Content) /\ mixed' \in BOOLEAN
      /\ kind' = kind /\ drive' = drive /\ len' = len
  <2>1. 0 + 0 <= 2 * LowSecs /\ 0 \in Nat
    BY Constants
  <2> QED BY <1>1, <2>1, CallFacts
<1>4. /\ ata' \in AtaType /\ Working' /\ (ata'.upper = 1 => 1 \in uppers')
      /\ faults' \in 0 .. MaxFaults /\ hit' \in BOOLEAN /\ uppers' \subseteq {0, 1}
  <2>1. CASE Reset /\ uppers' = {}
    BY <2>1, ResetStep, WorkingNext
  <2>2. CASE ata' = ata /\ uppers' = uppers /\ faults' = faults /\ hit' = FALSE
    BY <2>2 DEF IInv, TypeOK, Working, UpperBits, Status, Aside, Resting
  <2> QED BY <1>1, <2>1, <2>2
<1>5. /\ ret' = "none" /\ at' \in AtType
      /\ \/ IsFile /\ pc' = "open"
         \/ ~IsFile /\ pc' = "ready" /\ at'.stage = "identify"
  BY <1>1, NoAtType DEF Enter, AtType
<1>6. TypeOK'
  BY <1>2, <1>3, <1>4, <1>5 DEF IInv, TypeOK
<1>7. req'.sec + req'.count <= 2 * LowSecs
  BY <1>3, Constants
<1> QED BY <1>3, <1>4, <1>5, <1>6, <1>7, BeginInv

LEMMA ResetDevStep == ASSUME IInv, ResetDev PROVE IInv'
<1>1. /\ Call("reset", 0, 0, 0, FALSE) /\ media' = media /\ bd' = bd
      /\ \/ /\ Return("ok") /\ hit' = FALSE /\ ata' = ata /\ uppers' = uppers
            /\ faults' = faults
         \/ Reset /\ uppers' = {} /\ (Return("fail") \/ Return("ok"))
  BY DEF ResetDev
<1>2. /\ calls' \in 0 .. MaxCalls /\ req' \in ReqType
      /\ req'.dev = 0 /\ req'.sec = 0 /\ req'.count = 0
      /\ buf' \in Seq(Content) /\ mixed' \in BOOLEAN
      /\ kind' = kind /\ drive' = drive /\ len' = len
  <2>1. PICK op \in {"reset"}, single \in BOOLEAN : Call(op, 0, 0, 0, single)
    BY <1>1
  <2>2. 0 + 0 <= 2 * LowSecs /\ 0 \in Nat /\ 0 \in Devs
    BY Constants DEF Devs
  <2> QED BY <2>1, <2>2, CallFacts
<1>3. /\ ata' \in AtaType /\ Working' /\ (ata'.upper = 1 => 1 \in uppers')
      /\ faults' \in 0 .. MaxFaults /\ hit' \in BOOLEAN /\ uppers' \subseteq {0, 1}
  <2>1. CASE Reset /\ uppers' = {}
    BY <2>1, ResetStep, WorkingNext
  <2>2. CASE ata' = ata /\ uppers' = uppers /\ faults' = faults /\ hit' = FALSE
    BY <2>2 DEF IInv, TypeOK, Working, UpperBits, Status, Aside, Resting
  <2> QED BY <1>1, <2>1, <2>2
<1>4. pc' = "idle" /\ at' = NoAt /\ ret' \in {"ok", "fail"}
  BY <1>1 DEF Return
<1>5. TypeOK'
  BY <1>1, <1>2, <1>3, <1>4, NoAtType DEF IInv, TypeOK
<1>6. req'.sec + req'.count <= 2 * LowSecs
  BY <1>2, Constants
<1> QED BY <1>2, <1>3, <1>4, <1>5, <1>6, BeginInv

LEMMA CleanupStep == ASSUME IInv, Cleanup PROVE IInv'
<1>1. PICK dev \in Devs :
        /\ Call("cleanup", dev, 0, 0, FALSE) /\ Return("ok")
        /\ bd' = [bd EXCEPT ![dev].up = FALSE] /\ hit' = FALSE
        /\ ata' = ata /\ media' = media /\ uppers' = uppers /\ faults' = faults
  BY DEF Cleanup
<1>2. /\ calls' \in 0 .. MaxCalls /\ req' \in ReqType
      /\ req'.dev = dev /\ req'.sec = 0 /\ req'.count = 0
      /\ IsFile => dev = 0
      /\ buf' \in Seq(Content) /\ mixed' \in BOOLEAN
      /\ kind' = kind /\ drive' = drive /\ len' = len
  <2>1. PICK op \in {"cleanup"}, single \in BOOLEAN : Call(op, dev, 0, 0, single)
    BY <1>1
  <2>2. 0 + 0 <= 2 * LowSecs /\ 0 \in Nat
    BY Constants
  <2> QED BY <2>1, <2>2, CallFacts
<1>3. bd' \in [Devs -> [up : BOOLEAN, single : BOOLEAN, multi : 0 .. SecCntMax]]
  BY <1>1 DEF IInv, TypeOK
<1>4. Working' /\ (ata'.upper = 1 => 1 \in uppers')
  BY <1>1 DEF IInv, Working, UpperBits, Status, Aside, Resting
<1>5. pc' = "idle" /\ at' = NoAt /\ ret' = "ok"
  BY <1>1 DEF Return
<1>6. TypeOK'
  BY <1>1, <1>2, <1>3, <1>5, NoAtType DEF IInv, TypeOK
<1>7. req'.sec + req'.count <= 2 * LowSecs
  BY <1>2, Constants
<1> QED BY <1>2, <1>4, <1>5, <1>6, <1>7, BeginInv

-----------------------------------------------------------------------------
(* The theorems                                                            *)

LEMMA StepInv == IInv /\ [Next]_vars => IInv'
<1> SUFFICES ASSUME IInv, [Next]_vars PROVE IInv'
  OBVIOUS
<1>1. CASE Get \/ Put
  BY <1>1, TransferStep DEF Get, Put
<1>2. CASE InitDev \/ ResetDev \/ Cleanup
  BY <1>2, InitDevStep, ResetDevStep, CleanupStep
<1>3. CASE Ready \/ ReadyByReset \/ StillNotOk \/ SuddenlyBusy
  BY <1>3, ReadySteps, NotReadySteps
<1>4. CASE Send \/ RepOnError \/ StatusBad
  BY <1>4, SendStep, BadStatusSteps
<1>5. CASE GetBlock \/ PutBlock \/ Identified \/ MultipleSet
  BY <1>5, GetBlockStep, PutBlockStep, IdentifiedStep, MultipleSetStep
<1>6. CASE Open \/ Seek \/ ReadSome \/ WriteSome \/ MoveFails
  BY <1>6, OpenStep, SeekStep, ReadSomeStep, WriteSomeStep, MoveFailsStep
<1>7. CASE ReadNothing \/ UNCHANGED vars
  BY <1>7, StutterInv DEF ReadNothing
<1> QED BY <1>1, <1>2, <1>3, <1>4, <1>5, <1>6, <1>7 DEF Next, Ask, Continue

(* The inductive invariant holds in every state of every call.                 *)
THEOREM DevInvHolds == Spec => []IInv
<1> QED BY InitInv, StepInv, PTL DEF Spec

(* The registers of the drives keep their widths, a transfer its bounds and    *)
(* the sectors their kind, whatever the drives answer: no command counts more  *)
(* sectors than its register, and no block is moved that is not there.         *)
THEOREM DevTypeCorrect == Spec => []TypeOK
<1>1. IInv => TypeOK
  BY DEF IInv
<1> QED BY <1>1, DevInvHolds, PTL

(* readyforcmd (bdhdd.c:187, bdh8b16.c:202): a command is sent only to the     *)
(* drive of the call, with its BSY, DRQ and ERR clear, and never while the     *)
(* other drive is in the middle of one, however the calls before it ended and  *)
(* for whichever of the two drives they were.  The drive is asked for DRQ and  *)
(* ERR only before it is selected; what makes that enough is the part of IInv  *)
(* about the drive that is not selected (Aside): it has always been left at    *)
(* rest, or busy after a reset, which the test of BSY finds.                   *)
THEOREM AlwaysSendsToIdle == Spec => []SendsToIdle
<1>1. IInv => SendsToIdle
  BY DEF IInv
<1> QED BY <1>1, DevInvHolds, PTL

\* The sectors a step may change, and what to.
Confined ==
  \A d \in Devs, s \in Sectors :
    media'[d][s] # media[d][s] =>
      \/ mixed \/ Wrapped
      \/ /\ req.op = "put" /\ d = req.dev /\ s \in req.sec .. req.sec + req.count - 1
         /\ media'[d][s] = <<calls, s - req.sec>>

\* A write of part of the buffer to its place.
LEMMA StoredConfined ==
  ASSUME TypeOK, IsFile => req.dev = 0, ~IsFile => ata.sel = req.dev, req.op = "put",
         NEW from \in Nat, NEW n \in Nat, NEW first \in Nat,
         from + n <= 2 * LowSecs, first + n <= 2 * LowSecs, first + n <= req.count,
         ~mixed /\ ~Wrapped => from = req.sec + first,
         media' = Stored(media, from, n, first)
  PROVE  Confined
<1> SUFFICES ASSUME NEW d \in Devs, NEW s \in Sectors, media'[d][s] # media[d][s], ~mixed, ~Wrapped
             PROVE  /\ d = req.dev /\ s \in req.sec .. req.sec + req.count - 1
                    /\ media'[d][s] = <<calls, s - req.sec>>
  BY DEF Confined
<1>1. media'[d][s] = IF d = req.dev /\ s \in from .. from + n - 1 THEN <<calls, first + s - from>>
                     ELSE media[d][s]
  BY StoredFacts
<1>2. d = req.dev /\ s \in from .. from + n - 1 /\ media'[d][s] = <<calls, first + s - from>>
  BY <1>1
<1>3. from = req.sec + first /\ req.sec \in Nat /\ req.count \in Nat /\ s \in Nat
  BY Constants DEF TypeOK, ReqType, Sectors
<1>4. first + s - from = s - req.sec /\ s \in req.sec .. req.sec + req.count - 1
  BY <1>2, <1>3
<1> QED BY <1>2, <1>4

LEMMA ConfinedStep == IInv /\ [Next]_vars => Confined
<1> SUFFICES ASSUME IInv, [Next]_vars PROVE Confined
  OBVIOUS
<1>1. TypeOK /\ (IsFile => req.dev = 0)
  BY DEF IInv, CallPlace
<1>2. CASE media' = media
  BY <1>2 DEF Confined
<1>3. CASE PutBlock
  <2> DEFINE n == Lesser(Block, Cur - at.iSec)
             first == at.sec - req.sec + at.iSec
  <2>1. /\ req.op = "put" /\ n \in Nat /\ first \in Nat /\ ata.lba \in Nat /\ ata.sel = req.dev
        /\ ata.lba + n <= 2 * LowSecs /\ first + n <= req.count /\ first + n <= 2 * LowSecs
        /\ ~mixed => ata.lba = req.sec + first
        /\ \E k \in 0 .. n : media' = Stored(media, ata.lba, k, first)
    BY <1>3, PutPlace
  <2> HIDE DEF n, first
  <2>2. PICK k \in 0 .. n : media' = Stored(media, ata.lba, k, first)
    BY <2>1
  <2>3. /\ k \in Nat /\ ata.lba + k <= 2 * LowSecs /\ first + k <= req.count
        /\ first + k <= 2 * LowSecs
    <3>1. req.count \in Nat
      BY <1>1 DEF TypeOK, ReqType
    <3> QED BY <2>1, <3>1, Constants
  <2> QED BY <1>1, <2>1, <2>2, <2>3, StoredConfined
<1>4. CASE WriteSome
  <2> DEFINE first == req.count - at.count
  <2>1. PICK n \in Nat :
          /\ IsFile /\ req.op = "put" /\ first \in Nat /\ at.sec \in Nat
          /\ at.sec + n <= 2 * LowSecs /\ first + n <= req.count /\ first + n <= 2 * LowSecs
          /\ ~Wrapped => at.sec = req.sec + first
          /\ media' = Stored(media, at.sec, n, first)
    BY <1>4, WritePlace
  <2> HIDE DEF first
  <2> QED BY <1>1, <2>1, StoredConfined
<1>5. CASE Ask
  BY <1>2, <1>5 DEF Ask, Get, Put, Transfer, InitDev, ResetDev, Cleanup
<1>6. CASE Ready \/ ReadyByReset \/ StillNotOk \/ SuddenlyBusy \/ Send \/ RepOnError \/ StatusBad
  BY <1>2, <1>6 DEF Ready, ReadyByReset, StillNotOk, SuddenlyBusy, Send, RepOnError, StatusBad
<1>7. CASE GetBlock \/ Identified \/ MultipleSet \/ Open \/ Seek \/ ReadSome \/ MoveFails
  BY <1>2, <1>7 DEF GetBlock, Identified, MultipleSet, Open, Seek, ReadSome, MoveFails
<1>8. CASE ReadNothing \/ UNCHANGED vars
  BY <1>2, <1>8 DEF ReadNothing, vars
<1> QED BY <1>3, <1>4, <1>5, <1>6, <1>7, <1>8 DEF Next, Continue

(* Whatever the drives answer and however often a command is sent again, a put *)
(* changes no sector but those asked for, of the device asked for, each to its *)
(* own part of the buffer, and nothing but a put changes any (bdhdd.c:572,     *)
(* bdh8b16.c:602, bdfile.c:86); unless the address register is stale or the    *)
(* offset has wrapped.                                                         *)
THEOREM PutAlwaysConfined == Spec => PutConfined
<1>1. IInv /\ [Next]_vars =>
        [\A d \in Devs, s \in Sectors :
           media'[d][s] # media[d][s] =>
             \/ mixed \/ Wrapped
             \/ /\ req.op = "put" /\ d = req.dev /\ s \in req.sec .. req.sec + req.count - 1
                /\ media'[d][s] = <<calls, s - req.sec>>]_vars
  BY ConfinedStep DEF Confined
<1> QED BY <1>1, DevInvHolds, PTL DEF Spec, PutConfined

-----------------------------------------------------------------------------
(* What a get delivers                                                     *)

\* Two adjoining runs of sectors make one.
LEMMA RunFacts ==
  ASSUME NEW f \in [Sectors -> Content], NEW s \in Nat, NEW k \in Nat, NEW n \in Nat,
         s + k + n <= 2 * LowSecs
  PROVE  [i \in 1 .. k |-> f[s + i - 1]] \o [i \in 1 .. n |-> f[s + k + i - 1]]
           = [i \in 1 .. k + n |-> f[s + i - 1]]
<1> DEFINE p == [i \in 1 .. k |-> f[s + i - 1]]
           q == [i \in 1 .. n |-> f[s + k + i - 1]]
           r == [i \in 1 .. k + n |-> f[s + i - 1]]
<1>1. ASSUME NEW i \in 1 .. k + n PROVE f[s + i - 1] \in Content
  <2>1. s + i - 1 \in Sectors
    BY Constants DEF Sectors
  <2> QED BY <2>1
<1>2. p \in Seq(Content) /\ Len(p) = k /\ r \in Seq(Content) /\ Len(r) = k + n
  BY <1>1
<1>3. q \in Seq(Content) /\ Len(q) = n
  <2>1. ASSUME NEW i \in 1 .. n PROVE f[s + k + i - 1] \in Content
    <3>1. s + k + i - 1 \in Sectors
      BY Constants DEF Sectors
    <3> QED BY <3>1
  <2> QED BY <2>1
<1>4. p \o q \in Seq(Content) /\ Len(p \o q) = k + n
  <2> HIDE DEF p, q
  <2> QED BY <1>2, <1>3
<1>5. ASSUME NEW i \in 1 .. k + n PROVE (p \o q)[i] = r[i]
  <2>1. CASE i <= k
    <3>1. (p \o q)[i] = p[i]
      <4> HIDE DEF p, q
      <4> QED BY <1>2, <1>3, <2>1
    <3>2. i \in 1 .. k
      BY <2>1
    <3> QED BY <3>1, <3>2
  <2>2. CASE i > k
    <3>1. (p \o q)[i] = q[i - k]
      <4> HIDE DEF p, q
      <4> QED BY <1>2, <1>3, <2>2
    <3>2. i - k \in 1 .. n /\ s + k + (i - k) - 1 = s + i - 1
      BY <2>2
    <3> QED BY <3>1, <3>2
  <2> QED BY <2>1, <2>2
<1>6. p \o q = r
  <2> HIDE DEF p, q, r
  <2> QED BY <1>2, <1>4, <1>5
<1> QED BY <1>6

\* The buffer holds the first k sectors that were asked for.
Filled(k) == buf = [i \in 1 .. k |-> media[req.dev][req.sec + i - 1]]

LEMMA FilledMore ==
  ASSUME TypeOK, NEW k, k \in Nat, NEW n, n \in Nat, NEW from, from = req.sec + k, Filled(k),
         req.sec + k + n <= 2 * LowSecs,
         buf' = buf \o [i \in 1 .. n |-> media[req.dev][from + i - 1]]
  PROVE  buf' = [i \in 1 .. k + n |-> media[req.dev][req.sec + i - 1]]
<1>1. media[req.dev] \in [Sectors -> Content] /\ req.sec \in Nat
  BY DEF TypeOK, ReqType
<1> DEFINE f == media[req.dev]
           s == req.sec
<1>2. buf = [i \in 1 .. k |-> f[s + i - 1]]
  BY DEF Filled
<1>3. buf' = buf \o [i \in 1 .. n |-> f[s + k + i - 1]]
  OBVIOUS
<1>4. f \in [Sectors -> Content] /\ s \in Nat /\ s + k + n <= 2 * LowSecs
  BY <1>1
<1> HIDE DEF f, s
<1>5. buf' = [i \in 1 .. k + n |-> f[s + i - 1]]
  BY <1>2, <1>3, <1>4, RunFacts, ZenonT(60)
<1> QED BY <1>5 DEF f, s

\* How far a get has come, and with it its buffer.
DInv ==
  /\ AtData /\ req.op = "get" /\ ~mixed => Filled(at.sec + at.iSec - req.sec)
  /\ pc = "seek" => Filled(0)
  /\ pc = "move" /\ req.op = "get" /\ ~Wrapped => Filled(req.count - at.count)
  /\ pc = "open" => req.op = "init"
  /\ GetDelivers

LEMMA InitDelivers == Init => DInv
  BY DEF Init, DInv, AtData, AtDrive, GetDelivers

\* A step within a call that moves nothing, and one of a call that is no get.
LEMMA KeepDelivers ==
  ASSUME DInv, AtDrive, buf' = buf, media' = media, req' = req, ~mixed' => ~mixed,
         \/ pc' = "idle" /\ ret' = "fail"
         \/ /\ AtDrive' /\ ret' = "none"
            /\ at'.sec = at.sec /\ at'.iSec = at.iSec /\ at'.stage = at.stage
  PROVE  DInv'
  BY DEF DInv, AtDrive, AtData, Filled, GetDelivers
LEMMA NoGetDelivers ==
  ASSUME req'.op # "get", pc' # "seek", pc' = "open" => req'.op = "init"
  PROVE  DInv'
  BY DEF DInv, GetDelivers

LEMMA DriveDelivers ==
  ASSUME IInv, DInv,
         Ready \/ ReadyByReset \/ StillNotOk \/ SuddenlyBusy \/ Send \/ RepOnError \/ StatusBad
  PROVE  DInv'
<1>1. AtDrive /\ buf' = buf /\ media' = media /\ req' = req
  BY DEF Ready, ReadyByReset, StillNotOk, SuddenlyBusy, Send, RepOnError, StatusBad, AtDrive
<1>2. ~mixed' => ~mixed
  BY DEF Ready, ReadyByReset, StillNotOk, SuddenlyBusy, Send, RepOnError, StatusBad, Select
<1>3. ret = "none" /\ at \in AtType
  BY <1>1 DEF AtDrive, IInv, CallPlace, TypeOK
<1>4. CASE StillNotOk \/ SuddenlyBusy \/ StatusBad
  BY <1>1, <1>2, <1>4, KeepDelivers DEF StillNotOk, SuddenlyBusy, StatusBad, Return
<1>5. CASE Ready \/ ReadyByReset
  <2>1. \/ pc' = "idle" /\ ret' = "fail"
        \/ pc' = "send" /\ ret' = ret /\ at' = at
    BY <1>5 DEF Ready, ReadyByReset, Proceed, Goto, Return
  <2> QED BY <1>1, <1>2, <1>3, <2>1, KeepDelivers DEF AtDrive
<1>7. CASE Send
  BY <1>1, <1>2, <1>3, <1>7, KeepDelivers DEF Send, Goto, AtDrive
<1>6. CASE RepOnError
  <2>1. at' = [at EXCEPT !.rep = @ + 1] /\ pc' = "ready" /\ ret' = ret
    BY <1>6 DEF RepOnError, Goto
  <2>2. at'.sec = at.sec /\ at'.iSec = at.iSec /\ at'.stage = at.stage
    BY <1>3, <2>1 DEF AtType
  <2> QED BY <1>1, <1>2, <1>3, <2>1, <2>2, KeepDelivers DEF AtDrive
<1> QED BY <1>4, <1>5, <1>6, <1>7

LEMMA GetBlockDelivers == ASSUME IInv, DInv, GetBlock PROVE DInv'
<1> DEFINE n == Lesser(Block, Cur - at.iSec)
           k == at.sec + at.iSec - req.sec
<1>1. /\ pc = "status" /\ req.op = "get" /\ StatusOk(Comes(ata))
      /\ buf' = buf \o Words(n) /\ Advance(Cur)
      /\ media' = media /\ req' = req /\ mixed' = mixed
  BY DEF GetBlock, Cur
<1>2. at.stage = "data" /\ AtData /\ AtDrive /\ ret = "none"
  BY <1>1 DEF IInv, CallPlace, AtData, AtDrive
<1>3. /\ n \in Nat /\ n <= ata.left /\ ata.left = Cur - at.iSec /\ Status(ata) = "work"
      /\ ata.sel = req.dev /\ Block \in Nat /\ Cur \in 1 .. SecCntMax
  BY <1>1, <1>2, BlockFacts
<1>4. /\ at \in AtType /\ at.iSec \in Nat /\ at.sec \in Nat /\ at.count \in Nat
      /\ req.sec \in Nat /\ req.count \in Nat
  BY DEF IInv, TypeOK, AtType, ReqType
<1>5. /\ req.sec <= at.sec /\ at.sec + at.count = req.sec + req.count /\ Cur <= at.count
      /\ at.iSec < Cur /\ req.sec + req.count <= 2 * LowSecs
  BY <1>1, <1>2 DEF IInv, Progress, CallPlace
<1>6. k \in Nat /\ Cur \in Nat /\ req.sec + k = at.sec + at.iSec
  BY <1>3, <1>4, <1>5, Constants
<1>7. req.sec + k + n <= 2 * LowSecs
  <2> HIDE DEF n, k
  <2> QED BY <1>3, <1>4, <1>5, <1>6, Constants
<1>8. ASSUME ~mixed PROVE buf' = [i \in 1 .. k + n |-> media[req.dev][req.sec + i - 1]]
  <2>1. ata.lba = req.sec + k
    BY <1>1, <1>2, <1>3, <1>6, <1>8 DEF IInv, Command
  <2>2. Filled(k)
    BY <1>1, <1>2, <1>8 DEF DInv
  <2>3. buf' = buf \o [i \in 1 .. n |-> media[req.dev][ata.lba + i - 1]]
    BY <1>1, <1>3 DEF Words
  <2>4. TypeOK
    BY DEF IInv
  <2> HIDE DEF n, k
  <2> QED BY <1>3, <1>6, <1>7, <2>1, <2>2, <2>3, <2>4, FilledMore
<1>9. CASE at.iSec + Block < Cur
  <2>1. at' = [at EXCEPT !.cur = Cur, !.iSec = @ + Block] /\ pc' = "status" /\ ret' = ret
    BY <1>1, <1>9 DEF Advance, Goto
  <2>2. at'.sec = at.sec /\ at'.iSec = at.iSec + Block
    BY <1>4, <2>1 DEF AtType
  <2>3. n = Block
    BY <1>3, <1>4, <1>6, <1>9 DEF Lesser
  <2>4. at'.sec + at'.iSec - req.sec = k + n
    BY <1>3, <1>4, <2>2, <2>3
  <2> HIDE DEF n, k
  <2> QED BY <1>1, <1>2, <1>8, <2>1, <2>4 DEF DInv, Filled, GetDelivers
<1>10. CASE ~(at.iSec + Block < Cur)
  <2>1. n = Cur - at.iSec /\ k + n = at.sec + Cur - req.sec
    <3>1. n = Cur - at.iSec
      BY <1>3, <1>4, <1>6, <1>10 DEF Lesser
    <3> HIDE DEF n
    <3> QED BY <1>4, <1>6, <3>1
  <2>2. CASE at.count > Cur
    <3>1. pc' = "ready" /\ ret' = ret
      BY <1>1, <1>2, <1>10, <2>2, AdvanceFacts
    <3>2. at'.sec = at.sec + Cur /\ at'.iSec = 0
      BY <1>1, <1>2, <1>10, <2>2, AdvanceFacts
    <3>3. at'.sec + at'.iSec - req.sec = k + n
      BY <1>4, <1>6, <2>1, <3>2
    <3> HIDE DEF n, k
    <3> QED BY <1>1, <1>2, <1>8, <3>1, <3>3 DEF DInv, Filled, GetDelivers
  <2>3. CASE ~(at.count > Cur)
    <3>1. pc' = "idle" /\ ret' = "ok"
      BY <1>1, <1>2, <1>10, <2>3, AdvanceFacts
    <3>2. at.count = Cur
      BY <1>4, <1>5, <1>6, <2>3
    <3> HIDE DEF n, k
    <3>3. k + n = req.count
      BY <1>4, <1>5, <2>1, <3>2
    <3> QED BY <1>1, <1>8, <3>1, <3>3 DEF DInv, AtData, AtDrive, GetDelivers
  <2> QED BY <2>2, <2>3
<1> QED BY <1>9, <1>10

LEMMA ReadSomeDelivers == ASSUME IInv, DInv, ReadSome PROVE DInv'
<1>1. /\ FileFrame /\ pc = "move" /\ req.op = "get" /\ media' = media
      /\ at.sec < len \/ at.count = 0
  BY DEF ReadSome, FileFrame, env
<1>2. PICK n \in Some(Lesser(at.count, len - at.sec)) :
         /\ buf' = buf \o [i \in 1 .. n |-> media[0][at.sec + i - 1]]
         /\ MoveOn(n)
  BY DEF ReadSome
<1>3. /\ IsFile /\ req.dev = 0 /\ ret = "none" /\ at \in AtType
      /\ at.sec \in Nat /\ at.count \in Nat /\ len \in Nat
      /\ req.sec \in Nat /\ req.count \in Nat
      /\ at.count <= req.count /\ req.sec + req.count <= 2 * LowSecs
      /\ ~Wrapped => at.sec + at.count = req.sec + req.count
  BY <1>1 DEF IInv, CallPlace, FileProgress, TypeOK, AtType, ReqType
<1>4. n \in Nat /\ n <= at.count
  BY <1>1, <1>2, <1>3 DEF Some, Lesser
<1> DEFINE k == req.count - at.count
<1>5. k \in Nat /\ req.sec + k + n <= 2 * LowSecs /\ (~Wrapped => at.sec = req.sec + k)
  <2>1. k \in Nat /\ k + n <= req.count
    BY <1>3, <1>4
  <2>2. req.sec + k + n <= 2 * LowSecs
    <3> HIDE DEF k
    <3> QED BY <1>3, <1>4, <2>1, Constants
  <2>3. ~Wrapped => at.sec = req.sec + k
    BY <1>3
  <2> QED BY <2>1, <2>2, <2>3
<1>6. Wrapped' = Wrapped
  BY <1>1 DEF FileFrame, Wrapped, Offset
<1>7. ASSUME ~Wrapped PROVE buf' = [i \in 1 .. k + n |-> media[req.dev][req.sec + i - 1]]
  <2>1. Filled(k)
    BY <1>1, <1>7 DEF DInv
  <2>2. TypeOK
    BY DEF IInv
  <2>3. buf' = buf \o [i \in 1 .. n |-> media[req.dev][at.sec + i - 1]]
    BY <1>2, <1>3
  <2> HIDE DEF k
  <2> QED BY <1>4, <1>5, <1>7, <2>1, <2>2, <2>3, FilledMore
<1>8. CASE n = at.count
  <2>1. pc' = "idle" /\ ret' = "ok"
    BY <1>2, <1>8 DEF MoveOn, Return
  <2>2. k + n = req.count
    BY <1>3, <1>8
  <2> HIDE DEF k
  <2> QED BY <1>1, <1>6, <1>7, <2>1, <2>2 DEF DInv, AtData, AtDrive, GetDelivers, FileFrame
<1>9. CASE n # at.count
  <2>1. at' = [at EXCEPT !.sec = @ + n, !.count = @ - n] /\ pc' = "move" /\ ret' = ret
    BY <1>2, <1>9 DEF MoveOn, Goto
  <2>2. at'.count = at.count - n
    BY <1>3, <2>1 DEF AtType
  <2>3. req.count - at'.count = k + n
    BY <1>3, <1>4, <2>2
  <2> HIDE DEF k
  <2> QED BY <1>1, <1>3, <1>6, <1>7, <2>1, <2>3
          DEF DInv, AtData, AtDrive, Filled, GetDelivers, FileFrame
<1> QED BY <1>8, <1>9

LEMMA TransferDelivers ==
  ASSUME IInv, NEW op, op \in {"get", "put"}, Transfer(op) PROVE DInv'
<1>1. PICK dev \in Devs, a \in Asked :
        /\ Call(op, dev, a[1], a[2], FALSE)
        /\ LET start == [NoAt EXCEPT !.sec = a[1], !.count = a[2]]
           IN \/ Enter("seek", start) \/ Return("fail") \/ (Return("ok") /\ a[2] = 0)
              \/ Enter("ready", Pass(dev, a[1], a[2], Passes(dev, a[2])))
  BY DEF Transfer
<1>2. a[1] \in Nat /\ a[2] \in Nat
  BY ConstAssumption
<1>3. buf' = <<>> /\ req'.sec = a[1] /\ req'.count = a[2]
  BY <1>1 DEF Call
<1>5. Filled(0)'
  <2>1. buf' = [i \in 1 .. 0 |-> media'[req'.dev][req'.sec + i - 1]]
    BY <1>3
  <2> QED BY <2>1 DEF Filled
<1> DEFINE start == [NoAt EXCEPT !.sec = a[1], !.count = a[2]]
<1>6. CASE Enter("seek", start)
  BY <1>5, <1>6 DEF Enter, DInv, AtData, AtDrive, GetDelivers
<1>7. CASE Enter("ready", Pass(dev, a[1], a[2], Passes(dev, a[2])))
  <2>1. pc' = "ready" /\ ret' = "none" /\ at' = Pass(dev, a[1], a[2], Passes(dev, a[2]))
    BY <1>7 DEF Enter
  <2>2. at'.sec = a[1] /\ at'.iSec = 0
    BY <2>1 DEF Pass, NoAt
  <2>3. at'.sec + at'.iSec - req'.sec = 0
    BY <1>2, <1>3, <2>2
  <2> QED BY <1>5, <2>1, <2>3 DEF DInv, GetDelivers
<1>8. CASE Return("fail")
  BY <1>8 DEF Return, DInv, AtData, AtDrive, GetDelivers
<1>9. CASE Return("ok") /\ a[2] = 0
  BY <1>3, <1>5, <1>9 DEF Return, DInv, AtData, AtDrive, Filled, GetDelivers
<1> QED BY <1>1, <1>6, <1>7, <1>8, <1>9

LEMMA StepDelivers == IInv /\ DInv /\ [Next]_vars => DInv'
<1> SUFFICES ASSUME IInv, DInv, [Next]_vars PROVE DInv'
  OBVIOUS
<1>1. CASE Get \/ Put
  BY <1>1, TransferDelivers DEF Get, Put
<1>2. CASE InitDev \/ ResetDev \/ Cleanup
  <2>1. req'.op \in {"init", "reset", "cleanup"} /\ pc' # "seek" /\ (pc' = "open" => req'.op = "init")
    BY <1>2 DEF InitDev, ResetDev, Cleanup, Call, Enter, Return
  <2> QED BY <2>1, NoGetDelivers
<1>3. CASE Ready \/ ReadyByReset \/ StillNotOk \/ SuddenlyBusy \/ Send \/ RepOnError \/ StatusBad
  BY <1>3, DriveDelivers
<1>4. CASE GetBlock
  BY <1>4, GetBlockDelivers
<1>5. CASE PutBlock \/ Identified \/ MultipleSet
  <2>1. req' = req /\ pc = "status" /\ (req.op = "put" \/ at.stage # "data")
    BY <1>5 DEF PutBlock, Identified, MultipleSet
  <2>2. req'.op # "get"
    BY <2>1 DEF IInv, CallPlace, AtDrive
  <2>3. pc' # "seek" /\ pc' # "open"
    BY <1>5 DEF PutBlock, Identified, MultipleSet, Advance, Goto, Return
  <2> QED BY <2>2, <2>3, NoGetDelivers
<1>6. CASE Open \/ WriteSome
  <2>1. req' = req /\ req'.op # "get"
    BY <1>6 DEF Open, WriteSome, DInv
  <2>2. pc' # "seek" /\ pc' # "open"
    BY <1>6 DEF Open, WriteSome, MoveOn, Goto, Return
  <2> QED BY <2>1, <2>2, NoGetDelivers
<1>7. CASE Seek
  <2>1. /\ pc = "seek" /\ req' = req /\ buf' = buf /\ media' = media /\ ret # "ok"
        /\ \/ pc' = "idle" /\ ret' = "fail"
           \/ pc' = "move" /\ ret' = ret /\ at' = [at EXCEPT !.sec = Offset(@)]
    BY <1>7 DEF Seek, Return, Goto, IInv, CallPlace
  <2>2. at \in AtType /\ at.count = req.count /\ req.count \in Nat /\ Filled(0)
    BY <2>1 DEF IInv, TypeOK, ReqType, FileProgress, DInv
  <2>3. pc' = "move" => req'.count - at'.count = 0
    BY <2>1, <2>2 DEF AtType
  <2> QED BY <2>1, <2>2, <2>3 DEF DInv, AtData, AtDrive, Filled, GetDelivers
<1>8. CASE ReadSome
  BY <1>8, ReadSomeDelivers
<1>9. CASE MoveFails
  BY <1>9 DEF MoveFails, Return, DInv, AtData, AtDrive, GetDelivers
<1>10. CASE ReadNothing \/ UNCHANGED vars
  BY <1>10 DEF ReadNothing, vars, env, DInv, AtData, AtDrive, Filled, GetDelivers, Wrapped, Offset
<1> QED BY <1>1, <1>2, <1>3, <1>4, <1>5, <1>6, <1>7, <1>8, <1>9, <1>10 DEF Next, Ask, Continue

(* A get that reports success has filled its buffer with the sectors that were *)
(* asked for, in their order: however the transfer is cut into commands and    *)
(* blocks, whatever is asked for again after a bad status (bdhdd.c:471,        *)
(* bdh8b16.c:492) and however little a read of the file returns                *)
(* (bdfile.c:40); unless the address register is stale or the offset has       *)
(* wrapped.                                                                    *)
THEOREM GetAlwaysDelivers == Spec => []GetDelivers
<1>1. DInv => GetDelivers
  BY DEF DInv
<1> QED BY <1>1, InitInv, StepInv, InitDelivers, StepDelivers, PTL DEF Spec

-----------------------------------------------------------------------------
(* What the result of a call says                                          *)

\* The drive has lost the multiple mode in a reset.
Lost == kind = "bdh8b16" /\ drive.reverts /\ ~ata.set[req.dev]

\* A device in use has a block size, and its multiple mode unless a reset ends it.
DevKnown ==
  /\ kind = "bdh8b16" =>
       \A d \in Devs : bd[d].up => bd[d].multi > 0 /\ (ata.set[d] \/ drive.reverts)
  /\ AtData => bd[req.dev].up
  /\ AtDrive /\ at.stage = "setmultiple" =>
       kind = "bdh8b16" /\ drive.multi > 0 /\ (pc = "status" => ata.set[req.dev])

\* Only a reset ends the multiple mode of a drive.
SetsKept == \A d \in Devs : ata.set[d] => ata'.set[d] \/ drive.reverts

LEMMA EnvKept == [Next]_vars => kind' = kind /\ drive' = drive
<1> SUFFICES ASSUME [Next]_vars PROVE UNCHANGED env
  BY DEF env
<1>1. CASE Get \/ Put \/ InitDev \/ ResetDev \/ Cleanup
  BY <1>1 DEF Get, Put, Transfer, InitDev, ResetDev, Cleanup, Call
<1>2. CASE Ready \/ ReadyByReset \/ StillNotOk \/ SuddenlyBusy \/ Send \/ RepOnError \/ StatusBad
  BY <1>2 DEF Ready, ReadyByReset, StillNotOk, SuddenlyBusy, Send, RepOnError, StatusBad
<1>3. CASE GetBlock \/ PutBlock \/ Identified \/ MultipleSet
  BY <1>3 DEF GetBlock, PutBlock, Identified, MultipleSet
<1>4. CASE Open \/ Seek \/ ReadSome \/ WriteSome \/ MoveFails
  BY <1>4 DEF Open, Seek, ReadSome, WriteSome, MoveFails
<1>5. CASE ReadNothing \/ UNCHANGED vars
  BY <1>5 DEF ReadNothing, vars, env
<1> QED BY <1>1, <1>2, <1>3, <1>4, <1>5 DEF Next, Ask, Continue

LEMMA SetFacts ==
  ASSUME NEW a, a \in AtaType
  PROVE  /\ \A d, u : DevLba(a, d, u).set = a.set
         /\ \A st : [a EXCEPT !.st = st].set = a.set
<1>1. \A d, u : DevLba(a, d, u).set = a.set
  BY DEF DevLba, AtaType
<1> QED BY <1>1 DEF AtaType
LEMMA MovedSets ==
  ASSUME NEW a, a \in AtaType, NEW n
  PROVE  /\ Moved(a, n).set = a.set /\ Shows(Moved(a, n), "err").set = a.set
         /\ Status(Moved(a, n)) = IF a.op # "put" /\ a.left = n THEN "idle" ELSE "work"
<1>1. PICK x : x = IF a.op # "put" /\ a.left = n THEN "idle" ELSE "work"
  OBVIOUS
<1>2. PICK st, err : st = [a.st EXCEPT ![a.sel] = x] /\ err = [st EXCEPT ![a.sel] = "err"]
  OBVIOUS
<1>3. Moved(a, n) = [a EXCEPT !.lba = a.lba + n, !.left = a.left - n, !.st = st]
  BY <1>1, <1>2 DEF Moved, AtaType
<1>4. Moved(a, n).set = a.set /\ Moved(a, n).st = st /\ Moved(a, n).sel = a.sel
  BY <1>3 DEF AtaType
<1>5. Shows(Moved(a, n), "err") = [Moved(a, n) EXCEPT !.st = err]
  BY <1>2, <1>4 DEF Shows
<1>6. [Moved(a, n) EXCEPT !.st = err].set = Moved(a, n).set
  BY <1>3 DEF AtaType
<1>7. st[a.sel] = x
  BY <1>2, StatusFacts
<1> QED BY <1>1, <1>4, <1>5, <1>6, <1>7 DEF Status
LEMMA ResetSets ==
  ASSUME NEW a, a \in AtaType, NEW busy, NEW d \in Devs, a.set[d]
  PROVE  AfterReset(a, busy).set[d] \/ drive.reverts
<1>1. PICK st : st = [e \in Devs |-> IF e \in busy THEN "hung" ELSE "idle"]
  OBVIOUS
<1>2. AfterReset(a, busy).set = [e \in Devs |-> a.set[e] /\ ~drive.reverts]
  BY <1>1 DEF AfterReset, AtaType
<1> QED BY <1>2

LEMMA TakesSets ==
  ASSUME NEW a, a \in AtaType, NEW op, NEW lba, NEW left
  PROVE  /\ \A d \in Devs : a.set[d] => Takes(a, op, lba, left).set[d]
         /\ op = "setmultiple" => Takes(a, op, lba, left).set[a.sel]
         /\ op # "setmultiple" /\ a.set \in [Devs -> BOOLEAN] => Takes(a, op, lba, left).set = a.set
<1>1. a.set \in [Devs -> BOOLEAN] /\ a.sel \in Devs
  BY DEF AtaType
<1> DEFINE s == [a.set EXCEPT ![a.sel] = a.set[a.sel] \/ op = "setmultiple"]
<1>2. Takes(a, op, lba, left).set = s
  BY DEF Takes, AtaType
<1>3. /\ \A d \in Devs : a.set[d] => s[d]
      /\ op = "setmultiple" => s[a.sel]
      /\ op # "setmultiple" => s = a.set
  BY <1>1
<1> HIDE DEF s
<1> QED BY <1>2, <1>3

\* A command is taken unless it is refused.
LEMMA TakesStatus ==
  ASSUME NEW a, a \in AtaType, NEW op, NEW lba, NEW left
  PROVE  Status(Takes(a, op, lba, left)) =
           IF \/ kind = "bdh8b16" /\ op \in {"get", "put"} /\ ~a.set[a.sel]
              \/ lba + left > 2 * LowSecs
           THEN "err" ELSE "work"
<1>1. PICK x : x = IF \/ kind = "bdh8b16" /\ op \in {"get", "put"} /\ ~a.set[a.sel]
                      \/ lba + left > 2 * LowSecs
                   THEN "err" ELSE "work"
  OBVIOUS
<1>2. PICK st, set : /\ st = [a.st EXCEPT ![a.sel] = x]
                     /\ set = [a.set EXCEPT ![a.sel] = a.set[a.sel] \/ op = "setmultiple"]
  OBVIOUS
<1>3. Takes(a, op, lba, left)
        = [a EXCEPT !.op = op, !.lba = lba, !.left = left, !.st = st, !.set = set]
  BY <1>1, <1>2 DEF Takes, AtaType
<1>4. Takes(a, op, lba, left).st = st /\ Takes(a, op, lba, left).sel = a.sel
  BY <1>3 DEF AtaType
<1>5. st[a.sel] = x
  BY <1>2, StatusFacts
<1> QED BY <1>1, <1>4, <1>5 DEF Status

LEMMA StepSets == IInv /\ [Next]_vars => SetsKept
<1> SUFFICES ASSUME IInv, [Next]_vars PROVE SetsKept
  OBVIOUS
<1>1. ata \in AtaType /\ Working
  BY DEF IInv, TypeOK
<1>2. CASE ata' = ata
  BY <1>2 DEF SetsKept
<1>3. CASE \E b \in Seen : ata' = b
  BY <1>1, <1>3, SeenFacts DEF SetsKept
<1>4. CASE Ready
  <2>1. PICK b \in Seen : ata' = DevLba(b, req.dev, Upper)
    BY <1>4 DEF Ready, Select
  <2> QED BY <1>1, <2>1, SeenFacts, SetFacts DEF SetsKept
<1>5. CASE ReadyByReset
  <2>1. PICK b \in Seen, busy \in SUBSET Devs : ata' = DevLba(AfterReset(b, busy), req.dev, Upper)
    BY <1>5 DEF ReadyByReset, Select, Devs
  <2>2. b \in AtaType /\ b.set = ata.set
    BY <1>1, <2>1, SeenFacts
  <2>3. PICK a : a = AfterReset(b, busy)
    OBVIOUS
  <2>4. a \in AtaType
    BY <2>2, <2>3, ResetFacts
  <2>5. ata'.set = a.set
    BY <2>1, <2>3, <2>4, SetFacts
  <2> QED BY <2>2, <2>3, <2>5, ResetSets DEF SetsKept
<1>6. CASE \E busy : ata' = AfterReset(ata, busy)
  BY <1>1, <1>6, ResetSets DEF SetsKept
<1>8. CASE SuddenlyBusy
  <2>1. Comes(ata) \in AtaType /\ Comes(ata).set = ata.set
    BY <1>1, ComesFacts, SeenFacts
  <2>2. PICK a : a = [Comes(ata) EXCEPT !.st[req.dev] = "hung"] /\ ata' = DevLba(a, req.dev, Upper)
    BY <1>8 DEF SuddenlyBusy, Select
  <2>3. req.dev \in Devs
    BY DEF IInv, TypeOK, ReqType
  <2>4. PICK st : st = [Comes(ata).st EXCEPT ![req.dev] = "hung"]
    OBVIOUS
  <2>5. st \in [Devs -> States] /\ a = [Comes(ata) EXCEPT !.st = st]
    BY <2>1, <2>2, <2>3, <2>4, StatusFacts DEF States
  <2>6. a \in AtaType /\ a.set = ata.set
    BY <2>1, <2>5 DEF AtaType, States
  <2>7. DevLba(a, req.dev, Upper).set = a.set
    BY <2>6, SetFacts
  <2> QED BY <2>2, <2>6, <2>7 DEF SetsKept
<1>9. CASE Send
  <2>1. \E op, lba, left : ata' = Takes(ata, op, lba, left)
    BY <1>9 DEF Send
  <2> QED BY <1>1, <2>1, TakesSets DEF SetsKept
<1>10. CASE \E n : ata' = Moved(Comes(ata), n) \/ ata' = Shows(Moved(Comes(ata), n), "err")
  <2>1. Comes(ata) \in AtaType /\ Comes(ata).set = ata.set
    BY <1>1, ComesFacts, SeenFacts
  <2>2. PICK n : ata' = Moved(Comes(ata), n) \/ ata' = Shows(Moved(Comes(ata), n), "err")
    BY <1>10
  <2>4. ata'.set = Comes(ata).set
    BY <2>1, <2>2, MovedSets
  <2> QED BY <2>1, <2>4 DEF SetsKept
<1>11. CASE Get \/ Put \/ InitDev \/ ResetDev \/ Cleanup
  <2>1. ata' = ata \/ Reset
    BY <1>11 DEF Get, Put, Transfer, InitDev, ResetDev, Cleanup
  <2> QED BY <1>2, <1>6, <2>1 DEF Reset
<1>12. CASE StillNotOk
  BY <1>6, <1>12 DEF StillNotOk
<1>13. CASE RepOnError \/ StatusBad
  BY <1>3, <1>13 DEF RepOnError, StatusBad
<1>14. CASE GetBlock
  BY <1>10, <1>14 DEF GetBlock
<1>15. CASE PutBlock
  BY <1>10, <1>15 DEF PutBlock
<1>16. CASE Identified
  BY <1>10, <1>16 DEF Identified
<1>17. CASE MultipleSet
  <2>1. Comes(ata) \in Seen
    BY <1>1, ComesFacts
  <2> QED BY <1>3, <1>17, <2>1 DEF MultipleSet
<1>18. CASE Open \/ Seek \/ ReadSome \/ ReadNothing \/ WriteSome \/ MoveFails \/ UNCHANGED vars
  BY <1>2, <1>18 DEF Open, Seek, ReadSome, ReadNothing, WriteSome, MoveFails, vars
<1> QED BY <1>4, <1>5, <1>8, <1>9, <1>11, <1>12, <1>13, <1>14, <1>15, <1>16, <1>17, <1>18
        DEF Next, Ask, Continue

LEMMA InitKnown == Init => DevKnown
  BY DEF Init, DevKnown, AtData, AtDrive

\* What an init leaves behind.
LEMMA UpKnown ==
  ASSUME IInv, Up, NEW d \in Devs
  PROVE  /\ d # req.dev => bd'[d] = bd[d]
         /\ d = req.dev => bd'[d].multi = drive.multi /\ bd'[d].up
  BY DEF IInv, TypeOK, Up

LEMMA StepKnown == IInv /\ DevKnown /\ [Next]_vars => DevKnown'
<1> SUFFICES ASSUME IInv, DevKnown, [Next]_vars PROVE DevKnown'
  OBVIOUS
<1>1. kind' = kind /\ drive' = drive /\ SetsKept
  BY EnvKept, StepSets
<1>2. /\ bd \in [Devs -> [up : BOOLEAN, single : BOOLEAN, multi : 0 .. SecCntMax]]
      /\ req \in ReqType /\ req.dev \in Devs /\ at \in AtType
  BY DEF IInv, TypeOK, ReqType
<1> DEFINE Modes == kind = "bdh8b16" =>
              \A d \in Devs : bd[d].up => bd[d].multi > 0 /\ (ata.set[d] \/ drive.reverts)
           Stages == AtDrive /\ at.stage = "setmultiple" =>
              kind = "bdh8b16" /\ drive.multi > 0 /\ (pc = "status" => ata.set[req.dev])
           InUse == AtData => bd[req.dev].up
<1>3. Modes /\ Stages /\ InUse
  BY DEF DevKnown
<1>4. ASSUME bd' = bd PROVE Modes'
  BY <1>1, <1>3, <1>4 DEF SetsKept
<1>5. ASSUME req' = req, bd' = bd, AtDrive, at'.stage = at.stage PROVE InUse'
  BY <1>3, <1>5 DEF AtData
<1>6. ASSUME req' = req, AtDrive, at'.stage = at.stage, pc' # "status" PROVE Stages'
  BY <1>1, <1>3, <1>6
<1>7. ASSUME ~AtDrive' PROVE InUse' /\ Stages'
  BY <1>7 DEF AtData
<1>8. CASE Get \/ Put
  <2>1. PICK op \in {"get", "put"} : Transfer(op)
    BY <1>8 DEF Get, Put
  <2>2. PICK dev \in Devs, a \in Asked :
          /\ Call(op, dev, a[1], a[2], FALSE) /\ bd[dev].up /\ bd' = bd
          /\ LET start == [NoAt EXCEPT !.sec = a[1], !.count = a[2]]
             IN \/ Enter("seek", start) \/ Return("fail") \/ Return("ok")
                \/ Enter("ready", Pass(dev, a[1], a[2], Passes(dev, a[2])))
    BY <2>1 DEF Transfer
  <2>3. InUse'
    BY <2>2 DEF Call
  <2>4. pc' \in {"seek", "idle"} \/ at'.stage = "data"
    BY <2>2 DEF Enter, Return, Pass, NoAt
  <2>5. Stages'
    BY <2>4 DEF AtDrive
  <2> QED BY <1>4, <2>2, <2>3, <2>5 DEF DevKnown
<1>9. CASE InitDev
  <2>1. bd' = bd /\ (pc' = "open" \/ (pc' = "ready" /\ at'.stage = "identify"))
    BY <1>9 DEF InitDev, Enter, NoAt
  <2> QED BY <1>4, <2>1 DEF DevKnown, AtDrive, AtData
<1>10. CASE ResetDev
  <2>1. bd' = bd /\ pc' = "idle"
    BY <1>10 DEF ResetDev, Return
  <2> QED BY <1>4, <1>7, <2>1 DEF DevKnown, AtDrive
<1>11. CASE Cleanup
  <2>1. PICK dev \in Devs : bd' = [bd EXCEPT ![dev].up = FALSE] /\ pc' = "idle"
    BY <1>11 DEF Cleanup, Return
  <2>2. \A d \in Devs : (bd'[d].up => bd[d].up) /\ bd'[d].multi = bd[d].multi
    BY <1>2, <2>1
  <2>3. Modes'
    BY <1>1, <1>3, <2>2 DEF SetsKept
  <2> QED BY <1>7, <2>1, <2>3 DEF DevKnown, AtDrive
<1>12. CASE Ready \/ ReadyByReset
  <2>1. /\ req' = req /\ bd' = bd /\ pc = "ready"
        /\ (at' = at /\ pc' = "send") \/ pc' = "idle"
    BY <1>12 DEF Ready, ReadyByReset, Proceed, Goto, Return
  <2> QED BY <1>4, <1>5, <1>6, <1>7, <2>1 DEF DevKnown, AtDrive
<1>13. CASE StillNotOk \/ SuddenlyBusy \/ StatusBad \/ Seek \/ MoveFails \/ ReadSome \/ WriteSome
  <2>1. bd' = bd /\ pc' \in {"idle", "move"}
    BY <1>13 DEF StillNotOk, SuddenlyBusy, StatusBad, Seek, MoveFails, ReadSome, WriteSome,
                 MoveOn, Goto, Return
  <2> QED BY <1>4, <1>7, <2>1 DEF DevKnown, AtDrive
<1>14. CASE Send
  <2>1. req' = req /\ bd' = bd /\ pc = "send" /\ at' = at /\ ata.sel = req.dev
    BY <1>14 DEF Send, IInv, SendsToIdle
  <2>2. ASSUME at.stage = "setmultiple" PROVE ata'.set[req.dev]
    <3>1. ata' = Takes(ata, "setmultiple", 0, 0)
      BY <1>14, <2>2 DEF Send
    <3>2. ata \in AtaType
      BY DEF IInv, TypeOK
    <3> QED BY <2>1, <3>1, <3>2, TakesSets
  <2>3. Stages'
    BY <1>1, <1>3, <2>1, <2>2 DEF AtDrive
  <2> QED BY <1>4, <1>5, <2>1, <2>3 DEF DevKnown, AtDrive
<1>15. CASE RepOnError
  <2>1. req' = req /\ bd' = bd /\ pc = "status" /\ at' = [at EXCEPT !.rep = @ + 1] /\ pc' = "ready"
    BY <1>15 DEF RepOnError, Goto
  <2>2. at'.stage = at.stage
    BY <1>2, <2>1 DEF AtType
  <2> QED BY <1>4, <1>5, <1>6, <2>1, <2>2 DEF DevKnown, AtDrive
<1>16. CASE GetBlock \/ PutBlock
  <2>1. /\ req' = req /\ bd' = bd /\ pc = "status" /\ at.stage = "data" /\ Advance(Cur)
    BY <1>16 DEF GetBlock, PutBlock, IInv, CallPlace, AtDrive, Cur
  <2>2. pc' = "idle" \/ at'.stage = "data"
    BY <1>2, <2>1 DEF Advance, Return, Goto, Pass, NoAt, AtType
  <2>3. Stages'
    BY <2>2 DEF AtDrive
  <2>4. InUse'
    BY <1>3, <2>1 DEF AtData, AtDrive
  <2> QED BY <1>4, <2>1, <2>3, <2>4 DEF DevKnown
<1>17. CASE Identified
  <2>1. /\ req' = req /\ pc = "status" /\ at.stage = "identify"
        /\ \/ pc' = "idle" /\ bd' = bd
           \/ kind = "bdhdd" /\ pc' = "idle" /\ Up
           \/ /\ bd' = bd /\ kind = "bdh8b16" /\ drive.multi > 0
              /\ at' = [at EXCEPT !.stage = "setmultiple"] /\ pc' = "ready"
    BY <1>17 DEF Identified, Return, Goto
  <2>2. CASE pc' = "idle" /\ bd' = bd
    BY <1>4, <1>7, <2>2 DEF DevKnown, AtDrive
  <2>3. CASE kind = "bdhdd" /\ pc' = "idle"
    BY <1>1, <1>7, <2>3 DEF DevKnown, AtDrive
  <2>4. CASE /\ bd' = bd /\ kind = "bdh8b16" /\ drive.multi > 0
             /\ at' = [at EXCEPT !.stage = "setmultiple"] /\ pc' = "ready"
    <3>1. at'.stage = "setmultiple"
      BY <1>2, <2>4 DEF AtType
    <3> QED BY <1>1, <1>4, <2>4, <3>1 DEF DevKnown, AtData, AtDrive
  <2> QED BY <2>1, <2>2, <2>3, <2>4
<1>18. CASE MultipleSet
  <2>1. pc = "status" /\ at.stage = "setmultiple" /\ Up /\ pc' = "idle"
    BY <1>18 DEF MultipleSet, Return
  <2>2. drive.multi > 0 /\ ata.set[req.dev]
    BY <1>3, <2>1 DEF AtDrive
  <2>3. Modes'
    <3> SUFFICES ASSUME kind = "bdh8b16", NEW d \in Devs, bd'[d].up
                 PROVE  bd'[d].multi > 0 /\ (ata'.set[d] \/ drive.reverts)
      BY <1>1
    <3>1. CASE d = req.dev
      BY <1>1, <2>1, <2>2, <3>1, UpKnown DEF SetsKept
    <3>2. CASE d # req.dev
      BY <1>1, <1>3, <2>1, <3>2, UpKnown DEF SetsKept
    <3> QED BY <3>1, <3>2
  <2> QED BY <1>7, <2>1, <2>3 DEF DevKnown, AtDrive
<1>19. CASE Open
  <2>1. IsFile /\ pc' # "ready" /\ pc' # "send" /\ pc' # "status"
    BY <1>19 DEF Open, IInv, CallPlace, Return
  <2>2. kind # "bdh8b16"
    BY <2>1 DEF IsFile
  <2> QED BY <1>1, <1>7, <2>1, <2>2 DEF DevKnown, AtDrive
<1>20. CASE ReadNothing \/ UNCHANGED vars
  BY <1>3, <1>20 DEF ReadNothing, vars, env, DevKnown, AtData, AtDrive
<1> QED BY <1>8, <1>9, <1>10, <1>11, <1>12, <1>13, <1>14, <1>15, <1>16, <1>17, <1>18, <1>19, <1>20
        DEF Next, Ask, Continue

\* While nothing has failed in a call, the drive is at work on its command, unless
\* it has refused it for the multiple mode that a reset has ended.
Clean == pc = "status" /\ ~hit /\ ~mixed => Status(ata) = "work" \/ (at.stage = "data" /\ Lost)

LEMMA InitCause == Init => Clean /\ FailsForCause
  BY DEF Init, Clean, FailsForCause

\* A step that does not fail, and after which no status is looked at.
LEMMA NoCause ==
  ASSUME pc' # "status", ret' # "fail" PROVE Clean' /\ FailsForCause'
  BY DEF Clean, FailsForCause
LEMMA HitCause ==
  ASSUME pc' # "status", hit' PROVE Clean' /\ FailsForCause'
  BY DEF Clean, FailsForCause

\* A command is taken, or refused for the multiple mode.
LEMMA SendCause == ASSUME IInv, DevKnown, Send PROVE Clean' /\ FailsForCause'
<1>1. /\ pc = "send" /\ pc' = "status" /\ ret' = "none" /\ at' = at /\ req' = req /\ bd' = bd
      /\ hit' = hit /\ mixed' = mixed /\ kind' = kind /\ drive' = drive
  BY DEF Send, Goto, env, IInv, CallPlace
<1>2. ata \in AtaType /\ ata.sel = req.dev /\ at \in AtType /\ req \in ReqType
  BY <1>1 DEF IInv, TypeOK, SendsToIdle
<1>3. FailsForCause'
  BY <1>1 DEF FailsForCause
<1>4. CASE at.stage = "identify"
  <2>1. ata' = Takes(ata, "identify", 0, 1) /\ ~(0 + 1 > 2 * LowSecs)
    BY <1>4, Constants DEF Send
  <2>2. Status(ata') = "work"
    BY <1>2, <2>1, TakesStatus
  <2> QED BY <1>3, <2>2 DEF Clean
<1>5. CASE at.stage = "setmultiple"
  <2>1. ata' = Takes(ata, "setmultiple", 0, 0) /\ ~(0 + 0 > 2 * LowSecs)
    BY <1>5, Constants DEF Send
  <2>2. Status(ata') = "work"
    BY <1>2, <2>1, TakesStatus
  <2> QED BY <1>3, <2>2 DEF Clean
<1>6. CASE at.stage = "data"
  <2> DEFINE lba == ata.upper * LowSecs + (at.sec % LowSecs)
             left == SecCnt(at.cur % SecCntMax)
  <2>1. ata' = Takes(ata, req.op, lba, left)
    BY <1>6 DEF Send
  <2>2. at.sec \in Sectors /\ req.op \in {"get", "put"} /\ bd[req.dev].up /\ req.dev \in Devs
    BY <1>1, <1>2, <1>6, AtSector DEF IInv, CallPlace, AtDrive, AtData, DevKnown, ReqType
  <2>3. ASSUME ~mixed PROVE ~(lba + left > 2 * LowSecs)
    <3>1. ata.upper = at.sec \div LowSecs
      BY <1>1, <1>6, <2>3 DEF IInv, UpperBits, Upper
    <3>2. lba = at.sec
      BY <2>2, <3>1, AddressFacts
    <3>3. left = Cur /\ Cur <= at.count /\ at.sec + at.count = req.sec + req.count
          /\ req.sec + req.count <= 2 * LowSecs
      BY <1>1, <1>2, <1>6, CountFacts
         DEF Cur, IInv, Progress, AtData, AtDrive, CallPlace, AtType
    <3>4. /\ at.sec \in Nat /\ at.count \in Nat /\ req.sec \in Nat /\ req.count \in Nat
          /\ Cur \in Nat /\ LowSecs \in Nat
      BY <1>2, CountFacts, Constants DEF AtType, ReqType, Cur
    <3> HIDE DEF lba, left
    <3> QED BY <3>2, <3>3, <3>4
  <2>4. ata'.set = ata.set
    BY <1>2, <2>1, <2>2, TakesSets DEF AtaType
  <2>5. ASSUME ~mixed, Status(ata') # "work" PROVE Lost'
    <3> HIDE DEF lba, left
    <3>1. kind = "bdh8b16" /\ ~ata.set[ata.sel]
      BY <1>2, <2>1, <2>3, <2>5, TakesStatus
    <3>2. drive.reverts
      BY <1>2, <2>2, <3>1 DEF DevKnown
    <3> QED BY <1>1, <1>2, <2>4, <3>1, <3>2 DEF Lost
  <2> QED BY <1>1, <1>3, <1>6, <2>5 DEF Clean
<1> QED BY <1>2, <1>3, <1>4, <1>5, <1>6 DEF AtType

\* A status that is bad without a failure is that of a refused command.
LEMMA StatusCause ==
  ASSUME IInv, Clean, pc = "status", ~hit, ~mixed, Status(ata) = "work"
  PROVE  StatusOk(Comes(ata))
<1>1. ata \in AtaType /\ Working /\ at \in AtType
  BY DEF IInv, TypeOK
<1>2. Status(Comes(ata)) = IF ata.left = 0 THEN "idle" ELSE "drq"
  BY <1>1, ComesFacts
<1>3. CASE at.stage = "data"
  <2>1. ata.left = Cur - at.iSec /\ at.iSec < Cur /\ at.iSec \in Nat /\ Cur \in Nat
    BY <1>1, <1>3, CountFacts, Constants DEF IInv, Command, Progress, AtData, AtDrive, Cur, AtType
  <2>2. ata.left # 0
    BY <2>1
  <2> QED BY <1>2, <1>3, <2>2 DEF StatusOk
<1>4. CASE at.stage = "identify"
  BY <1>2, <1>4 DEF StatusOk, IInv, Command
<1>5. CASE at.stage = "setmultiple"
  BY <1>2, <1>5 DEF StatusOk, IInv, Command
<1> QED BY <1>1, <1>3, <1>4, <1>5 DEF AtType

LEMMA BadCause == ASSUME IInv, Clean, StatusBad PROVE Clean' /\ FailsForCause'
<1>1. PICK b \in Seen : Wait(b) /\ ~StatusOk(b) /\ ata' = b
  BY DEF StatusBad
<1>2. /\ pc = "status" /\ pc' = "idle" /\ req' = req /\ mixed' = mixed
      /\ kind' = kind /\ drive' = drive
  BY DEF StatusBad, Return, env
<1>3. CASE hit'
  BY <1>2, <1>3, HitCause
<1>4. CASE mixed
  BY <1>2, <1>4 DEF Clean, FailsForCause
<1>5. CASE ~hit' /\ ~mixed
  <2>1. b = Comes(ata) /\ ~hit
    BY <1>1, <1>5 DEF Wait, Fine, Fault
  <2>2. Lost
    BY <1>1, <1>2, <1>5, <2>1, StatusCause DEF Clean
  <2>3. ata'.set = ata.set
    BY <1>1, SeenFacts DEF IInv, TypeOK
  <2> QED BY <1>2, <2>2, <2>3 DEF Lost, Clean, FailsForCause
<1> QED BY <1>3, <1>4, <1>5

\* The next block of a command: the drive stays at work.
LEMMA BlockCause == ASSUME IInv, GetBlock \/ PutBlock PROVE Clean' /\ FailsForCause'
<1> DEFINE n == Lesser(Block, Cur - at.iSec)
<1>1. /\ pc = "status" /\ StatusOk(Comes(ata)) /\ Advance(Cur) /\ ret = "none"
      /\ ata' = Moved(Comes(ata), n) \/ hit'
  BY DEF GetBlock, PutBlock, Cur, IInv, CallPlace, Fault
<1>2. at.stage = "data"
  BY DEF GetBlock, PutBlock, IInv, CallPlace, AtDrive
<1>3. FailsForCause' /\ (pc' = "status" => at.iSec + Block < Cur)
  BY <1>1 DEF Advance, Return, Goto, FailsForCause
<1>4. CASE pc' = "status" /\ ~hit'
  <2>1. /\ Comes(ata) \in AtaType /\ Comes(ata).left = Cur - at.iSec /\ Block \in Nat
        /\ Cur \in Nat /\ at.iSec \in Nat
    BY <1>1, <1>2, BlockFacts, Constants DEF IInv, TypeOK, AtType
  <2>2. Comes(ata).left # n
    BY <1>3, <1>4, <2>1 DEF Lesser
  <2> HIDE DEF n
  <2>3. Status(ata') = "work"
    BY <1>1, <1>4, <2>1, <2>2, MovedSets
  <2> QED BY <1>3, <2>3 DEF Clean
<1> QED BY <1>3, <1>4 DEF Clean

LEMMA StepCause == IInv /\ DevKnown /\ Clean /\ FailsForCause /\ [Next]_vars => Clean' /\ FailsForCause'
<1> SUFFICES ASSUME IInv, DevKnown, Clean, FailsForCause, [Next]_vars PROVE Clean' /\ FailsForCause'
  OBVIOUS
<1>1. CASE Get \/ Put
  <2>1. PICK op \in {"get", "put"}, dev \in Devs, a \in Asked :
          /\ Call(op, dev, a[1], a[2], FALSE) /\ bd' = bd /\ pc' # "status"
          /\ \/ ret' # "fail"
             \/ op = "put" /\ bd[dev].single
             \/ op = "get" /\ a[2] = 0 /\ bd[dev].single
    BY <1>1 DEF Get, Put, Transfer, Enter, Return
  <2>2. req'.op = op /\ req'.dev = dev /\ req'.count = a[2]
    BY <2>1 DEF Call
  <2> QED BY <2>1, <2>2 DEF Clean, FailsForCause
<1>2. CASE InitDev \/ Cleanup
  <2>1. pc' # "status" /\ ret' # "fail"
    BY <1>2 DEF InitDev, Cleanup, Enter, Return
  <2> QED BY <2>1, NoCause
<1>3. CASE ResetDev
  <2>1. pc' # "status"
    BY <1>3 DEF ResetDev, Return
  <2>2. ret' = "fail" => hit'
    <3> SUFFICES ASSUME ata' = AfterReset(ata, {}), NEW d \in Devs
                 PROVE  ata'.st[d] # "hung"
      BY <1>3 DEF ResetDev, Return, Reset, Fault
    <3> QED BY ResetFacts DEF IInv, TypeOK
  <2> QED BY <2>1, <2>2, NoCause, HitCause
<1>4. CASE Ready \/ ReadyByReset
  <2>1. req' = req
    BY <1>4 DEF Ready, ReadyByReset
  <2>2. pc' # "status" /\ (ret' = "fail" => Status(ata') = "hung")
    BY <1>4 DEF Ready, ReadyByReset, Proceed, Return, Goto, IInv, CallPlace
  <2>3. req.dev \in Devs
    BY DEF IInv, TypeOK, ReqType
  <2>4. Status(ata') = "hung" => req.dev = 1 /\ ata'.st[1] = "hung"
    BY <1>4, <2>3, ReadyFacts DEF Status, Resting
  <2> QED BY <2>1, <2>2, <2>4 DEF Clean, FailsForCause
<1>14. CASE RepOnError
  <2>1. pc' # "status" /\ ret' # "fail"
    BY <1>14 DEF RepOnError, Goto, IInv, CallPlace
  <2> QED BY <2>1, NoCause
<1>5. CASE StillNotOk \/ SuddenlyBusy \/ MoveFails
  <2>1. pc' # "status" /\ hit'
    BY <1>5 DEF StillNotOk, SuddenlyBusy, MoveFails, Fault, Return
  <2> QED BY <2>1, HitCause
<1>6. CASE Send
  BY <1>6, SendCause
<1>7. CASE StatusBad
  BY <1>7, BadCause
<1>8. CASE GetBlock \/ PutBlock
  BY <1>8, BlockCause
<1>9. CASE Identified
  <2>1. pc = "status" /\ req' = req /\ drive' = drive /\ req.op = "init" /\ ret = "none"
    BY <1>9 DEF Identified, env, IInv, CallPlace, AtDrive
  <2>2. pc' # "status" /\ (ret' = "fail" => ~drive.lba \/ drive.multi = 0)
    BY <1>9, <2>1 DEF Identified, Return, Goto
  <2> QED BY <2>1, <2>2 DEF Clean, FailsForCause
<1>10. CASE MultipleSet
  <2>1. pc' # "status" /\ ret' # "fail"
    BY <1>10 DEF MultipleSet, Return
  <2> QED BY <2>1, NoCause
<1>11. CASE Open \/ ReadSome \/ WriteSome
  <2>1. pc' # "status" /\ ret' # "fail"
    BY <1>11 DEF Open, ReadSome, WriteSome, MoveOn, Return, Goto, IInv, CallPlace
  <2> QED BY <2>1, NoCause
<1>12. CASE Seek
  <2>1. /\ pc = "seek" /\ req' = req /\ kind' = kind /\ pc' # "status" /\ ret = "none"
        /\ ret' = "fail" => Offset(at.sec) < 0
    BY <1>12 DEF Seek, env, Goto, Return, IInv, CallPlace
  <2>2. at.sec = req.sec /\ IsFile /\ req.sec \in Nat
    BY <2>1 DEF IInv, FileProgress, CallPlace, TypeOK, ReqType
  <2>3. Offset(req.sec) < 0 => Wrapped
    BY <2>2 DEF Offset, Wrapped, IsFile
  <2>4. ret' = "fail" => Wrapped'
    BY <2>1, <2>2, <2>3 DEF Wrapped, Offset
  <2> QED BY <2>1, <2>4 DEF Clean, FailsForCause
<1>13. CASE ReadNothing \/ UNCHANGED vars
  BY <1>13 DEF ReadNothing, vars, env, Clean, Lost, FailsForCause, Wrapped, Offset
<1> QED BY <1>1, <1>2, <1>3, <1>4, <1>5, <1>6, <1>7, <1>8, <1>9, <1>10, <1>11, <1>12, <1>13, <1>14
        DEF Next, Ask, Continue

(* What a failed call leaves behind in the registers is gone when the next one *)
(* begins (docs/Changelog:802): a call fails only by a failure of its own      *)
(* time, for what it asks for, or by one of the faults of the code that        *)
(* FailsForCause names; for drives of every size and any history of calls to   *)
(* the two of them.                                                            *)
THEOREM AlwaysForCause == Spec => []FailsForCause
<1>1. Init => IInv /\ DevKnown /\ Clean /\ FailsForCause
  BY InitInv, InitKnown, InitCause
<1>2. IInv /\ DevKnown /\ Clean /\ FailsForCause /\ [Next]_vars
        => (IInv /\ DevKnown /\ Clean /\ FailsForCause)'
  BY StepInv, StepKnown, StepCause
<1> QED BY <1>1, <1>2, PTL DEF Spec

-----------------------------------------------------------------------------
(* What a put has stored                                                   *)

LEMMA DivUnique ==
  ASSUME NEW b \in Nat, b > 0, NEW q \in Nat, NEW r \in 0 .. b - 1, NEW p, p = q * b + r
  PROVE  p \div b = q /\ p % b = r
<1>1. p \in Nat /\ q * b <= p /\ p < q * b + b
  OBVIOUS
<1>2. p \div b = q
  BY <1>1
<1>3. p % b = r
  OBVIOUS
<1> QED BY <1>2, <1>3

\* The commands of a put are full but for the last, and so are their blocks.
Even(k, b) == \E n \in Nat : k = n * b
PutCounts ==
  AtData /\ req.op = "put" => /\ ~bd[req.dev].single
                              /\ Even(at.sec - req.sec, SecCntMax) /\ Even(at.iSec, Block)
                              /\ Cur = Lesser(at.count, SecCntMax)

LEMMA EvenFacts ==
  ASSUME NEW b \in Nat, NEW k \in Nat
  PROVE  Even(0, b) /\ (Even(k, b) => Even(k + b, b))
<1>1. Even(0, b)
  <2>1. 0 = 0 * b
    OBVIOUS
  <2> QED BY <2>1 DEF Even
<1>2. ASSUME NEW n \in Nat, k = n * b PROVE \E m \in Nat : k + b = m * b
  <2>1. k + b = (n + 1) * b /\ n + 1 \in Nat
    BY <1>2
  <2> QED BY <2>1
<1> QED BY <1>1, <1>2 DEF Even

LEMMA FullChunk ==
  ASSUME NEW d \in Devs, NEW n \in Nat, n > 0, ~bd[d].single
  PROVE  CurSecs(Chunk(d, n)) = Lesser(n, SecCntMax)
  BY Constants DEF CurSecs, Chunk, Lesser

\* The sectors from the last look at the status to the end of the command.
LEMMA LastBlock ==
  ASSUME NEW p \in Nat, Even(p, SecCntMax), NEW c \in Nat, NEW j \in Nat, NEW k \in Nat,
         p <= req.count, req.count \in Nat, c = Lesser(req.count - p, SecCntMax),
         Block \in Nat, Block > 0, Even(k, Block), c <= k + Block, k <= j, j < c
  PROVE  InLastBlock(p + j)
<1>1. SecCntMax \in Nat /\ SecCntMax > 0 /\ c <= SecCntMax
  BY Constants DEF Lesser
<1>2. PICK n \in Nat : p = n * SecCntMax
  BY DEF Even
<1>3. PICK m \in Nat : k = m * Block
  BY DEF Even
<1>4. (p + j) % SecCntMax = j
  <2>1. j \in 0 .. SecCntMax - 1
    BY <1>1
  <2> QED BY <1>1, <1>2, <2>1, DivUnique
<1>5. \A i \in Nat : k <= i /\ i < c => i \div Block = m
  <2> SUFFICES ASSUME NEW i \in Nat, k <= i, i < c PROVE i \div Block = m
    OBVIOUS
  <2>1. PICK r \in 0 .. Block - 1 : i = k + r
    <3>1. i - k \in 0 .. Block - 1 /\ i = k + (i - k)
      OBVIOUS
    <3> QED BY <3>1
  <2> QED BY <1>3, <2>1, DivUnique
<1>6. (p + j) - ((p + j) % SecCntMax) = p
  BY <1>4
<1>7. c - 1 \in Nat /\ k <= c - 1 /\ c - 1 < c
  OBVIOUS
<1>8. j \div Block = (c - 1) \div Block
  BY <1>5, <1>7
<1> QED BY <1>4, <1>6, <1>8 DEF InLastBlock

\* A block has a size.
LEMMA BlockSize ==
  ASSUME IInv, DevKnown, AtData PROVE Block \in Nat /\ Block > 0
<1>1. /\ bd \in [Devs -> [up : BOOLEAN, single : BOOLEAN, multi : 0 .. SecCntMax]]
      /\ req.dev \in Devs /\ SecCntMax \in Nat
  BY Constants DEF IInv, TypeOK, ReqType
<1>2. kind = "bdh8b16" => bd[req.dev].multi > 0
  BY <1>1 DEF DevKnown
<1> QED BY <1>1, <1>2 DEF Block

LEMMA TransferCounts ==
  ASSUME IInv, NEW op \in {"get", "put"}, Transfer(op) PROVE PutCounts'
<1>1. PICK dev \in Devs, a \in Asked :
        /\ Call(op, dev, a[1], a[2], FALSE) /\ bd' = bd
        /\ LET start == [NoAt EXCEPT !.sec = a[1], !.count = a[2]]
           IN \/ Enter("seek", start) \/ Return("fail") \/ Return("ok")
              \/ /\ (op = "put" => ~bd[dev].single) /\ a[2] # 0
                 /\ Enter("ready", Pass(dev, a[1], a[2], Passes(dev, a[2])))
  BY DEF Transfer
<1>2. req'.op = op /\ req'.dev = dev /\ req'.sec = a[1] /\ req'.count = a[2] /\ kind' = kind
  BY <1>1 DEF Call, env
<1>3. a[1] \in Nat /\ a[2] \in Nat
  BY ConstAssumption
<1> DEFINE start == [NoAt EXCEPT !.sec = a[1], !.count = a[2]]
<1>4. CASE Enter("seek", start) \/ Return("fail") \/ Return("ok")
  BY <1>4 DEF Enter, Return, PutCounts, AtData, AtDrive
<1>5. CASE /\ (op = "put" => ~bd[dev].single) /\ a[2] # 0
           /\ Enter("ready", Pass(dev, a[1], a[2], Passes(dev, a[2])))
  <2> SUFFICES ASSUME op = "put"
               PROVE  /\ ~bd'[req'.dev].single
                      /\ Even(at'.sec - req'.sec, SecCntMax) /\ Even(at'.iSec, Block')
                      /\ Cur' = Lesser(at'.count, SecCntMax)
    BY <1>2 DEF PutCounts
  <2>1. at'.sec = a[1] /\ at'.count = a[2] /\ at'.iSec = 0 /\ at'.cur = Chunk(dev, a[2])
    BY <1>5 DEF Enter, Pass, NoAt
  <2>2. Even(at'.sec - req'.sec, SecCntMax)
    <3>1. at'.sec - req'.sec = 0
      BY <1>2, <1>3, <2>1
    <3> QED BY <3>1, EvenFacts, Constants
  <2>3. Even(at'.iSec, Block')
    <3>1. Block' \in Nat
      BY <1>1, <1>2, Constants DEF Block, IInv, TypeOK
    <3> QED BY <2>1, <3>1, EvenFacts
  <2>4. Cur' = Lesser(at'.count, SecCntMax)
    BY <1>3, <1>5, <2>1, FullChunk DEF Cur
  <2> QED BY <1>1, <1>2, <1>5, <2>2, <2>3, <2>4
<1> QED BY <1>1, <1>4, <1>5

\* How far a put has come, and with it its sectors.
StoredTo(k) ==
  \A i \in 0 .. k - 1 : \/ media[req.dev][req.sec + i] = <<calls, i>>
                        \/ ~IsFile /\ hit /\ InLastBlock(i)
PutSoFar ==
  /\ AtData /\ req.op = "put" /\ ~mixed /\ (pc = "status" => Status(ata) = "work")
       => StoredTo(at.sec + at.iSec - req.sec)
  /\ pc = "move" /\ req.op = "put" /\ ~Wrapped => StoredTo(req.count - at.count)

PInv == PutCounts /\ PutSoFar /\ PutStored /\ (pc = "open" => req.op = "init")

LEMMA InitStored == Init => PInv
  BY DEF Init, PInv, PutCounts, PutSoFar, PutStored, AtData, AtDrive

\* A step that moves nothing.
LEMMA StoredStays ==
  ASSUME NEW k, StoredTo(k), media' = media, req' = req, calls' = calls, kind' = kind, bd' = bd,
         hit => hit'
  PROVE  StoredTo(k)'
  BY DEF StoredTo, IsFile, InLastBlock, Block

\* Steps before the data is moved.
LEMMA KeepStored ==
  ASSUME IInv, PInv, AtDrive, media' = media, req' = req, calls' = calls, kind' = kind, bd' = bd,
         hit => hit', ~mixed' => ~mixed,
         \/ pc' = "idle" /\ ret' = "fail"
         \/ AtDrive' /\ ret' = "none" /\ at' = at /\ pc # "status"
  PROVE  PInv'
<1>1. CASE pc' = "idle" /\ ret' = "fail"
  BY <1>1 DEF PInv, PutCounts, PutSoFar, PutStored, AtData, AtDrive
<1>2. CASE AtDrive' /\ ret' = "none" /\ at' = at /\ pc # "status"
  <2>1. PutCounts'
    BY <1>2 DEF PInv, PutCounts, AtData, Cur, Block
  <2>2. PutStored'
    BY <1>2 DEF PutStored
  <2>3. PutSoFar'
    <3>1. StoredTo(at.sec + at.iSec - req.sec) =>
            StoredTo(at.sec + at.iSec - req.sec)'
      BY <1>2, StoredStays
    <3> QED BY <1>2, <3>1 DEF PInv, PutSoFar, AtData, AtDrive
  <2> QED BY <1>2, <2>1, <2>2, <2>3 DEF PInv, AtDrive
<1> QED BY <1>1, <1>2

LEMMA NoPutStored ==
  ASSUME req'.op # "put", pc' = "open" => req'.op = "init" PROVE PInv'
  BY DEF PInv, PutCounts, PutSoFar, PutStored

LEMMA DriveStored ==
  ASSUME IInv, PInv,
         Ready \/ ReadyByReset \/ StillNotOk \/ SuddenlyBusy \/ Send \/ RepOnError \/ StatusBad
  PROVE  PInv'
<1>1. AtDrive /\ media' = media /\ req' = req /\ calls' = calls /\ kind' = kind /\ bd' = bd
  BY DEF Ready, ReadyByReset, StillNotOk, SuddenlyBusy, Send, RepOnError, StatusBad, AtDrive, env
<1>2. ~mixed' => ~mixed
  BY DEF Ready, ReadyByReset, StillNotOk, SuddenlyBusy, Send, RepOnError, StatusBad, Select
<1>3. ret = "none"
  BY <1>1 DEF AtDrive, IInv, CallPlace
<1>w. \A b : Wait(b) => (hit => hit')
  BY DEF Wait, Fine, Fault
<1>4. CASE StillNotOk \/ SuddenlyBusy \/ StatusBad
  <2>1. hit => hit'
    BY <1>4, <1>w DEF StillNotOk, SuddenlyBusy, StatusBad, Fault
  <2>2. pc' = "idle" /\ ret' = "fail"
    BY <1>4 DEF StillNotOk, SuddenlyBusy, StatusBad, Return
  <2> QED BY <1>1, <1>2, <2>1, <2>2, KeepStored
<1>5. CASE Ready \/ ReadyByReset \/ Send
  <2>1. hit => hit'
    BY <1>5, <1>w DEF Ready, ReadyByReset, Send, Fault
  <2>2. \/ AtDrive' /\ ret' = "none" /\ at' = at /\ pc # "status"
        \/ pc' = "idle" /\ ret' = "fail"
    BY <1>3, <1>5 DEF Ready, ReadyByReset, Send, Proceed, Goto, Return, AtDrive
  <2> QED BY <1>1, <1>2, <2>1, <2>2, KeepStored
<1>6. CASE RepOnError
  BY <1>1, <1>6, NoPutStored DEF RepOnError, Retries, Goto
<1> QED BY <1>4, <1>5, <1>6

\* What is on the media after a block: its sectors, or a failure in the last block
\* of the command.
LEMMA BlockStored ==
  ASSUME IInv, DevKnown, PInv, PutBlock, ~mixed,
         NEW k, k = at.sec + at.iSec - req.sec,
         NEW n, n = Lesser(Block, Cur - at.iSec),
         Status(ata') # "err" \/ ~(at.iSec + Block < Cur)
  PROVE  StoredTo(k + n)'
<1>1. /\ pc = "status" /\ at.stage = "data" /\ req.op = "put" /\ ~IsFile
      /\ n \in Nat /\ k \in Nat /\ ata.lba \in Nat /\ ata.sel = req.dev
      /\ ata.lba + n <= 2 * LowSecs /\ k + n <= req.count /\ k + n <= 2 * LowSecs
      /\ ata.lba = req.sec + k
  <2>1. k = at.sec - req.sec + at.iSec
    BY DEF IInv, TypeOK, AtType, ReqType
  <2> QED BY <2>1, PutPlace
<1>2. /\ StatusOk(Comes(ata)) /\ req' = req /\ calls' = calls /\ kind' = kind /\ bd' = bd
  BY DEF PutBlock, Cur, env
<1>m. PICK m \in 0 .. n :
        /\ media' = Stored(media, ata.lba, m, at.sec - req.sec + at.iSec)
        /\ \/ m = n /\ hit' = hit
           \/ m < n /\ hit' /\ ata' = Shows(Moved(Comes(ata), n), "err")
  BY DEF PutBlock, Cur, Fine, Fault
<1>3. AtData /\ AtDrive
  BY <1>1 DEF AtData, AtDrive
<1>4. /\ Status(ata) = "work" /\ Comes(ata) \in AtaType /\ Block \in Nat /\ Block > 0
      /\ Cur \in 1 .. SecCntMax /\ n <= ata.left /\ ata.lba + ata.left <= 2 * LowSecs
      /\ Comes(ata).lba = ata.lba /\ Comes(ata).left = ata.left
  BY <1>1, <1>2, <1>3, BlockFacts, BlockSize
<1>5. StoredTo(k)
  BY <1>1, <1>3, <1>4 DEF PInv, PutSoFar
<1>6. /\ at.iSec \in Nat /\ at.sec \in Nat /\ at.count \in Nat /\ req.sec \in Nat /\ req.count \in Nat
      /\ req.sec <= at.sec /\ at.sec + at.count = req.sec + req.count /\ at.iSec < Cur
      /\ Cur \in Nat
  BY <1>3, <1>4, Constants DEF IInv, TypeOK, AtType, ReqType, Progress
<1>7. \A i \in 0 .. (k + m) - 1 : \/ media'[req.dev][req.sec + i] = <<calls, i>>
                                  \/ ~IsFile /\ hit' /\ InLastBlock(i)
  <2>1. at.sec - req.sec + at.iSec = k
    BY <1>6
  <2>2. m \in Nat /\ ata.lba + m <= 2 * LowSecs /\ k + m <= 2 * LowSecs
    BY <1>1, Constants
  <2>3. \A d \in Devs, s \in Sectors :
          media'[d][s] = IF d = req.dev /\ s \in ata.lba .. ata.lba + m - 1
                         THEN <<calls, k + s - ata.lba>> ELSE media[d][s]
    BY <1>1, <1>m, <2>1, <2>2, StoredFacts DEF IInv
  <2>4. req.dev \in Devs /\ LowSecs \in Nat
    BY Constants DEF IInv, TypeOK, ReqType
  <2> SUFFICES ASSUME NEW i \in 0 .. (k + m) - 1
               PROVE  \/ media'[req.dev][req.sec + i] = <<calls, i>>
                      \/ ~IsFile /\ hit' /\ InLastBlock(i)
    OBVIOUS
  <2>5. req.sec + i \in Sectors
    BY <1>1, <1>6, <2>4 DEF Sectors
  <2>6. CASE i < k
    <3>1. ~(req.sec + i \in ata.lba .. ata.lba + m - 1)
      BY <1>1, <1>6, <2>6
    <3>2. media'[req.dev][req.sec + i] = media[req.dev][req.sec + i]
      BY <2>3, <2>4, <2>5, <3>1
    <3>3. i \in 0 .. k - 1
      BY <1>1, <2>6
    <3>4. \/ media[req.dev][req.sec + i] = <<calls, i>>
          \/ ~IsFile /\ hit /\ InLastBlock(i)
      BY <1>5, <3>3 DEF StoredTo
    <3> QED BY <1>m, <3>2, <3>4
  <2>7. CASE i >= k
    <3>1. req.sec + i \in ata.lba .. ata.lba + m - 1 /\ k + (req.sec + i) - ata.lba = i
      BY <1>1, <1>6, <2>7
    <3> QED BY <2>3, <2>4, <2>5, <3>1
  <2> QED BY <1>1, <2>6, <2>7
<1>8. CASE m = n
  BY <1>2, <1>7, <1>8 DEF StoredTo, IsFile, InLastBlock, Block
<1>9. CASE m < n /\ hit' /\ ata' = Shows(Moved(Comes(ata), n), "err")
  <2>1. Status(ata') = "err"
    <3>1. Moved(Comes(ata), n) \in AtaType
      BY <1>1, <1>4, MovedFacts
    <3> QED BY <1>9, <3>1, ShowsFacts DEF States
  <2>2. n = Cur - at.iSec /\ Cur <= at.iSec + Block
    BY <1>4, <1>6, <2>1 DEF Lesser
  <2>3. PICK p \in Nat : p = at.sec - req.sec /\ k = p + at.iSec /\ p <= req.count
    BY <1>6
  <2>4. req.count - p = at.count
    BY <1>6, <2>3
  <2>5. Even(p, SecCntMax) /\ Even(at.iSec, Block) /\ Cur = Lesser(req.count - p, SecCntMax)
    BY <1>1, <1>3, <2>3, <2>4 DEF PInv, PutCounts
  <2> SUFFICES ASSUME NEW i \in 0 .. (k + n) - 1
               PROVE  \/ media'[req.dev][req.sec + i] = <<calls, i>>
                      \/ ~IsFile /\ InLastBlock(i)
    BY <1>2, <1>9 DEF StoredTo, IsFile, InLastBlock, Block
  <2>6. CASE i < k
    <3>1. i \in 0 .. (k + m) - 1
      BY <1>1, <2>6
    <3> QED BY <1>7, <3>1
  <2>7. CASE i >= k
    <3>1. PICK j \in Nat : i = p + j /\ at.iSec <= j /\ j < Cur
      <4>1. i - p \in Nat /\ i = p + (i - p) /\ at.iSec <= i - p /\ i - p < Cur
        BY <1>1, <1>6, <2>2, <2>3, <2>7
      <4> QED BY <4>1
    <3>2. InLastBlock(p + j)
      BY <1>4, <1>6, <2>2, <2>3, <2>5, <3>1, LastBlock
    <3> QED BY <1>1, <3>1, <3>2
  <2> QED BY <1>1, <2>6, <2>7
<1> QED BY <1>m, <1>8, <1>9

LEMMA PutBlockStored == ASSUME IInv, DevKnown, PInv, PutBlock PROVE PInv'
<1>n. PICK n : n = Lesser(Block, Cur - at.iSec)
  OBVIOUS
<1>k. PICK k : k = at.sec + at.iSec - req.sec
  OBVIOUS
<1>1. /\ pc = "status" /\ req.op = "put" /\ StatusOk(Comes(ata)) /\ Advance(Cur) /\ ret = "none"
      /\ req' = req /\ mixed' = mixed /\ kind' = kind /\ bd' = bd
  BY DEF PutBlock, Cur, env, IInv, CallPlace
<1>2. at.stage = "data" /\ AtData /\ AtDrive /\ ~IsFile
  BY <1>1 DEF IInv, CallPlace, AtData, AtDrive
<1>3. /\ Block \in Nat /\ Block > 0 /\ Cur \in 1 .. SecCntMax /\ Cur \in Nat /\ SecCntMax \in Nat
  BY <1>1, <1>2, BlockFacts, BlockSize, Constants
<1>4. /\ at \in AtType /\ at.iSec \in Nat /\ at.sec \in Nat /\ at.count \in Nat
      /\ req.sec \in Nat /\ req.count \in Nat /\ req.dev \in Devs
      /\ req.sec <= at.sec /\ at.sec + at.count = req.sec + req.count /\ Cur <= at.count
      /\ at.iSec < Cur
  BY <1>2 DEF IInv, TypeOK, AtType, ReqType, Progress
<1>5. /\ ~bd[req.dev].single /\ Even(at.sec - req.sec, SecCntMax) /\ Even(at.iSec, Block)
      /\ Cur = Lesser(at.count, SecCntMax)
  BY <1>1, <1>2 DEF PInv, PutCounts
<1>6. ~mixed /\ (Status(ata') # "err" \/ ~(at.iSec + Block < Cur)) => StoredTo(k + n)'
  BY <1>n, <1>k, BlockStored
<1>7. CASE at.iSec + Block < Cur
  <2>1. at' = [at EXCEPT !.cur = Cur, !.iSec = @ + Block] /\ pc' = "status" /\ ret' = "none"
    BY <1>1, <1>7 DEF Advance, Goto
  <2>2. /\ at'.sec = at.sec /\ at'.iSec = at.iSec + Block /\ at'.count = at.count /\ at'.cur = Cur
    BY <1>4, <2>1 DEF AtType
  <2>3. at'.sec + at'.iSec - req'.sec = k + n
    <3>1. n = Block
      BY <1>3, <1>4, <1>7, <1>n DEF Lesser
    <3> QED BY <1>1, <1>3, <1>4, <1>k, <2>2, <3>1
  <2>4. Cur' = Cur
    BY <1>4, <2>2, CountFacts DEF Cur, AtType
  <2>5. Even(at'.iSec, Block)
    BY <1>3, <1>4, <1>5, <2>2, EvenFacts
  <2>6. PutCounts'
    BY <1>1, <1>5, <2>2, <2>4, <2>5 DEF PutCounts, Block
  <2>7. PutSoFar'
    BY <1>1, <1>6, <2>1, <2>3 DEF PutSoFar
  <2>8. PutStored'
    BY <2>1 DEF PutStored
  <2> QED BY <2>1, <2>6, <2>7, <2>8 DEF PInv
<1>8. CASE ~(at.iSec + Block < Cur)
  <2>1. k + n = at.sec + Cur - req.sec
    <3>1. n = Cur - at.iSec
      BY <1>3, <1>4, <1>8, <1>n DEF Lesser
    <3> QED BY <1>3, <1>4, <1>k, <3>1
  <2>2. CASE at.count > Cur
    <3>1. pc' = "ready" /\ ret' = "none"
      BY <1>1, <1>2, <1>8, <2>2, AdvanceFacts
    <3>2. /\ at'.sec = at.sec + Cur /\ at'.iSec = 0 /\ at'.count = at.count - Cur
          /\ at'.cur = Chunk(req.dev, at.count - Cur)
      BY <1>1, <1>2, <1>8, <2>2, AdvanceFacts
    <3>3. Cur = SecCntMax
      BY <1>3, <1>4, <1>5, <2>2 DEF Lesser
    <3>4. Even(at'.sec - req.sec, SecCntMax)
      <4>1. at.sec - req.sec \in Nat /\ at'.sec - req.sec = (at.sec - req.sec) + SecCntMax
        BY <1>3, <1>4, <3>2, <3>3
      <4> QED BY <1>3, <1>5, <4>1, EvenFacts
    <3>5. Even(at'.iSec, Block)
      BY <1>3, <3>2, EvenFacts
    <3>6. Cur' = Lesser(at'.count, SecCntMax)
      <4>1. at.count - Cur \in Nat /\ at.count - Cur > 0
        BY <1>3, <1>4, <2>2
      <4>2. CurSecs(Chunk(req.dev, at.count - Cur)) = Lesser(at.count - Cur, SecCntMax)
        BY <1>4, <1>5, <4>1, FullChunk
      <4> QED BY <3>2, <4>2 DEF Cur
    <3>7. PutCounts'
      BY <1>1, <1>5, <3>4, <3>5, <3>6 DEF PutCounts, Block
    <3>8. at'.sec + at'.iSec - req'.sec = k + n
      BY <1>1, <1>3, <1>4, <2>1, <3>2
    <3>9. PutSoFar'
      BY <1>1, <1>6, <1>8, <3>1, <3>8 DEF PutSoFar
    <3>10. PutStored'
      BY <3>1 DEF PutStored
    <3> QED BY <3>1, <3>7, <3>9, <3>10 DEF PInv
  <2>3. CASE ~(at.count > Cur)
    <3>1. pc' = "idle" /\ ret' = "ok"
      BY <1>1, <1>2, <1>8, <2>3, AdvanceFacts
    <3>2. k + n = req'.count
      BY <1>1, <1>3, <1>4, <2>1, <2>3
    <3>3. ~mixed' => StoredTo(k + n)'
      BY <1>1, <1>6, <1>8
    <3>4. PutStored'
      BY <3>2, <3>3 DEF PutStored, StoredTo
    <3> QED BY <3>1, <3>4 DEF PInv, PutCounts, PutSoFar, AtData, AtDrive
  <2> QED BY <2>2, <2>3
<1> QED BY <1>7, <1>8

LEMMA WriteSomeStored == ASSUME IInv, PInv, WriteSome PROVE PInv'
<1>5. PICK k : k = req.count - at.count
  OBVIOUS
<1>1. /\ pc = "move" /\ req.op = "put" /\ req' = req /\ calls' = calls /\ kind' = kind
      /\ ret = "none"
  BY DEF WriteSome, env, IInv, CallPlace
<1>2. PICK n \in Nat :
        /\ IsFile /\ n <= at.count /\ MoveOn(n) /\ k \in Nat /\ at.sec \in Nat
        /\ at.sec + n <= 2 * LowSecs /\ k + n <= req.count /\ k + n <= 2 * LowSecs
        /\ ~Wrapped => at.sec = req.sec + k
        /\ media' = Stored(media, at.sec, n, k)
  BY <1>5, WritePlace
<1>3. /\ req.dev = 0 /\ req.dev \in Devs /\ at \in AtType /\ at.count \in Nat /\ req.sec \in Nat
      /\ req.count \in Nat /\ LowSecs \in Nat /\ req.sec + req.count <= 2 * LowSecs
  BY <1>2, Constants DEF IInv, CallPlace, TypeOK, AtType, ReqType
<1>4. Wrapped' = Wrapped /\ (IsFile' <=> IsFile)
  BY <1>1 DEF Wrapped, Offset, IsFile
<1>6. ~Wrapped => StoredTo(k)
  BY <1>1, <1>5 DEF PInv, PutSoFar
<1>7. ASSUME ~Wrapped PROVE StoredTo(k + n)'
  <2>1. \A d \in Devs, s \in Sectors :
          media'[d][s] = IF d = req.dev /\ s \in at.sec .. at.sec + n - 1
                         THEN <<calls, k + s - at.sec>> ELSE media[d][s]
    BY <1>2, <1>3, StoredFacts DEF IInv
  <2>2. StoredTo(k) /\ at.sec = req.sec + k
    BY <1>2, <1>6, <1>7
  <2> SUFFICES ASSUME NEW i \in 0 .. (k + n) - 1
               PROVE  media'[req.dev][req.sec + i] = <<calls, i>>
    BY <1>1 DEF StoredTo
  <2>3. req.sec + i \in Sectors
    BY <1>2, <1>3 DEF Sectors
  <2>4. CASE i < k
    <3>1. ~(req.sec + i \in at.sec .. at.sec + n - 1) /\ i \in 0 .. k - 1
      BY <1>2, <1>3, <2>2, <2>4
    <3>2. media'[req.dev][req.sec + i] = media[req.dev][req.sec + i]
      BY <1>3, <2>1, <2>3, <3>1
    <3> QED BY <1>2, <2>2, <3>1, <3>2 DEF StoredTo
  <2>5. CASE i >= k
    <3>1. req.sec + i \in at.sec .. at.sec + n - 1 /\ k + (req.sec + i) - at.sec = i
      BY <1>2, <1>3, <2>2, <2>5
    <3> QED BY <1>3, <2>1, <2>3, <3>1
  <2> QED BY <1>2, <2>4, <2>5
<1>8. CASE n = at.count
  <2>1. pc' = "idle" /\ ret' = "ok"
    BY <1>2, <1>8 DEF MoveOn, Return
  <2>2. k + n = req.count
    BY <1>2, <1>3, <1>5, <1>8
  <2>3. PutStored'
    BY <1>1, <1>4, <1>7, <2>2 DEF PutStored, StoredTo
  <2> QED BY <2>1, <2>3 DEF PInv, PutCounts, PutSoFar, AtData, AtDrive
<1>9. CASE n # at.count
  <2>1. at' = [at EXCEPT !.sec = @ + n, !.count = @ - n] /\ pc' = "move" /\ ret' = "none"
    BY <1>1, <1>2, <1>9 DEF MoveOn, Goto
  <2>2. at'.count = at.count - n
    BY <1>3, <2>1 DEF AtType
  <2>3. req'.count - at'.count = k + n
    BY <1>1, <1>2, <1>3, <1>5, <2>2
  <2> QED BY <1>4, <1>7, <2>1, <2>3 DEF PInv, PutCounts, PutSoFar, PutStored, AtData, AtDrive
<1> QED BY <1>8, <1>9

LEMMA TransferStored ==
  ASSUME IInv, NEW op \in {"get", "put"}, Transfer(op) PROVE PInv'
<1>1. PICK dev \in Devs, a \in Asked :
        /\ Call(op, dev, a[1], a[2], FALSE)
        /\ LET start == [NoAt EXCEPT !.sec = a[1], !.count = a[2]]
           IN \/ Enter("seek", start) \/ Return("fail") \/ (Return("ok") /\ a[2] = 0)
              \/ Enter("ready", Pass(dev, a[1], a[2], Passes(dev, a[2])))
  BY DEF Transfer
<1>2. req'.sec = a[1] /\ req'.count = a[2] /\ a[1] \in Nat /\ a[2] \in Nat
  BY <1>1, ConstAssumption DEF Call
<1> DEFINE start == [NoAt EXCEPT !.sec = a[1], !.count = a[2]]
<1>3. StoredTo(0)'
  BY DEF StoredTo
<1>4. PutCounts'
  BY TransferCounts
<1>5. CASE Enter("seek", start) \/ Return("fail")
  BY <1>4, <1>5 DEF Enter, Return, PInv, PutSoFar, PutStored, AtData, AtDrive
<1>6. CASE Return("ok") /\ a[2] = 0
  BY <1>2, <1>4, <1>6 DEF Return, PInv, PutSoFar, PutStored, AtData, AtDrive
<1>7. CASE Enter("ready", Pass(dev, a[1], a[2], Passes(dev, a[2])))
  <2>1. pc' = "ready" /\ ret' = "none" /\ at'.sec = a[1] /\ at'.iSec = 0
    BY <1>7 DEF Enter, Pass, NoAt
  <2>2. at'.sec + at'.iSec - req'.sec = 0
    BY <1>2, <2>1
  <2> QED BY <1>3, <1>4, <2>1, <2>2 DEF PInv, PutSoFar, PutStored
<1> QED BY <1>1, <1>5, <1>6, <1>7

LEMMA StepStored == IInv /\ DevKnown /\ PInv /\ [Next]_vars => PInv'
<1> SUFFICES ASSUME IInv, DevKnown, PInv, [Next]_vars PROVE PInv'
  OBVIOUS
<1>1. CASE Get \/ Put
  BY <1>1, TransferStored DEF Get, Put
<1>2. CASE InitDev \/ ResetDev \/ Cleanup
  <2>1. req'.op # "put" /\ (pc' = "open" => req'.op = "init")
    BY <1>2 DEF InitDev, ResetDev, Cleanup, Call, Return
  <2> QED BY <2>1, NoPutStored
<1>3. CASE Ready \/ ReadyByReset \/ StillNotOk \/ SuddenlyBusy \/ Send \/ RepOnError \/ StatusBad
  BY <1>3, DriveStored
<1>4. CASE PutBlock
  BY <1>4, PutBlockStored
<1>5. CASE GetBlock \/ Identified \/ MultipleSet \/ ReadSome
  <2>1. req' = req /\ req.op # "put"
    BY <1>5 DEF GetBlock, Identified, MultipleSet, ReadSome, IInv, CallPlace, AtDrive
  <2>2. pc' # "open"
    BY <1>5 DEF GetBlock, Identified, MultipleSet, ReadSome, Advance, MoveOn, Return, Goto
  <2> QED BY <2>1, <2>2, NoPutStored
<1>6. CASE Open
  <2>1. req' = req /\ media' = media /\ calls' = calls /\ kind' = kind /\ pc = "open"
        /\ pc' \in {"idle", "exited"}
    BY <1>6 DEF Open, env, Return
  <2>2. PutStored'
    <3>1. req.op # "put"
      BY <2>1 DEF PInv, IInv, CallPlace
    <3> QED BY <2>1, <3>1 DEF PutStored
  <2> QED BY <2>1, <2>2 DEF PInv, PutCounts, PutSoFar, AtData, AtDrive
<1>7. CASE Seek
  <2>1. /\ pc = "seek" /\ req' = req /\ ret # "ok"
        /\ \/ pc' = "idle" /\ ret' = "fail"
           \/ pc' = "move" /\ ret' = ret /\ at' = [at EXCEPT !.sec = Offset(@)]
    BY <1>7 DEF Seek, Return, Goto, IInv, CallPlace
  <2>2. at \in AtType /\ at.count = req.count /\ req.count \in Nat
    BY <2>1 DEF IInv, TypeOK, ReqType, FileProgress
  <2>3. pc' = "move" => req'.count - at'.count = 0
    BY <2>1, <2>2 DEF AtType
  <2>4. StoredTo(0)'
    BY DEF StoredTo
  <2> QED BY <2>1, <2>3, <2>4 DEF PInv, PutCounts, PutSoFar, PutStored, AtData, AtDrive
<1>8. CASE WriteSome
  BY <1>8, WriteSomeStored
<1>9. CASE MoveFails
  BY <1>9 DEF MoveFails, Return, PInv, PutCounts, PutSoFar, PutStored, AtData, AtDrive
<1>10. CASE ReadNothing \/ UNCHANGED vars
  <2>1. UNCHANGED vars
    BY <1>10 DEF ReadNothing
  <2>2. PutCounts'
    BY <2>1 DEF vars, PInv, PutCounts, AtData, AtDrive, Cur, Block
  <2>3. \A j : StoredTo(j) => StoredTo(j)'
    BY <2>1, StoredStays DEF vars
  <2>4. PutSoFar'
    BY <2>1, <2>3 DEF vars, PInv, PutSoFar, AtData, AtDrive, Wrapped, Offset
  <2>5. PutStored'
    BY <2>1 DEF vars, PInv, PutStored, IsFile, InLastBlock, Block, Wrapped, Offset
  <2> QED BY <2>1, <2>2, <2>4, <2>5 DEF vars, PInv
<1> QED BY <1>1, <1>2, <1>3, <1>4, <1>5, <1>6, <1>7, <1>8, <1>9, <1>10 DEF Next, Ask, Continue

(* A put that reports success has stored every sector it was asked to, in its  *)
(* place, except in the last block of a command, whose failure is never looked *)
(* at (bdhdd.c:657, bdh8b16.c:687): for requests, commands and blocks of every *)
(* size, and a file that takes less than asked (bdfile.c:86); unless the       *)
(* address register is stale or the offset has wrapped.                        *)
THEOREM PutAlwaysStored == Spec => []PutStored
<1>1. Init => IInv /\ DevKnown /\ PInv
  BY InitInv, InitKnown, InitStored
<1>2. IInv /\ DevKnown /\ PInv /\ [Next]_vars => (IInv /\ DevKnown /\ PInv)'
  BY StepInv, StepKnown, StepStored
<1>3. PInv => PutStored
  BY DEF PInv
<1> QED BY <1>1, <1>2, <1>3, PTL DEF Spec
=============================================================================
