------------------------------ MODULE BlockDev ------------------------------
(***************************************************************************)
(* The block devices behind bdk.h: the ATA drivers bdhdd.c and bdh8b16.c,  *)
(* two drives on one set of registers, and the image file of bdfile.c.     *)
(*                                                                         *)
(* A transfer counts in sectors: what the word loops and DMA move in one   *)
(* go is one block.  The drives and the file are the environment; a drive  *)
(* may answer with an error, hang until it is reset, come without data or  *)
(* fail to store what it has taken, and a call to the file may fail.       *)
(***************************************************************************)
EXTENDS Integers, Sequences

CONSTANTS
  Kinds,      \* the drivers: bdhdd, bdh8b16, bdfile (32 bit offsets), bdfile64
  LowSecs,    \* 2^24: sectors that differ in LBA0, LBA8 and LBA16 only
  LongSecs,   \* sectors a 32 bit offset counts to before it wraps
  SecCntMax,  \* 256: BDHDD_SECCNT_MAX, also what the 8 bit register counts to
  ErrRepCnt,  \* BDH8B16_ERRREPCNT
  Drives,     \* what IDENTIFY may tell
  Asked,      \* <<sec, count>> of the transfers
  FileSecs,   \* length of the image file
  MaxCalls,   \* bound: calls
  MaxFaults   \* bound: failures

Devs == 0 .. 1
Sectors == 0 .. 2 * LowSecs - 1
\* LBA support, sectors per block of READ/WRITE MULTIPLE, and whether a reset
\* ends the multiple mode (it does or not, as the drive was built or told).
DriveType == [lba : BOOLEAN, multi : 0 .. SecCntMax, reverts : BOOLEAN]
\* What a sector holds: the call that wrote it and the place in its buffer.
Content == (0 .. MaxCalls) \X Sectors

ASSUME ConstAssumption ==
  /\ Kinds \subseteq {"bdhdd", "bdh8b16", "bdfile", "bdfile64"}
  /\ {LowSecs, LongSecs, SecCntMax, ErrRepCnt} \subseteq Nat \ {0}
  /\ {FileSecs, MaxCalls, MaxFaults} \subseteq Nat
  /\ Drives \subseteq DriveType
  /\ \A a \in Asked : a[1] \in Nat /\ a[2] \in Nat /\ a[1] + a[2] <= 2 * LowSecs

VARIABLES
  kind,    \* the driver of this bdkT
  drive,   \* the drives (both alike)
  ata,     \* the registers and what each drive does
  media,   \* the sectors of the drives; the file is media[0]
  len,     \* the length of the file
  bd,      \* bdkT of each device: initialised, single sector functions, multiCnt
  pc,      \* where the call is
  req,     \* the call
  at,      \* its sec, count, iCurSecs, iSec, iErrRep, loops left, and stage of an init
  buf,     \* what a get has put into its buffer
  ret,     \* the result of the last call
  uppers,  \* history: upper address fields used since the last reset
  mixed,   \* history: both fields were among them during the call
  hit,     \* history: a failure has happened during the call
  calls, faults

vars == <<kind, drive, ata, media, len, bd, pc, req, at, buf, ret, uppers, mixed,
          hit, calls, faults>>
env == <<kind, drive>>

IsFile == kind \in {"bdfile", "bdfile64"}
NoReq == [op |-> "none", dev |-> 0, sec |-> 0, count |-> 0, single |-> FALSE]
NoAt == [sec |-> 0, count |-> 0, cur |-> 0, iSec |-> 0, rep |-> 0, loops |-> 0,
         stage |-> "data"]
Lesser(a, b) == IF a < b THEN a ELSE b

Init ==
  /\ kind \in Kinds /\ drive \in Drives
  /\ ata = [sel |-> 0, upper |-> 0, st |-> [d \in Devs |-> "idle"], op |-> "none", lba |-> 0,
            left |-> 0, set |-> [d \in Devs |-> FALSE]]
  /\ media = [d \in Devs |-> [s \in Sectors |-> <<0, s>>]]
  /\ len = FileSecs
  /\ bd = [d \in Devs |-> [up |-> FALSE, single |-> FALSE, multi |-> 0]]
  /\ pc = "idle" /\ req = NoReq /\ at = NoAt /\ buf = <<>> /\ ret = "none"
  /\ uppers = {} /\ mixed = FALSE /\ hit = FALSE /\ calls = 0 /\ faults = 0

Fault == faults < MaxFaults /\ faults' = faults + 1 /\ hit' = TRUE
Fine == UNCHANGED <<faults, hit>>

Return(r) == pc' = "idle" /\ ret' = r /\ at' = NoAt
Goto(l) == pc' = l /\ UNCHANGED ret

-----------------------------------------------------------------------------
(* The drives                                                              *)

\* The status register shows the drive that is selected, and only that one can
\* be given a command; the address and the count are written for both.
Status(a) == a.st[a.sel]
Shows(a, x) == [a EXCEPT !.st[a.sel] = x]

\* SRST resets both drives and clears the address register; it may end the
\* multiple mode.  The drives of busy do not come back from it.
AfterReset(a, busy) ==
  [a EXCEPT !.sel = 0, !.upper = 0, !.op = "none", !.left = 0,
            !.st = [d \in Devs |-> IF d \in busy THEN "hung" ELSE "idle"],
            !.set = [d \in Devs |-> @[d] /\ ~drive.reverts]]

\* What the status tells at the end of a wait: a drive at work has its next
\* block ready or is done, or, in trouble, shows ERR, stays BSY, or is done early.
Comes(a) == IF Status(a) # "work" THEN a ELSE Shows(a, IF a.left = 0 THEN "idle" ELSE "drq")
Trouble(a) == IF Status(a) # "work" THEN {}
              ELSE {Shows(a, x) : x \in {"err", "hung", "idle"}} \ {Comes(a)}
SecCnt(reg) == IF reg = 0 THEN SecCntMax ELSE reg
Seen == {Comes(ata)} \cup Trouble(ata)
Wait(b) == \/ b = Comes(ata) /\ Fine
           \/ b \in Trouble(ata) /\ Fault

\* READ and WRITE MULTIPLE are refused outside the multiple mode, and what is not
\* on the drive is refused.
Takes(a, op, lba, left) ==
  LET refused == \/ kind = "bdh8b16" /\ op \in {"get", "put"} /\ ~a.set[a.sel]
                 \/ lba + left > 2 * LowSecs
  IN [a EXCEPT !.op = op, !.lba = lba, !.left = left,
               !.st[a.sel] = IF refused THEN "err" ELSE "work",
               !.set[a.sel] = @ \/ op = "setmultiple"]

-----------------------------------------------------------------------------
(* The ATA drivers                                                         *)

\* devlba_set: the device bit is set anew, the upper address bits are or-ed in
\* (here one bit stands for four).
Or(a, b) == IF a = 1 THEN 1 ELSE b
DevOnly(a, dev, upper) == [a EXCEPT !.sel = dev]                 \* mutant: bits 24 to 27 not set
DevOred(a, dev, upper) == [a EXCEPT !.sel = Or(@, dev), !.upper = Or(@, upper)]  \* mutant: device bit not cleared
DevLba(a, dev, upper) == [a EXCEPT !.sel = dev, !.upper = Or(@, upper)]

Upper == IF at.stage = "data" THEN at.sec \div LowSecs ELSE 0
Select(a, seen) == /\ ata' = DevLba(a, req.dev, Upper)
                   /\ uppers' = seen \cup {Upper}
                   /\ mixed' = (mixed \/ uppers' = {0, 1})

\* BSY, DRQ and ERR clear.
QuietIfOurs(a) == a.sel # req.dev \/ Status(a) = "idle"   \* mutant: only our drive is tested
Quiet(a) == Status(a) = "idle"

\* The end of readyforcmd: of the drive now selected only BSY and DRDY are tested.
Proceed == IF Status(ata') = "hung" THEN Return("fail") ELSE Goto("send") /\ UNCHANGED at

\* readyforcmd when the drive selected so far is ready, whichever it is.
Ready ==
  /\ pc = "ready"
  /\ \E b \in Seen : Wait(b) /\ Quiet(b) /\ Select(b, uppers)
  /\ Proceed
  /\ UNCHANGED <<env, media, len, bd, req, buf, calls>>

\* It is not, and is reset by bdkT.reset, whose result is not looked at: drive 0
\* is waited for again, and drive 1 may have stayed busy.
NoReset ==      \* mutant: not ready is an error
  /\ pc = "ready" /\ ~Quiet(Comes(ata)) /\ Return("fail") /\ hit' = hit
  /\ UNCHANGED <<env, ata, media, len, bd, req, buf, uppers, mixed, calls, faults>>
ReadyByReset ==
  /\ pc = "ready"
  /\ \E b \in Seen, busy \in {{}, {1}} :
       /\ IF busy = {} THEN Wait(b) ELSE b = Comes(ata) /\ Fault
       /\ ~Quiet(b) /\ Select(AfterReset(b, busy), {})
  /\ Proceed
  /\ UNCHANGED <<env, media, len, bd, req, buf, calls>>
StillNotOk ==
  /\ pc = "ready" /\ ~Quiet(Comes(ata)) /\ Fault
  /\ \E busy \in {{0}, Devs} : ata' = AfterReset(ata, busy)
  /\ uppers' = {} /\ Return("fail")
  /\ UNCHANGED <<env, media, len, bd, req, buf, mixed, calls>>

\* BSY, or no DRDY, once the device has been selected.
SuddenlyBusy ==
  /\ pc = "ready" /\ Quiet(Comes(ata)) /\ Fault
  /\ Select([Comes(ata) EXCEPT !.st[req.dev] = "hung"], uppers)
  /\ Return("fail")
  /\ UNCHANGED <<env, media, len, bd, req, buf, calls>>

\* iCurSecs: the sector count register has 8 bits, 0 asks for SECCNT_MAX.
Chunk(dev, count) == IF bd[dev].single THEN 1
                     ELSE IF count < SecCntMax THEN count ELSE 0
CurSecs(c) == IF c = 0 THEN SecCntMax ELSE c

\* iLoops, or the single sectors: the commands that a transfer takes.
Passes(dev, count) ==
  IF bd[dev].single THEN count
  ELSE count \div SecCntMax + (IF count % SecCntMax # 0 THEN 1 ELSE 0)
Pass(dev, sec, count, loops) ==
  [NoAt EXCEPT !.sec = sec, !.count = count, !.cur = Chunk(dev, count), !.loops = loops]

\* sendcmd with the registers written before it.
Send ==
  /\ pc = "send"
  /\ LET lba == ata.upper * LowSecs + (at.sec % LowSecs)
     IN ata' = CASE at.stage = "identify" -> Takes(ata, "identify", 0, 1)
                 [] at.stage = "setmultiple" -> Takes(ata, "setmultiple", 0, 0)
                 [] OTHER -> Takes(ata, req.op, lba, SecCnt(at.cur % SecCntMax))
  /\ Goto("status")
  /\ UNCHANGED <<env, media, len, bd, req, at, buf, uppers, mixed, hit, calls, faults>>

\* checkstatus and the test of DRQ.
AlsoErr(b) == Status(b) # "hung"      \* mutant: ERR is not tested between blocks
StatusOk(b) == Status(b) = (IF at.stage = "setmultiple" THEN "idle" ELSE "drq")

\* bdh8b16 asks for a chunk again when its first status is bad, from a drive
\* made ready again.
Retries == kind = "bdh8b16" /\ req.op = "get" /\ at.stage = "data" /\ at.iSec = 0
RepForEver ==      \* mutant: iErrRep is not tested
  /\ pc = "status" /\ Retries
  /\ \E b \in Seen : Wait(b) /\ ~StatusOk(b) /\ ata' = b
  /\ at' = [at EXCEPT !.rep = @ + 1] /\ Goto("ready")
  /\ UNCHANGED <<env, media, len, bd, req, buf, uppers, mixed, calls>>
RepUncounted ==    \* mutant: iErrRep is not counted
  /\ pc = "status" /\ Retries /\ at.rep + 1 < ErrRepCnt
  /\ \E b \in Seen : Wait(b) /\ ~StatusOk(b) /\ ata' = b
  /\ at' = at /\ Goto("ready")
  /\ UNCHANGED <<env, media, len, bd, req, buf, uppers, mixed, calls>>
RepOnError ==
  /\ pc = "status" /\ Retries /\ at.rep + 1 < ErrRepCnt
  /\ \E b \in Seen : Wait(b) /\ ~StatusOk(b) /\ ata' = b
  /\ at' = [at EXCEPT !.rep = @ + 1]
  /\ Goto("ready")
  /\ UNCHANGED <<env, media, len, bd, req, buf, uppers, mixed, calls>>

StatusBad ==
  /\ pc = "status" /\ ~(Retries /\ at.rep + 1 < ErrRepCnt)
  /\ \E b \in Seen : Wait(b) /\ ~StatusOk(b) /\ ata' = b
  /\ Return("fail")
  /\ UNCHANGED <<env, media, len, bd, req, buf, uppers, mixed, calls>>

\* The sectors between two looks at the status.
Block == IF kind = "bdh8b16" THEN bd[req.dev].multi ELSE 1
Moved(a, n) == [a EXCEPT !.lba = @ + n, !.left = @ - n,
                         !.st[a.sel] = IF a.op # "put" /\ a.left = n THEN "idle" ELSE "work"]

\* The next block of the command, the next command, or the end of the call.
Advance(cur) ==
  IF at.iSec + Block < cur
  THEN /\ at' = [at EXCEPT !.cur = cur, !.iSec = @ + Block] /\ Goto("status")
  ELSE IF at.loops > 1
  THEN /\ at' = Pass(req.dev, at.sec + cur, at.count - cur, at.loops - 1)
       /\ Goto("ready")
  ELSE Return("ok")

\* What the word loops of BDHDD_READ16S take from the data register.
Words(n) == [i \in 1 .. n |-> media[ata.sel][ata.lba + i - 1]]
GetBlock ==
  /\ pc = "status" /\ req.op = "get" /\ StatusOk(Comes(ata))
  /\ LET cur == CurSecs(at.cur)
         n == Lesser(Block, cur - at.iSec)
     IN /\ buf' = buf \o Words(n)
        /\ ata' = Moved(Comes(ata), n)
        /\ Advance(cur)
  /\ Fine
  /\ UNCHANGED <<env, media, len, bd, req, uppers, mixed, calls>>

\* A drive may store less of a block than it has taken.  The status after the last
\* block of a command is not looked at: such a drive shows ERR to the next command.
Stored(file, from, n, first) ==
  [file EXCEPT ![IF IsFile THEN 0 ELSE ata.sel] =
     [s \in Sectors |-> IF s \in from .. from + n - 1 THEN <<calls, first + s - from>> ELSE @[s]]]
PutBlock ==
  /\ pc = "status" /\ req.op = "put" /\ StatusOk(Comes(ata))
  /\ LET cur == CurSecs(at.cur)
         n == Lesser(Block, cur - at.iSec)
     IN /\ \E k \in 0 .. n :
             /\ media' = Stored(media, ata.lba, k, at.sec - req.sec + at.iSec)
             /\ \/ k = n /\ ata' = Moved(Comes(ata), n) /\ Fine
                \/ k < n /\ ata' = Shows(Moved(Comes(ata), n), "err") /\ Fault
        /\ Advance(cur)
  /\ UNCHANGED <<env, len, bd, req, buf, uppers, mixed, calls>>

\* The rest of an init: what IDENTIFY tells, and for bdh8b16 the multiple mode.
\* The single sector functions, once set, stay.
Up == bd' = [bd EXCEPT ![req.dev] = [up |-> TRUE, single |-> @.single \/ req.single,
                                     multi |-> drive.multi]]
Identified ==
  /\ pc = "status" /\ at.stage = "identify" /\ StatusOk(Comes(ata))
  /\ ata' = Moved(Comes(ata), 1) /\ Fine
  /\ \/ (~drive.lba \/ (kind = "bdh8b16" /\ drive.multi = 0)) /\ Return("fail") /\ UNCHANGED bd
     \/ drive.lba /\ kind = "bdhdd" /\ Up /\ Return("ok")
     \/ /\ drive.lba /\ kind = "bdh8b16" /\ drive.multi > 0
        /\ at' = [at EXCEPT !.stage = "setmultiple"] /\ Goto("ready") /\ UNCHANGED bd
  /\ UNCHANGED <<env, media, len, req, buf, uppers, mixed, calls>>

MultipleSet ==
  /\ pc = "status" /\ at.stage = "setmultiple" /\ StatusOk(Comes(ata))
  /\ ata' = Comes(ata) /\ Fine /\ Up /\ Return("ok")
  /\ UNCHANGED <<env, media, len, req, buf, uppers, mixed, calls>>

-----------------------------------------------------------------------------
(* The image file                                                          *)

Open ==
  /\ pc = "open"
  /\ \/ Fine /\ bd' = [bd EXCEPT ![0].up = TRUE] /\ Return("ok")
     \/ Fault /\ pc' = "exited" /\ UNCHANGED <<bd, at, ret>>
  /\ UNCHANGED <<env, ata, media, len, req, buf, uppers, mixed, calls>>

\* sec * secSize in a long of 32 bits, negative from its half on.
Offset(sec) == IF kind = "bdfile64" THEN sec
               ELSE IF sec % LongSecs < LongSecs \div 2 THEN sec % LongSecs ELSE -1
Seek ==
  /\ pc = "seek"
  /\ \/ Offset(at.sec) >= 0 /\ at' = [at EXCEPT !.sec = Offset(@)] /\ Goto("move")
     \/ Offset(at.sec) < 0 /\ Return("fail")
  /\ UNCHANGED <<env, ata, media, len, bd, req, buf, uppers, mixed, hit, calls, faults>>

\* read and write may move less than asked; the rest is tried again.
MoveOn(n) == IF n = at.count THEN Return("ok")
             ELSE /\ at' = [at EXCEPT !.sec = @ + n, !.count = @ - n] /\ Goto("move")
Some(most) == {n \in 0 .. most : n > 0 \/ at.count = 0}

ReadSome ==
  /\ pc = "move" /\ req.op = "get" /\ (at.sec < len \/ at.count = 0)
  /\ \E n \in Some(Lesser(at.count, len - at.sec)) :
       /\ buf' = buf \o [i \in 1 .. n |-> media[0][at.sec + i - 1]]
       /\ MoveOn(n)
  /\ Fine
  /\ UNCHANGED <<env, ata, media, len, bd, req, uppers, mixed, calls>>

\* At the end of the file read returns 0, and is called again.
ReadNothing ==
  /\ pc = "move" /\ req.op = "get" /\ at.sec >= len /\ at.count > 0
  /\ UNCHANGED vars

WriteSome ==
  /\ pc = "move" /\ req.op = "put"
  /\ \E n \in Some(at.count) :
       /\ media' = Stored(media, at.sec, n, req.count - at.count)
       /\ len' = IF n > 0 /\ at.sec + n > len THEN at.sec + n ELSE len
       /\ MoveOn(n)
  /\ Fine
  /\ UNCHANGED <<env, ata, bd, req, buf, uppers, mixed, calls>>

MoveFails ==
  /\ pc = "move" /\ Fault /\ Return("fail")
  /\ UNCHANGED <<env, ata, media, len, bd, req, buf, uppers, mixed, calls>>

-----------------------------------------------------------------------------
(* The calls through the bdkT                                              *)

Call(op, dev, sec, count, single) ==
  /\ pc = "idle" /\ calls < MaxCalls /\ calls' = calls + 1
  /\ dev = 0 \/ ~IsFile
  /\ req' = [op |-> op, dev |-> dev, sec |-> sec, count |-> count, single |-> single]
  /\ buf' = <<>> /\ mixed' = (uppers = {0, 1})
  /\ UNCHANGED <<env, len>>
Enter(l, a) == pc' = l /\ at' = a /\ ret' = "none"

\* The caller asks only for sectors of the device, unless it is a file.
Transfer(op) ==
  \E dev \in Devs, a \in Asked :
    /\ Call(op, dev, a[1], a[2], FALSE) /\ bd[dev].up
    /\ LET start == [NoAt EXCEPT !.sec = a[1], !.count = a[2]]
       IN CASE IsFile -> Enter("seek", start)
            [] op = "put" /\ bd[dev].single -> Return("fail")
            [] a[2] = 0 -> \/ Return("ok")
                           \/ bd[dev].single /\ Return("fail")  \* iRet is not set
            [] OTHER -> Enter("ready", Pass(dev, a[1], a[2], Passes(dev, a[2])))
    /\ hit' = FALSE
    /\ UNCHANGED <<ata, media, bd, uppers, faults>>
Get == Transfer("get")
Put == Transfer("put")

\* A drive that does not come back from a reset stays busy.
Reset == \/ ata' = AfterReset(ata, {}) /\ hit' = FALSE /\ UNCHANGED faults
         \/ \E busy \in SUBSET Devs \ {{}} : ata' = AfterReset(ata, busy) /\ Fault

\* bdkT.init, with BDK_FLAG_INITRESET or not.
InitDev ==
  \E dev \in Devs, single, reset \in BOOLEAN :
    /\ Call("init", dev, 0, 0, single) /\ ~bd[dev].up
    /\ IF IsFile THEN Enter("open", NoAt) ELSE Enter("ready", [NoAt EXCEPT !.stage = "identify"])
    /\ IF reset /\ ~IsFile THEN Reset /\ uppers' = {}
       ELSE UNCHANGED <<ata, uppers, faults>> /\ hit' = FALSE
    /\ UNCHANGED <<media, bd>>

ResetDev ==
  /\ Call("reset", 0, 0, 0, FALSE) /\ bd[0].up
  /\ IF IsFile THEN Return("ok") /\ hit' = FALSE /\ UNCHANGED <<ata, uppers, faults>>
     ELSE /\ Reset /\ uppers' = {}
          /\ Return(IF \E d \in Devs : ata'.st[d] = "hung" THEN "fail" ELSE "ok")
  /\ UNCHANGED <<media, bd>>

Cleanup ==
  \E dev \in Devs :
    /\ Call("cleanup", dev, 0, 0, FALSE) /\ bd[dev].up /\ Return("ok")
    /\ bd' = [bd EXCEPT ![dev].up = FALSE] /\ hit' = FALSE
    /\ UNCHANGED <<ata, media, uppers, faults>>

Ask == Get \/ Put \/ InitDev \/ ResetDev \/ Cleanup
Continue ==
  \/ Ready \/ ReadyByReset \/ StillNotOk \/ SuddenlyBusy \/ Send \/ RepOnError \/ StatusBad
  \/ GetBlock \/ PutBlock \/ Identified \/ MultipleSet
  \/ Open \/ Seek \/ ReadSome \/ ReadNothing \/ WriteSome \/ MoveFails
Next == Ask \/ Continue

\* A call that has begun goes on; the waits for a drive are counted loops.
Spec == Init /\ [][Next]_vars /\ WF_vars(Continue)

-----------------------------------------------------------------------------
(* Properties                                                              *)

AtaType == [sel : Devs, upper : 0 .. 1, st : [Devs -> {"idle", "work", "drq", "err", "hung"}],
            op : {"none", "identify", "setmultiple", "get", "put"},
            lba : 0 .. 2 * LowSecs, left : 0 .. SecCntMax, set : [Devs -> BOOLEAN]]
ReqType == [op : {"none", "init", "get", "put", "reset", "cleanup"}, dev : Devs,
            sec : Nat, count : Nat, single : BOOLEAN]
AtType == [sec : Nat, count : Nat, cur : 0 .. SecCntMax, iSec : Nat, rep : 0 .. ErrRepCnt,
           loops : Nat, stage : {"data", "identify", "setmultiple"}]

(* The registers stay in their widths, and the progress of a call within what  *)
(* it was asked for.                                                           *)
TypeOK ==
  /\ kind \in Kinds /\ drive \in Drives
  /\ ata \in AtaType /\ media \in [Devs -> [Sectors -> Content]] /\ len \in Nat
  /\ bd \in [Devs -> [up : BOOLEAN, single : BOOLEAN, multi : 0 .. SecCntMax]]
  /\ pc \in {"idle", "ready", "send", "status", "open", "seek", "move", "exited"}
  /\ req \in ReqType /\ at \in AtType
  /\ buf \in Seq(Content) /\ ret \in {"none", "ok", "fail"}
  /\ uppers \subseteq {0, 1} /\ mixed \in BOOLEAN /\ hit \in BOOLEAN
  /\ calls \in 0 .. MaxCalls /\ faults \in 0 .. MaxFaults

\* The 32 bit offset is not that of the sector. (mixed: lower sectors and sectors
\* from 2^24 up have been asked for without a reset in between, and the register
\* may hold the wrong upper bits.)
Wrapped == kind = "bdfile" /\ Offset(req.sec) # req.sec

(* A get that reports success has filled its buffer with the sectors asked     *)
(* for, in their order: through commands of at most 256 sectors, blocks,       *)
(* retries, resets, and reads that return less (bdhdd.c:471, bdh8b16.c:492,    *)
(* bdfile.c:40).  Not so when the upper address bits are stale (bdhdd.c:182)   *)
(* or the offset wraps (bdfile.c:55).                                          *)
GetDelivers ==
  ret = "ok" /\ req.op = "get" /\ ~mixed /\ ~Wrapped
    => buf = [i \in 1 .. req.count |-> media[req.dev][req.sec + i - 1]]

(* Whatever happens to it, a put changes no sector but those asked for, of the *)
(* device asked for, and each to its own part of the buffer; nothing else      *)
(* changes a sector.                                                           *)
PutConfined ==
  [][\A d \in Devs, s \in Sectors :
       media'[d][s] # media[d][s] =>
         \/ mixed \/ Wrapped
         \/ /\ req.op = "put" /\ d = req.dev /\ s \in req.sec .. req.sec + req.count - 1
            /\ media'[d][s] = <<calls, s - req.sec>>]_vars

\* The sector with number i of a transfer is in the last block of its command.
InLastBlock(i) ==
  LET rest == req.count - (i - (i % SecCntMax))
  IN (i % SecCntMax) \div Block = (Lesser(rest, SecCntMax) - 1) \div Block

(* A put that reports success has stored every sector, but for the last block  *)
(* of a command: the status that tells of its failure is never looked at       *)
(* (bdhdd.c:657, bdh8b16.c:687), and the next command resets the drive.        *)
PutStored ==
  ret = "ok" /\ req.op = "put" /\ ~mixed /\ ~Wrapped
    => \A i \in 0 .. req.count - 1 :
         \/ media[req.dev][req.sec + i] = <<calls, i>>
         \/ ~IsFile /\ hit /\ InLastBlock(i)

(* What a failed call leaves behind, a pending block, ERR or BSY, is gone when *)
(* the next one begins: a call fails by a failure of its own time only, or for *)
(* what it asks for, because the drive has lost the multiple mode in a reset,  *)
(* which nothing sets again (bdh8b16.c:212), or because drive 1 has not come   *)
(* back from a reset that only waited for drive 0 (bdhdd.c:197).               *)
FailsForCause ==
  ret = "fail" =>
    \/ hit \/ mixed \/ Wrapped
    \/ req.op = "put" /\ bd[req.dev].single
    \/ req.op = "get" /\ bd[req.dev].single /\ req.count = 0
    \/ req.op = "init" /\ (~drive.lba \/ drive.multi = 0)
    \/ kind = "bdh8b16" /\ drive.reverts /\ ~ata.set[req.dev]
    \/ req.dev = 1 /\ ata.st[1] = "hung"

(* A command is sent only to the drive of the call, with its BSY, DRQ and ERR  *)
(* clear (docs/Changelog:802), although DRQ and ERR are tested before it is    *)
(* selected only (bdhdd.c:191, 208), and never while the other drive is in the *)
(* middle of one, whose registers it would overwrite: whichever drive a call   *)
(* has left with a block pending or an error is reset, or done, before the     *)
(* other is turned to.                                                         *)
SendsToIdle ==
  pc = "send" => /\ ata.sel = req.dev /\ ata.st[req.dev] = "idle"
                 /\ \A d \in Devs : ata.st[d] \in {"idle", "hung"}

\* A read beyond the end of the image file.
PastEnd == IsFile /\ req.op = "get" /\ pc = "move" /\ at.sec + at.count > len

(* Every call returns, or ends the program; only a read beyond the end of an   *)
(* image file never does (bdfile.c:64).                                        *)
CallsReturn == pc # "idle" ~> pc \in {"idle", "exited"} \/ PastEnd
=============================================================================
