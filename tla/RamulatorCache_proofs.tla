------------------------ MODULE RamulatorCache_proofs ------------------------
(***************************************************************************)
(* Proofs about the memo of simulated timings, for any configurations,     *)
(* layers and old files.  The inductive invariant IInv adds to the checked *)
(* invariants what every row satisfies (RowSound), what a file without     *)
(* max_L looks like, and that a simulation is begun for a missing key only.*)
(***************************************************************************)
EXTENDS RamulatorCache, TLAPS

RowSound(row) == row.counts # "zero" /\ StandsFor(row.of, row.key)

RowsSound ==
    /\ \A k \in DOMAIN df : RowSound(df[k])
    /\ \A k \in DOMAIN disk.rows : RowSound(disk.rows[k])

OldUnstamped ==
    disk.header = "old" =>
        \A k \in DOMAIN disk.rows :
            disk.rows[k].of = disk.rows[k].key /\ disk.rows[k].key.max_L = NoMaxL

MissedFirst == phase \in {"generate", "simulate"} => Found(df, Asked) = {}

IInv ==
    /\ TypeOK
    /\ RowsSound
    /\ OldUnstamped
    /\ AnswersAreSimulated
    /\ MemoInStep
    /\ MissedFirst

----------------------------------------------------------------------------
(* Rounding up keeps a positive number of heads positive.                  *)
LEMMA CeilDivPositive ==
    ASSUME NEW a \in Nat \ {0}, NEW b \in Nat \ {0}
    PROVE  CeilDiv(a, b) \in Nat \ {0}
<1>1. a + b - 1 >= b /\ a + b - 1 \in Nat
  OBVIOUS
<1>2. (a + b - 1) \div b >= 1 /\ (a + b - 1) \div b \in Nat
  BY <1>1
<1> QED
  BY <1>2 DEF CeilDiv

(* What a layer is filed under is a key, with the max_L of the process.    *)
LEMMA KeyType ==
    ASSUME NEW c \in Configs, NEW l \in Layers
    PROVE  Key(c, l) \in Keys /\ Key(c, l).max_L = c.max_L
<1>1. c.num_hbm \in Nat \ {0} /\ l.pim_numOp \in Nat \ {0}
  BY CacheAssumption
<1>2. HeadsPerHbm(c, l) \in Nat \ {0}
  BY <1>1, CeilDivPositive DEF HeadsPerHbm
<1>3. c.max_L \in Nat /\ c.dhead \in Nat /\ c.pim_type \in PimTypes
        /\ c.power_constraint \in BOOLEAN /\ c.fast_mode \in BOOLEAN
        /\ l.n \in Nat /\ l.dbyte \in Nat
  BY CacheAssumption
<1>4. (IF c.fast_mode THEN MinimumHeads ELSE HeadsPerHbm(c, l)) \in Nat \ {0}
  BY <1>2, CacheAssumption
<1> QED
  BY <1>3, <1>4 DEF Key, Keys

LEMMA GroupType ==
    ASSUME NEW c \in Configs, NEW l \in Layers
    PROVE  num_ops_group(c, l) \in Nat
<1>1. HeadsPerHbm(c, l) \in Nat \ {0}
  BY CacheAssumption, CeilDivPositive DEF HeadsPerHbm
<1>2. CeilDiv(HeadsPerHbm(c, l), MinimumHeads) \in Nat
  BY <1>1, CacheAssumption, CeilDivPositive
<1> QED
  BY <1>2 DEF num_ops_group

(* Stamping the rows of a sound file gives sound rows.                     *)
LEMMA StampedSound ==
    ASSUME IInv, NEW c \in Configs
    PROVE  /\ Stamped(disk, c) \in Seq(Rows)
           /\ \A k \in DOMAIN Stamped(disk, c) : RowSound(Stamped(disk, c)[k])
<1>1. disk.rows \in Seq(Rows) /\ c.max_L \in Nat
  BY CacheAssumption DEF IInv, TypeOK, Files
<1>2. CASE disk.header # "old"
  BY <1>1, <1>2 DEF Stamped, IInv, RowsSound
<1>3. CASE disk.header = "old"
  <2> DEFINE r(k) == [disk.rows[k] EXCEPT !.key.max_L = c.max_L]
  <2>1. Stamped(disk, c) = [k \in 1..Len(disk.rows) |-> r(k)]
    BY <1>1, <1>3 DEF Stamped
  <2>2. ASSUME NEW k \in 1..Len(disk.rows)
        PROVE  r(k) \in Rows /\ RowSound(r(k))
    <3>1. disk.rows[k] \in Rows
      BY <1>1
    <3>2. disk.rows[k].counts # "zero" /\ disk.rows[k].of = disk.rows[k].key
            /\ disk.rows[k].key.max_L = NoMaxL
      BY <1>1, <1>3 DEF IInv, RowsSound, RowSound, OldUnstamped
    <3>3. r(k).key = [disk.rows[k].key EXCEPT !.max_L = c.max_L] /\ r(k).of = disk.rows[k].of
            /\ r(k).counts = disk.rows[k].counts
      BY <3>1 DEF Rows
    <3>4. r(k) \in Rows
      BY <3>1, <1>1 DEF Rows, Keys
    <3>5. disk.rows[k].of = [r(k).key EXCEPT !.max_L = NoMaxL]
      BY <3>1, <3>2, <3>3 DEF Rows, Keys
    <3> QED
      BY <3>2, <3>3, <3>4, <3>5 DEF RowSound, StandsFor
  <2> HIDE DEF r
  <2>3. Stamped(disk, c) \in [1..Len(disk.rows) -> Rows] /\ Len(disk.rows) \in Nat
    BY <1>1, <2>1, <2>2
  <2>4. Stamped(disk, c) \in Seq(Rows) /\ DOMAIN Stamped(disk, c) = 1..Len(disk.rows)
    BY <2>3
  <2> QED
    BY <2>1, <2>2, <2>4
<1> QED
  BY <1>2, <1>3

(* What joins the table is sound if the table, or the file read for it, is.*)
LEMMA LoggedSound ==
    ASSUME IInv, NEW row \in Rows, RowSound(row)
    PROVE  /\ Logged(row) \in Seq(Rows)
           /\ \A k \in DOMAIN Logged(row) : RowSound(Logged(row)[k])
<1> DEFINE known == IF df = <<>> THEN disk.rows ELSE df
<1>1. known \in Seq(Rows) /\ \A k \in DOMAIN known : RowSound(known[k])
  BY DEF IInv, TypeOK, Files, RowsSound
<1> HIDE DEF known
<1>2. Append(known, row) \in Seq(Rows)
  BY <1>1
<1>3. \A k \in DOMAIN Append(known, row) : RowSound(Append(known, row)[k])
  <2> SUFFICES ASSUME NEW k \in 1..Len(known) + 1
               PROVE  RowSound(Append(known, row)[k])
    BY <1>1
  <2>1. CASE k = Len(known) + 1
    BY <1>1, <2>1
  <2>2. CASE k \in 1..Len(known)
    BY <1>1, <2>2
  <2> QED
    BY <1>1, <2>1, <2>2
<1> QED
  BY <1>1, <1>2, <1>3 DEF Logged, known

(* A prefix of sound rows is sound, its last row cut or not.               *)
LEMMA CutSound ==
    ASSUME NEW table \in Seq(Rows), \A k \in DOMAIN table : RowSound(table[k]),
           NEW n \in 0..Len(table), NEW rows \in Cut(SubSeq(table, 1, n))
    PROVE  rows \in Seq(Rows) /\ \A k \in DOMAIN rows : RowSound(rows[k])
<1> DEFINE prefix == SubSeq(table, 1, n)
<1>1. prefix \in Seq(Rows) /\ Len(prefix) = n /\ DOMAIN prefix = 1..n
  OBVIOUS
<1>2. \A k \in 1..n : prefix[k] = table[k] /\ RowSound(prefix[k])
  OBVIOUS
<1> HIDE DEF prefix
<1>3. CASE rows = prefix
  BY <1>1, <1>2, <1>3
<1>4. ASSUME NEW c \in {"short", "missing"}, prefix # <<>>,
             rows = [prefix EXCEPT ![Len(prefix)].counts = c]
      PROVE  rows \in Seq(Rows) /\ \A k \in DOMAIN rows : RowSound(rows[k])
  <2>1. n \in 1..n
    BY <1>1, <1>4
  <2>2. prefix[n] \in Rows /\ RowSound(prefix[n])
    BY <1>1, <1>2, <2>1
  <2> DEFINE last == [prefix[n] EXCEPT !.counts = c]
  <2>3. last \in Rows /\ RowSound(last)
    BY <2>2, <1>4 DEF Rows, RowSound
  <2> HIDE DEF last
  <2>4. rows = [prefix EXCEPT ![n] = last]
    BY <1>1, <1>4 DEF last
  <2>5. rows \in [1..n -> Rows]
    <3>1. prefix \in [1..n -> Rows]
      BY <1>1
    <3> QED
      BY <3>1, <2>3, <2>4
  <2>6. \A k \in 1..n : rows[k] = IF k = n THEN last ELSE prefix[k]
    BY <1>1, <2>4
  <2>7. rows \in Seq(Rows) /\ DOMAIN rows = 1..n
    BY <2>5
  <2> QED
    BY <1>2, <2>3, <2>6, <2>7
<1> QED
  BY <1>3, <1>4 DEF Cut, prefix

----------------------------------------------------------------------------
LEMMA InitIInv == Init => IInv
<1> SUFFICES ASSUME Init PROVE IInv
  OBVIOUS
<1>1. df = <<>> /\ answer = {} /\ phase = "exited"
  BY DEF Init
<1>2. df \in Seq(Rows) /\ \A k \in DOMAIN df : RowSound(df[k])
  BY <1>1
<1>3. /\ disk \in Files
      /\ \A k \in DOMAIN disk.rows : RowSound(disk.rows[k])
      /\ OldUnstamped
  <2>1. CASE disk = [header |-> "absent", rows |-> <<>>]
    <3>1. disk.rows = <<>> /\ disk.header = "absent"
      BY <2>1
    <3>2. <<>> \in Seq(Rows) /\ \A k \in DOMAIN <<>> : FALSE
      OBVIOUS
    <3> QED
      BY <2>1, <3>1, <3>2 DEF Files, OldUnstamped
  <2>2. ASSUME NEW old \in OldFiles, disk = [header |-> "old", rows |-> old]
        PROVE  /\ disk \in Files
               /\ \A k \in DOMAIN disk.rows : RowSound(disk.rows[k])
               /\ OldUnstamped
    <3>1. disk \in Files /\ disk.rows = old
      BY <2>2, CacheAssumption DEF Files
    <3>2. \A k \in DOMAIN old : /\ old[k].of = old[k].key
                                /\ old[k].key.max_L = NoMaxL
                                /\ old[k].counts = "whole"
      BY CacheAssumption
    <3> QED
      BY <3>1, <3>2 DEF RowSound, StandsFor, OldUnstamped
  <2> QED
    BY <2>1, <2>2 DEF Init
<1>4. TypeOK
  BY <1>1, <1>2, <1>3 DEF Init, TypeOK, Ended
<1> QED
  BY <1>1, <1>2, <1>3, <1>4 DEF IInv, RowsSound, AnswersAreSimulated, MemoInStep, MissedFirst

Live == {"idle", "lookup", "generate", "simulate"}

(* A step that leaves the rows, the request and the answer alone.          *)
LEMMA QuietStep ==
    ASSUME IInv, UNCHANGED <<disk, df, config, layer, answer>>,
           first' \in BOOLEAN, temp' \subseteq {"yaml", "trace"},
           phase' \in Ended \/ (phase' \in Live /\ phase \in Live),
           phase' \in {"generate", "simulate"} => Found(df, Asked) = {}
    PROVE  IInv'
<1>1. TypeOK'
  BY DEF IInv, TypeOK, Live, Ended
<1>2. (RowsSound /\ OldUnstamped /\ AnswersAreSimulated)'
  BY DEF IInv, RowsSound, OldUnstamped, AnswersAreSimulated, Asked
<1>3. MemoInStep'
  BY DEF IInv, MemoInStep, Live, Ended
<1>4. MissedFirst'
  BY DEF IInv, MissedFirst, Asked
<1> QED
  BY <1>1, <1>2, <1>3, <1>4 DEF IInv

LEMMA StartIInv == IInv /\ Start => IInv'
<1> SUFFICES ASSUME IInv, Start PROVE IInv'
  OBVIOUS
<1>1. config' \in Configs /\ df' = Stamped(disk, config') /\ phase' = "idle"
        /\ answer' = {} /\ temp' = {} /\ UNCHANGED <<disk, layer, first>>
  BY DEF Start
<1>2. df' \in Seq(Rows) /\ \A k \in DOMAIN df' : RowSound(df'[k])
  BY <1>1, StampedSound
<1>3. TypeOK'
  BY <1>1, <1>2 DEF IInv, TypeOK, Ended
<1>4. RowsSound' /\ OldUnstamped'
  BY <1>1, <1>2 DEF IInv, RowsSound, OldUnstamped
<1> QED
  BY <1>1, <1>3, <1>4 DEF IInv, AnswersAreSimulated, MemoInStep, MissedFirst

LEMMA StartFailsIInv == IInv /\ StartFails => IInv'
<1> SUFFICES ASSUME IInv, StartFails PROVE IInv'
  OBVIOUS
<1>1. phase' = "raised" /\ answer' = {} /\ temp' = {}
        /\ UNCHANGED <<disk, df, config, layer, first>>
  BY DEF StartFails
<1> QED
  BY <1>1 DEF IInv, TypeOK, RowsSound, OldUnstamped, AnswersAreSimulated, MemoInStep,
              MissedFirst, Ended

LEMMA OutputIInv == ASSUME NEW l \in Layers PROVE IInv /\ output(l) => IInv'
<1> SUFFICES ASSUME IInv, output(l) PROVE IInv'
  OBVIOUS
<1>1. /\ phase = "idle" /\ layer' = l /\ answer' = {}
      /\ first' \in BOOLEAN /\ temp' \subseteq {"yaml", "trace"}
      /\ phase' = IF df = <<>> THEN "generate" ELSE "lookup"
      /\ UNCHANGED <<disk, df, config>>
  BY DEF output
<1>2. TypeOK'
  BY <1>1 DEF IInv, TypeOK
<1>3. RowsSound' /\ OldUnstamped'
  BY <1>1 DEF IInv, RowsSound, OldUnstamped
<1>4. MemoInStep'
  BY <1>1 DEF IInv, MemoInStep
<1>5. df = <<>> => \A key : Found(df, key) = {}
  BY DEF Found
<1>6. MissedFirst'
  BY <1>1, <1>5 DEF MissedFirst
<1> QED
  BY <1>1, <1>2, <1>3, <1>4, <1>6 DEF IInv, AnswersAreSimulated

(* An answer counts the banks of its kind of PIM, a natural number.        *)
LEMMA AnswerType ==
    ASSUME TypeOK, NEW of \in Keys, NEW counts \in {"whole", "short", "missing", "zero"},
           NEW buffer \in Nat
    PROVE  Answer(of, counts, buffer) \in Answers
<1>1. BanksPerMac(config.pim_type, buffer) \in Nat
  BY DEF BanksPerMac
<1>2. config.num_hbm \in Nat /\ num_ops_group(config, layer) \in Nat
  BY CacheAssumption, GroupType DEF TypeOK
<1>3. \A a, b, c \in Nat : a * b * c \in Nat
  OBVIOUS
<1>4. BanksPerMac(config.pim_type, buffer) * config.num_hbm
          * num_ops_group(config, layer) \in Nat
  BY <1>1, <1>2, <1>3
<1> QED
  BY <1>4 DEF Answer, Answers

LEMMA HitIInv == IInv /\ Hit => IInv'
<1> SUFFICES ASSUME IInv, Hit PROVE IInv'
  OBVIOUS
<1>1. PICK k \in Found(df, Asked) :
          IF df[k].counts = "missing"
          THEN phase' = "raised" /\ UNCHANGED answer
          ELSE phase' = "idle" /\ answer' = {CachedAnswer(df[k])}
  BY DEF Hit
<1>2. phase = "lookup" /\ UNCHANGED <<disk, df, config, layer, first, temp>>
  BY DEF Hit
<1>3. k \in DOMAIN df /\ df[k].key = Asked /\ df[k] \in Rows
  BY DEF Found, IInv, TypeOK
<1>4. CASE df[k].counts = "missing"
  BY <1>1, <1>2, <1>4, QuietStep DEF IInv, TypeOK, Ended
<1>5. CASE df[k].counts # "missing"
  <2>1. phase' = "idle" /\ answer' = {CachedAnswer(df[k])}
    BY <1>1, <1>5
  <2>2. num_ops_group(config, layer) \in Nat
    BY GroupType DEF IInv, TypeOK
  <2>3. CachedAnswer(df[k]) \in Answers
    BY <1>3, <2>2, AnswerType DEF CachedAnswer, Rows, IInv
  <2>4. CachedAnswer(df[k]).of = df[k].of
    BY DEF CachedAnswer, Answer
  <2>5. StandsFor(df[k].of, Asked)
    BY <1>3 DEF IInv, RowsSound, RowSound
  <2>6. TypeOK'
    BY <1>2, <2>1, <2>3 DEF IInv, TypeOK
  <2>7. Asked' = Asked
    BY <1>2 DEF Asked
  <2>8. AnswersAreSimulated'
    BY <2>1, <2>4, <2>5, <2>7 DEF AnswersAreSimulated
  <2>9. (RowsSound /\ OldUnstamped /\ MemoInStep /\ MissedFirst)'
    BY <1>2, <2>1 DEF IInv, RowsSound, OldUnstamped, MemoInStep, MissedFirst
  <2> QED
    BY <2>6, <2>8, <2>9 DEF IInv
<1> QED
  BY <1>4, <1>5

LEMMA SimulateIInv == IInv /\ Simulate => IInv'
<1> SUFFICES ASSUME IInv, Simulate PROVE IInv'
  OBVIOUS
<1> DEFINE row == [key |-> Asked, of |-> Asked, counts |-> "whole"]
<1>1. /\ df' = Logged(row)
      /\ disk' = [header |-> "lost", rows |-> <<>>]
      /\ phase' = "write" /\ temp' = {}
      /\ UNCHANGED <<config, layer, first, answer>>
  BY DEF Simulate, SimulateTo
<1>2. row \in Rows /\ RowSound(row)
  BY KeyType DEF Asked, Rows, RowSound, StandsFor, IInv, TypeOK
<1> HIDE DEF row
<1>3. df' \in Seq(Rows) /\ \A k \in DOMAIN df' : RowSound(df'[k])
  BY <1>1, <1>2, LoggedSound
<1>4. disk'.rows = <<>> /\ disk'.header = "lost" /\ disk' \in Files
  BY <1>1 DEF Files
<1>5. \A k \in DOMAIN disk'.rows : RowSound(disk'.rows[k])
  BY <1>4
<1>6. TypeOK'
  BY <1>1, <1>3, <1>4 DEF IInv, TypeOK
<1>7. AnswersAreSimulated'
  BY <1>1 DEF IInv, AnswersAreSimulated, Asked
<1> QED
  BY <1>1, <1>3, <1>4, <1>5, <1>6, <1>7
     DEF IInv, RowsSound, OldUnstamped, MemoInStep, MissedFirst

LEMMA WrittenIInv == IInv /\ Written => IInv'
<1> SUFFICES ASSUME IInv, Written PROVE IInv'
  OBVIOUS
<1>1. /\ disk' = [header |-> "new", rows |-> df]
      /\ \/ phase' = "lookup" /\ UNCHANGED answer
         \/ phase' = "idle" /\ answer' = {FreshAnswer}
      /\ UNCHANGED <<df, config, layer, first, temp>>
  BY DEF Written
<1>2. disk' \in Files /\ disk'.rows = df /\ disk'.header = "new"
  BY <1>1 DEF IInv, TypeOK, Files
<1>3. Asked \in Keys /\ Asked' = Asked
  BY <1>1, KeyType DEF Asked, IInv, TypeOK
<1>4. FreshAnswer \in Answers /\ FreshAnswer.of = Asked
  BY <1>3, AnswerType DEF FreshAnswer, Answer, IInv
<1>5. TypeOK'
  BY <1>1, <1>2, <1>4 DEF IInv, TypeOK
<1>6. (RowsSound /\ OldUnstamped)'
  BY <1>1, <1>2 DEF IInv, RowsSound, OldUnstamped
<1>7. AnswersAreSimulated'
  BY <1>1, <1>3, <1>4 DEF IInv, AnswersAreSimulated, StandsFor
<1>8. MemoInStep'
  BY <1>1, <1>2 DEF MemoInStep, Stamped
<1>9. MissedFirst'
  BY <1>1 DEF MissedFirst
<1> QED
  BY <1>5, <1>6, <1>7, <1>8, <1>9 DEF IInv

LEMMA KilledWritingIInv == IInv /\ KilledWriting => IInv'
<1> SUFFICES ASSUME IInv, KilledWriting PROVE IInv'
  OBVIOUS
<1>1. phase' = "killed" /\ UNCHANGED <<df, config, layer, first, temp, answer>>
  BY DEF KilledWriting
<1>2. CASE UNCHANGED disk
  BY <1>1, <1>2, QuietStep DEF IInv, TypeOK, Ended
<1>3. ASSUME NEW n \in 0..Len(df), NEW rows \in Cut(SubSeq(df, 1, n)),
             disk' = [header |-> "new", rows |-> rows]
      PROVE  IInv'
  <2>1. rows \in Seq(Rows) /\ \A k \in DOMAIN rows : RowSound(rows[k])
    BY CutSound DEF IInv, TypeOK, RowsSound
  <2>2. disk' \in Files /\ disk'.rows = rows /\ disk'.header = "new"
    BY <1>3, <2>1 DEF Files
  <2>3. TypeOK'
    BY <1>1, <2>2 DEF IInv, TypeOK, Ended
  <2>4. (RowsSound /\ OldUnstamped)'
    BY <1>1, <2>1, <2>2 DEF IInv, RowsSound, OldUnstamped
  <2> QED
    BY <1>1, <2>3, <2>4 DEF IInv, AnswersAreSimulated, Asked, MemoInStep, MissedFirst
<1> QED
  BY <1>2, <1>3 DEF KilledWriting

LEMMA RemovedIInv == IInv /\ Removed => IInv'
<1> SUFFICES ASSUME IInv, Removed PROVE IInv'
  OBVIOUS
<1>1. phase \in Ended /\ UNCHANGED <<df, config, phase, layer, first, temp, answer>>
        /\ disk' = [header |-> "absent", rows |-> <<>>]
  BY DEF Removed
<1>2. disk'.rows = <<>> /\ disk'.header = "absent" /\ disk' \in Files
  BY <1>1 DEF Files
<1>3. \A k \in DOMAIN disk'.rows : RowSound(disk'.rows[k])
  BY <1>2
<1>4. TypeOK'
  BY <1>1, <1>2 DEF IInv, TypeOK
<1> QED
  BY <1>1, <1>2, <1>3, <1>4
     DEF IInv, RowsSound, OldUnstamped, AnswersAreSimulated, Asked, MemoInStep, MissedFirst, Ended

LEMMA NextIInv == IInv /\ [Next]_vars => IInv'
<1> SUFFICES ASSUME IInv, [Next]_vars PROVE IInv'
  OBVIOUS
<1>1. CASE Start \/ StartFails \/ \E l \in Layers : output(l)
  BY <1>1, StartIInv, StartFailsIInv, OutputIInv
<1>2. CASE Hit \/ Simulate \/ Written \/ KilledWriting \/ Removed
  BY <1>2, HitIInv, SimulateIInv, WrittenIInv, KilledWritingIInv, RemovedIInv
<1>3. CASE Miss
  BY <1>3, QuietStep DEF Miss, Live, IInv, TypeOK
<1>4. CASE Generate
  <2>1. Found(df, Asked) = {} /\ temp \cup {"trace"} \subseteq {"yaml", "trace"}
    BY <1>4 DEF Generate, IInv, MissedFirst, TypeOK
  <2> QED
    BY <1>4, <2>1, QuietStep DEF Generate, Live, IInv, TypeOK
<1>5. CASE GenerateFails \/ BinaryMissing \/ SimulationFails
  <2>1. \E left : left \subseteq {"yaml", "trace"} /\ Raise(left)
    BY <1>5 DEF GenerateFails, BinaryMissing, SimulationFails
  <2> QED
    BY <2>1, QuietStep DEF Raise, Ended, IInv, TypeOK
<1>6. CASE Killed \/ Exit
  BY <1>6, QuietStep DEF Killed, Exit, Ended, IInv, TypeOK
<1>7. CASE UNCHANGED vars
  BY <1>7 DEF vars, IInv, TypeOK, RowsSound, OldUnstamped, AnswersAreSimulated, Asked,
              MemoInStep, MissedFirst
<1> QED
  BY <1>1, <1>2, <1>3, <1>4, <1>5, <1>6, <1>7 DEF Next

LEMMA Invariance == Spec => []IInv
<1> QED
  BY InitIInv, NextIInv, PTL DEF Spec

----------------------------------------------------------------------------
(* Every value the wrapper keeps has its type, whatever is asked of it.    *)
THEOREM TypeCorrect == Spec => []TypeOK
<1>1. IInv => TypeOK
  BY DEF IInv
<1> QED
  BY <1>1, Invariance, PTL

(* Whatever processes ran, failed or were killed before (ramulator_wrapper *)
(* output, run, update_log_file), an answer is the result of a simulation  *)
(* of what was asked, up to the max_L an old file does not record.         *)
THEOREM OnlySimulatedAnswers == Spec => []AnswersAreSimulated
<1>1. IInv => AnswersAreSimulated
  BY DEF IInv
<1> QED
  BY <1>1, Invariance, PTL

(* No failed simulation leaves a row, in the table or in ramulator.out.    *)
THEOREM NoFailedRows == Spec => []NoZeroCycleRow
<1>1. IInv => NoZeroCycleRow
  BY DEF IInv, RowsSound, RowSound, NoZeroCycleRow
<1> QED
  BY <1>1, Invariance, PTL

(* Between two writes ramulator.out holds what the table holds.            *)
THEOREM MemoKept == Spec => []MemoInStep
<1>1. IInv => MemoInStep
  BY DEF IInv
<1> QED
  BY <1>1, Invariance, PTL

(* No process simulates what the file, as it reads it, already holds.      *)
THEOREM NoSecondSimulation == Spec => []NothingSimulatedAgain
<1>1. ASSUME IInv PROVE NothingSimulatedAgain
  <2>1. MemoInStep /\ MissedFirst
    BY <1>1 DEF IInv
  <2> QED
    BY <2>1 DEF MemoInStep, MissedFirst, NothingSimulatedAgain
<1> QED
  BY <1>1, Invariance, PTL
=============================================================================
