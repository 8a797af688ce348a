--------------------------- MODULE RamulatorCache ---------------------------
(***************************************************************************)
(* ramulator_wrapper.py: the timing of a PIM layer is looked up in a table *)
(* kept in ramulator.out; what is not there is simulated and appended, and *)
(* the whole file is written again.  Processes use the file one after the  *)
(* other; each may be killed at any point, fail at any step of a           *)
(* simulation, or start from a file an older version left behind.          *)
(*                                                                         *)
(* A row carries the key it is filed under and, in "of", the key it was    *)
(* simulated for; of its counts only their being usable matters.  dhead is *)
(* that of the model: a layer's k is never another.                        *)
(***************************************************************************)
EXTENDS Naturals, Sequences

CONSTANTS
    Configs,       \* [max_L, num_hbm, dhead, pim_type, power_constraint, fast_mode]
    Layers,        \* [n, dbyte, pim_numOp]
    OldFiles,      \* what a version without max_L may have left: rows
    MinimumHeads,  \* 64
    MaxRows        \* bound: a layer that needs a further row is not asked for

PimTypes == {"BA", "BG", "BUFFER"}
NoMaxL == 0        \* the max_L of a row that was filed without one
Keys == [L : Nat, max_L : Nat, nhead : Nat \ {0}, dhead : Nat, dbyte : Nat,
         pim_type : PimTypes, power_constraint : BOOLEAN]
Rows == [key : Keys, of : Keys, counts : {"whole", "short", "missing", "zero"}]

ASSUME CacheAssumption ==
    /\ Configs \subseteq [max_L : Nat \ {NoMaxL}, num_hbm : Nat \ {0}, dhead : Nat,
                          pim_type : PimTypes, power_constraint : BOOLEAN,
                          fast_mode : BOOLEAN]
    /\ Layers \subseteq [n : Nat, dbyte : Nat, pim_numOp : Nat \ {0}]
    /\ OldFiles \subseteq Seq(Rows)
    /\ \A old \in OldFiles : \A k \in DOMAIN old :
           old[k].of = old[k].key /\ old[k].key.max_L = NoMaxL /\ old[k].counts = "whole"
    /\ MinimumHeads \in Nat \ {0}
    /\ MaxRows \in Nat

VARIABLES
    disk,    \* ramulator.out: its header ("absent", "lost", "old", "new") and rows
    df,      \* the table in memory
    config,  \* what the process was started with
    phase,   \* where the process is
    layer,   \* the layer it is asked for
    first,   \* the table was empty when it was asked
    temp,    \* the files this process's simulation has made and not removed
    answer   \* the last answer, if any

vars == <<disk, df, config, phase, layer, first, temp, answer>>

Ended == {"exited", "killed", "raised"}

CeilDiv(a, b) == (a + b - 1) \div b
----------------------------------------------------------------------------
(* Mutant of HeadsPerHbm: rounded down, few heads on many stacks are none. *)
HeadsPerHbmFloor(c, l) == l.pim_numOp \div c.num_hbm

HeadsPerHbm(c, l) == CeilDiv(l.pim_numOp, c.num_hbm)
num_ops_group(c, l) == IF c.fast_mode THEN CeilDiv(HeadsPerHbm(c, l), MinimumHeads) ELSE 1

Key(c, l) ==
    [L |-> l.n, max_L |-> c.max_L,
     nhead |-> IF c.fast_mode THEN MinimumHeads ELSE HeadsPerHbm(c, l),
     dhead |-> c.dhead, dbyte |-> l.dbyte,
     pim_type |-> c.pim_type, power_constraint |-> c.power_constraint]

Asked == Key(config, layer)

(* Mutant of Found: the table is searched without regard to max_L.         *)
FoundForAnyMaxL(table, key) ==
    {k \in DOMAIN table : [table[k].key EXCEPT !.max_L = key.max_L] = key}

Found(table, key) == {k \in DOMAIN table : table[k].key = key}

(* A file without the column gets it, filled with this process's max_L.    *)
Stamped(file, c) ==
    IF file.header = "old"
    THEN [k \in DOMAIN file.rows |-> [file.rows[k] EXCEPT !.key.max_L = c.max_L]]
    ELSE file.rows

(* Reads of a bank are counted once per bank that makes them.              *)
BanksPerMac(pim_type, buffer) ==
    CASE pim_type = "BA" -> 64 [] pim_type = "BG" -> 16 [] OTHER -> buffer

Answer(of, counts, buffer) ==
    [of |-> of, counts |-> counts,
     mem_acc |-> BanksPerMac(config.pim_type, buffer) * config.num_hbm
                     * num_ops_group(config, layer)]
CachedAnswer(row) == Answer(row.of, row.counts, 2)
FreshAnswer == Answer(Asked, "whole", 1)
----------------------------------------------------------------------------
Init ==
    /\ disk \in {[header |-> "absent", rows |-> <<>>]}
                    \cup {[header |-> "old", rows |-> old] : old \in OldFiles}
    /\ df = <<>>
    /\ config \in Configs
    /\ layer \in Layers
    /\ phase = "exited"
    /\ first = FALSE
    /\ temp = {}
    /\ answer = {}

(* Mutant of Start: the table starts empty whatever the file holds.        *)
StartEmpty ==
    /\ phase \in Ended
    /\ disk.header # "lost"
    /\ config' \in Configs
    /\ df' = <<>>
    /\ phase' = "idle"
    /\ temp' = {}
    /\ answer' = {}
    /\ UNCHANGED <<disk, layer, first>>

(* A process starts and reads the file, if there is one.                   *)
Start ==
    /\ phase \in Ended
    /\ disk.header # "lost"
    /\ config' \in Configs
    /\ df' = Stamped(disk, config')
    /\ phase' = "idle"
    /\ temp' = {}
    /\ answer' = {}
    /\ UNCHANGED <<disk, layer, first>>

(* read_csv raises on a file that lost even its header.                    *)
StartFails ==
    /\ phase \in Ended
    /\ disk.header = "lost"
    /\ phase' = "raised"
    /\ temp' = {}
    /\ answer' = {}
    /\ UNCHANGED <<disk, df, config, layer, first>>

(* With an empty table the layer is run before it is looked up.            *)
output(l) ==
    /\ phase = "idle"
    /\ Len(df) < MaxRows \/ Found(df, Key(config, l)) # {}
    /\ layer' = l
    /\ first' = (df = <<>>)
    /\ phase' = IF df = <<>> THEN "generate" ELSE "lookup"
    /\ temp' = IF df = <<>> THEN {"yaml"} ELSE {}
    /\ answer' = {}
    /\ UNCHANGED <<disk, df, config>>

Hit ==
    /\ phase = "lookup"
    /\ \E k \in Found(df, Asked) :
          /\ \A m \in Found(df, Asked) : k <= m
          /\ IF df[k].counts = "missing"
             THEN phase' = "raised" /\ UNCHANGED answer
             ELSE phase' = "idle" /\ answer' = {CachedAnswer(df[k])}
    /\ UNCHANGED <<disk, df, config, layer, first, temp>>

Miss ==
    /\ phase = "lookup"
    /\ Found(df, Asked) = {}
    /\ phase' = "generate"
    /\ first' = FALSE
    /\ temp' = {"yaml"}
    /\ UNCHANGED <<disk, df, config, layer, answer>>

Raise(left) ==
    /\ phase' = "raised"
    /\ temp' = left
    /\ UNCHANGED <<disk, df, config, layer, first, answer>>

Generate ==
    /\ phase = "generate"
    /\ phase' = "simulate"
    /\ temp' = temp \cup {"trace"}
    /\ UNCHANGED <<disk, df, config, layer, first, answer>>

(* No generator, or one that fails, perhaps while it writes the trace.     *)
GenerateFails ==
    /\ phase = "generate"
    /\ \E left \in {{}, {"trace"}} : Raise(left)

(* The binary is looked for when the trace is there; no clause removes it. *)
BinaryMissing == phase = "simulate" /\ Raise({"trace"})

(* ramulator2 fails, or prints no memory_system_cycles.                    *)
SimulationFails == phase = "simulate" /\ Raise({})

Logged(row) ==
    LET known == IF df = <<>> THEN disk.rows ELSE df
    IN  IF \E k \in DOMAIN known : known[k] = row THEN known ELSE Append(known, row)

(* The result joins the table; to_csv truncates the file.                  *)
SimulateTo(counts) ==
    /\ phase = "simulate"
    /\ \E c \in counts : df' = Logged([key |-> Asked, of |-> Asked, counts |-> c])
    /\ disk' = [header |-> "lost", rows |-> <<>>]
    /\ phase' = "write"
    /\ temp' = {}
    /\ UNCHANGED <<config, layer, first, answer>>

(* Mutant of Simulate: an output without cycles is taken for a result.     *)
SimulateAnything == SimulateTo({"whole", "zero"})

Simulate == SimulateTo({"whole"})

(* Mutant of Written: the file gets the new row only.                      *)
WrittenAlone ==
    /\ phase = "write"
    /\ disk' = [header |-> "new", rows |-> <<df[Len(df)]>>]
    /\ IF first THEN phase' = "lookup" /\ UNCHANGED answer
                ELSE phase' = "idle" /\ answer' = {FreshAnswer}
    /\ UNCHANGED <<df, config, layer, first, temp>>

Written ==
    /\ phase = "write"
    /\ disk' = [header |-> "new", rows |-> df]
    /\ IF first THEN phase' = "lookup" /\ UNCHANGED answer
                ELSE phase' = "idle" /\ answer' = {FreshAnswer}
    /\ UNCHANGED <<df, config, layer, first, temp>>

(* What may reach the disk before a kill: nothing, or some rows, the last  *)
(* one cut in its last number or before it.                                *)
Cut(rows) ==
    {rows} \cup {[rows EXCEPT ![Len(rows)].counts = c] :
                    c \in IF rows # <<>> /\ rows[Len(rows)].counts = "whole"
                          THEN {"short", "missing"} ELSE {}}

KilledWriting ==
    /\ phase = "write"
    /\ phase' = "killed"
    /\ \/ UNCHANGED disk
       \/ \E n \in 0..Len(df) : \E rows \in Cut(SubSeq(df, 1, n)) :
             disk' = [header |-> "new", rows |-> rows]
    /\ UNCHANGED <<df, config, layer, first, temp, answer>>

Killed ==
    /\ phase \notin Ended \cup {"write"}
    /\ phase' = "killed"
    /\ UNCHANGED <<disk, df, config, layer, first, temp, answer>>

Exit ==
    /\ phase = "idle"
    /\ phase' = "exited"
    /\ UNCHANGED <<disk, df, config, layer, first, temp, answer>>

(* The user removes the file between two runs.                             *)
Removed ==
    /\ phase \in Ended
    /\ disk.header # "absent"
    /\ disk' = [header |-> "absent", rows |-> <<>>]
    /\ UNCHANGED <<df, config, phase, layer, first, temp, answer>>

Next ==
    \/ Start \/ StartFails \/ (\E l \in Layers : output(l))
    \/ Hit \/ Miss
    \/ Generate \/ GenerateFails \/ BinaryMissing \/ SimulationFails \/ Simulate
    \/ Written \/ KilledWriting \/ Killed \/ Exit \/ Removed

Spec == Init /\ [][Next]_vars
----------------------------------------------------------------------------
Files == [header : {"absent", "lost", "old", "new"}, rows : Seq(Rows)]
Answers == [of : Keys, counts : {"whole", "short", "missing", "zero"}, mem_acc : Nat]

TypeOK ==
    /\ disk \in Files
    /\ df \in Seq(Rows)
    /\ config \in Configs
    /\ layer \in Layers
    /\ phase \in Ended \cup {"idle", "lookup", "generate", "simulate", "write"}
    /\ first \in BOOLEAN
    /\ temp \subseteq {"yaml", "trace"}
    /\ answer \subseteq Answers

(* The result of simulating "of" may be given out for "key": it is the     *)
(* same key, but for the max_L an old file did not record.                 *)
StandsFor(of, key) ==
    of = key \/ (of.max_L = NoMaxL /\ of = [key EXCEPT !.max_L = NoMaxL])

(***************************************************************************)
(* Whatever processes ran, failed or were killed before: an answer is the  *)
(* result of a simulation of exactly what was asked (model, length, heads, *)
(* kind of PIM, power constraint), up to the unknown max_L of old rows.    *)
(***************************************************************************)
AnswersAreSimulated == \A a \in answer : StandsFor(a.of, Asked)

(***************************************************************************)
(* A simulation that fails or prints no cycles leaves no row behind, in    *)
(* memory or in the file.                                                  *)
(***************************************************************************)
NoZeroCycleRow ==
    /\ \A k \in DOMAIN df : df[k].counts # "zero"
    /\ \A k \in DOMAIN disk.rows : disk.rows[k].counts # "zero"

(***************************************************************************)
(* A restart loses nothing: no process simulates what the file, as it      *)
(* reads it, already holds.                                                *)
(***************************************************************************)
NothingSimulatedAgain ==
    phase \in {"generate", "simulate"} => Found(Stamped(disk, config), Asked) = {}

(***************************************************************************)
(* Between two writes the file holds what the table holds: a later kill or *)
(* failure costs none of the rows logged before.                           *)
(***************************************************************************)
MemoInStep ==
    phase \in {"idle", "lookup", "generate", "simulate"} => df = Stamped(disk, config)
=============================================================================
