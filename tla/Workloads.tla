----------------------------- MODULE Workloads ------------------------------
(***************************************************************************)
(* The two programs that load a server: cache_ETC.cc, whose mix of gets,   *)
(* sets and deletes is planned in counters that are drawn down at random,  *)
(* and cache_load.cc, which rehearses its requests once without a server   *)
(* and takes its keys from a table of fixed size.                          *)
(*                                                                         *)
(* A request is a call of CacheClient; here it is the counters it changes  *)
(* and, in cache_load.cc, the index of its key.  Arguments are not         *)
(* negative, and both are given.                                           *)
(***************************************************************************)
EXTENDS Integers

CONSTANTS
    EtcSizes, LoadSizes,   \* the first argument of cletc.out, the second of cload.out
    Table                  \* the size of the arrays keys and values of cache_load.cc

ASSUME WorkloadAssumption ==
    /\ EtcSizes \subseteq Nat /\ LoadSizes \subseteq Nat
    /\ Table \in Nat

VARIABLES
    program,             \* "etc" or "load"
    phase,               \* "fill", "rehearse", "run" or "crashed" (past the table)
    gets, sets, dels,    \* how many are planned still
    left,                \* numremm; totalreqs less the requests made
    plan,                \* the counters at first: setsave, getsave and all
    filled,              \* how many entries of the table are filled
    key                  \* the index of the last request's key; -1 for none or a bad key

workVars == <<program, phase, gets, sets, dels, left, plan, filled, key>>
loadVars == <<plan, filled, key>>

EtcInit ==
    /\ program = "etc" /\ phase = "run"
    /\ sets \in EtcSizes
    /\ gets = 30 * sets /\ dels = 6 * sets
    /\ left = gets + sets + dels
    /\ plan = [gets |-> gets, sets |-> sets, total |-> left] /\ filled = 100 /\ key = -1

LoadInit ==
    /\ program = "load" /\ phase = "fill"
    /\ left \in LoadSizes
    /\ gets = 7 * (left \div 10) /\ sets = 3 * (left \div 10) /\ dels = 0
    /\ plan = [gets |-> gets, sets |-> sets, total |-> left] /\ filled = 0 /\ key = -1

WorkInit == EtcInit \/ LoadInit

-----------------------------------------------------------------------------
\* cache_ETC.cc: the loop, with act for actchosen.

\* Fault: the for loop does not count.
EtcNextWhile == left' = gets' + sets' + dels'

\* numremm = getamt+setamt+delamt, and the for loop's numremm--
EtcNext == left' = gets' + sets' + dels' - 1

EtcDraw(act) ==
    /\ program = "etc" /\ left > 0
    /\ act \in 1 .. left
    /\ EtcNext
    /\ UNCHANGED <<program, phase, loadVars>>

EtcGet ==
    /\ gets' = gets - 1
    /\ UNCHANGED <<sets, dels>>
    /\ \E act \in 1 .. left : act < gets /\ EtcDraw(act)

EtcSet ==
    /\ sets' = sets - 1
    /\ UNCHANGED <<gets, dels>>
    /\ \E act \in 1 .. left : act >= gets /\ act < gets + sets /\ EtcDraw(act)

EtcDel ==
    /\ dels' = dels - 1
    /\ UNCHANGED <<gets, sets>>
    /\ \E act \in 1 .. left : act >= gets + sets /\ EtcDraw(act)

-----------------------------------------------------------------------------
\* cache_load.cc

\* The table is filled without a look at its size.
LoadFill ==
    /\ phase = "fill" /\ filled < sets
    /\ IF filled < Table THEN filled' = filled + 1 /\ UNCHANGED phase
                         ELSE phase' = "crashed" /\ UNCHANGED filled
    /\ UNCHANGED <<program, gets, sets, dels, left, plan, key>>

LoadFilled ==
    /\ phase = "fill" /\ filled = sets
    /\ phase' = "rehearse"
    /\ UNCHANGED <<program, gets, sets, dels, left, loadVars>>

\* A request of the first loop only draws down the counters.
LoadRehearse ==
    /\ phase = "rehearse" /\ left > 0
    /\ left' = left - 1
    /\ \/ sets > 0 /\ sets' = sets - 1 /\ UNCHANGED gets
       \/ gets' = gets - 1 /\ UNCHANGED sets
    /\ UNCHANGED <<program, phase, dels, loadVars>>

\* Fault: the saved counters are put back the wrong way round.
LoadStartSwapped ==
    /\ phase = "rehearse" /\ left = 0
    /\ phase' = "run"
    /\ gets' = plan.sets /\ sets' = plan.gets
    /\ left' = plan.total
    /\ UNCHANGED <<program, dels, loadVars>>

\* The second loop starts from the plan again and makes as many requests.
LoadStart ==
    /\ phase = "rehearse" /\ left = 0
    /\ phase' = "run"
    /\ gets' = plan.gets /\ sets' = plan.sets
    /\ left' = plan.total
    /\ UNCHANGED <<program, dels, loadVars>>

\* Fault: c is drawn one too far.
LoadRequestBeyond ==
    /\ program = "load" /\ phase = "run" /\ left > 0
    /\ left' = left - 1
    /\ \E c \in 0 .. sets + 1 : key' = c /\ gets' = gets - 1
    /\ phase' = IF key' >= Table THEN "crashed" ELSE phase
    /\ UNCHANGED <<program, sets, dels, plan, filled>>

\* A request of the second loop: a set, or a get of a key of the table or a bad one.
LoadRequest ==
    /\ program = "load" /\ phase = "run" /\ left > 0
    /\ left' = left - 1
    /\ \E c \in 0 .. sets :
        \/ sets > 0 /\ key' = c /\ sets' = sets - 1 /\ UNCHANGED gets
        \/ key' \in {c, -1} /\ gets' = gets - 1 /\ UNCHANGED sets
    /\ phase' = IF key' >= Table THEN "crashed" ELSE phase
    /\ UNCHANGED <<program, dels, plan, filled>>

-----------------------------------------------------------------------------
WorkNext ==
    \/ EtcGet \/ EtcSet \/ EtcDel
    \/ LoadFill \/ LoadFilled \/ LoadRehearse \/ LoadStart \/ LoadRequest

WorkSpec == WorkInit /\ [][WorkNext]_workVars

-----------------------------------------------------------------------------
\* Properties

\* cache_ETC.cc never makes more gets, sets or deletes than planned, although
\* the numbers are drawn from a total that is one behind.
EtcWithinPlan == program = "etc" => gets >= 0 /\ sets >= 0 /\ dels >= 0

\* And it makes all of them but one.
EtcAllButOne ==
    program = "etc" /\ left <= 0 => gets + sets + dels = (IF plan.total = 0 THEN 0 ELSE 1)

\* cache_load.cc leaves its table only if a tenth of the requests, times three,
\* is at least the table's size.
TableSuffices == phase = "crashed" => plan.sets >= Table

\* A key it has not made up is used before the first set or in it, and is the
\* next one of the table.
KeysMadeUp == program = "load" /\ key >= filled => key = filled /\ sets + 1 >= plan.sets

=============================================================================
