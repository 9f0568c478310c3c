--------------------------- MODULE MCInterpreter ----------------------------
(***************************************************************************)
(* Parts of the interpreter for TLC: method tables (MethodCache), require  *)
(* (Loading), signals (Signals), global variables (GlobalVars), END blocks *)
(* (EndProcs), integers (RubyInteger) and Marshal (Marshal, MarshalNumbers). *)
(* They share no state, so a behaviour exercises one of them, chosen at the *)
(* start; the variables of the others are Unused or stay as they are at the *)
(* start.                                                                  *)
(***************************************************************************)
EXTENDS LoadState, SignalState, GvarState, MethodTables, EndProcs, TLC

CONSTANTS MaxSteps, Names, Cmds, Variables, Traces,
          BITSPERDIG, Shifts, Powers, Exceptional, MaxDigits,
          Unused

VARIABLES object, steps, data, acc, exact, heap, limit, dumped, loaded, number, written, again

\* All method names of all classes collide in the cache.
OneSlot == [k \in Keys |-> 1]

\* "a" requires "b" and "c", "b" requires "c".
MCRequires == [f \in Files |-> IF f = "a" THEN <<"b", "c">>
                               ELSE IF f = "b" THEN <<"c">> ELSE <<>>]

\* Integers of up to three digits of three bits, the boundary cases among them.
Operands == {-511, -300, -63, -44, -33, -32, -8, -7, -5, -4, -3, -2, -1, 0, 1, 2, 3, 4,
             5, 7, 8, 9, 31, 32, 39, 45, 63, 256, 320, 455}

Cache == INSTANCE MethodCache
Load == INSTANCE Loading
Sig == INSTANCE Signals
Gvar == INSTANCE GlobalVars
Num == INSTANCE RubyInteger

-----------------------------------------------------------------------------
(* The graphs of three objects that are dumped: o1 of any type refers to any *)
(* of the three and to a symbol, o2 and o3 close cycles.                     *)

Objects == {"o1", "o2", "o3"}
Base == "Base"
Limits == {-1, 3}

Graph == INSTANCE Marshal WITH Heaps <- {}

Vals == {Graph!NilValue, Graph!Sym("a"), Graph!Ref("o1"), Graph!Ref("o2"), Graph!Ref("o3")}
Pairs == Vals \X Vals
HashKeys == {Graph!Sym("a"), Graph!Ref("o2"), Graph!Ref("o3")}
Ivars(s) == [i \in DOMAIN s |-> [id |-> <<"a", "K">>[i], val |-> s[i]]]

FirstObjects == UNION {
  {Graph!Obj("ARRAY", Base, <<>>, p, FALSE, <<>>) : p \in Pairs},
  {Graph!Obj("ARRAY", "K", <<"M", "N">>, <<p[1]>>, FALSE, Ivars(<<p[2]>>)) : p \in Pairs},
  {Graph!Obj("OBJECT", "K", <<"N">>, <<>>, FALSE, Ivars(p)) : p \in Pairs},
  {Graph!Obj("STRUCT", "K", <<>>, p, FALSE, <<>>) : p \in Pairs},
  {Graph!Obj("HASH", Base, <<>>, p, FALSE, <<>>) : p \in HashKeys \X Vals},
  {Graph!Obj("HASH", "K", <<>>, p, TRUE, <<>>) : p \in HashKeys \X Vals \X (Vals \ {Graph!NilValue})},
  {Graph!Obj("DATA", "K", <<>>, <<v>>, FALSE, <<>>) : v \in Vals}}

SecondObjects == UNION {
  {Graph!Obj("ARRAY", Base, <<>>, p, FALSE, <<>>) : p \in Pairs},
  {Graph!Obj("OBJECT", "M", <<>>, <<>>, FALSE, Ivars(<<v>>)) : v \in Vals},
  {Graph!Obj("STRING", Base, <<"M">>, <<>>, FALSE, Ivars(<<v>>)) : v \in Vals},
  {Graph!Obj("USERDEF", "K", <<"N">>, <<>>, FALSE, <<>>),
   Graph!Obj("CLASS", Base, <<>>, <<>>, FALSE, <<>>)}}

ThirdObjects == {
  Graph!Obj("STRING", "a", <<>>, <<>>, FALSE, <<>>),
  Graph!Obj("FLOAT", Base, <<>>, <<>>, FALSE, Ivars(<<Graph!Sym("b")>>)),
  Graph!Obj("ARRAY", Base, <<>>, <<Graph!Ref("o2")>>, FALSE, <<>>),
  Graph!Obj("HASH", Base, <<>>, <<Graph!Ref("o2"), Graph!Ref("o3")>>, FALSE, <<>>)}

Heaps == {[o \in Objects |-> IF o = "o1" THEN x ELSE IF o = "o2" THEN y ELSE z] :
            x \in FirstObjects, y \in SecondObjects, z \in ThirdObjects}

\* Integers around the limits of one, two and three bytes, and digits.
Longs == -300..300 \cup {s * (65536 + e) : s \in {1, -1}, e \in -2..2}
           \cup {16777215, -16777216}
Digits == UNION {{ds \in [1..n -> 0..15] : ds[n] # 0} : n \in 1..2}

Dump == INSTANCE Marshal
Numbers == INSTANCE MarshalNumbers

-----------------------------------------------------------------------------

(* The variables of each part, and their values where a part is left out;  *)
(* require, signals and END blocks are then as they are at the start.      *)

cacheOnly == <<super, owner, live, m_tbl, cache, aborted, reused, steps>>
loadOnly == <<provided, loading, finished, failed, executed, autoload_tbl, stack,
              at, want, refers, relies, missed, calls>>
signalOnly == <<trap_list, ignored, pending_list, trap_pending, immediate, mask,
                last_mask, arrived, curr, sig_stack, saved, behind, crossed, sent>>
gvarOnly == <<entry, counter, trace, block_trace, data, removed, running, freed>>
endOnly == <<end_procs, ephemeral_end_procs, phase, link, save, since, ran, call>>
numberOnly == <<acc, exact>>
dumpOnly == <<heap, limit, dumped, loaded>>
writtenOnly == <<number, written, again>>

NoCache == /\ super = Unused /\ owner = Unused /\ live = Unused /\ m_tbl = Unused
           /\ cache = <<>> /\ aborted = FALSE /\ reused = Unused /\ steps = Unused
NoGvar == /\ entry = Unused /\ counter = <<>> /\ trace = Unused
          /\ block_trace = <<>> /\ data = Unused /\ removed = Unused
          /\ running = <<>> /\ freed = Unused
NoNumber == acc = Unused /\ exact = Unused
NoDump == heap = Unused /\ limit = Unused /\ dumped = Unused /\ loaded = Unused
NoWritten == number = Unused /\ written = Unused /\ again = Unused

MCInit ==
  /\ Load!Init /\ Sig!Init /\ Init
  /\ \/ /\ object \in {"Loading", "Signals", "EndProcs"}
        /\ NoCache /\ NoGvar /\ NoNumber /\ NoDump /\ NoWritten
     \/ /\ object = "MethodCache" /\ Cache!Init
        /\ NoGvar /\ NoNumber /\ NoDump /\ NoWritten
     \/ /\ object = "GlobalVars" /\ Gvar!Init
        /\ NoCache /\ NoNumber /\ NoDump /\ NoWritten
     \/ /\ object = "RubyInteger" /\ Num!Init
        /\ NoCache /\ NoGvar /\ NoDump /\ NoWritten
     \/ /\ object = "Marshal" /\ Dump!Init
        /\ NoCache /\ NoGvar /\ NoNumber /\ NoWritten
     \/ /\ object = "MarshalNumbers" /\ Numbers!Init
        /\ NoCache /\ NoGvar /\ NoNumber /\ NoDump

MCNext ==
  /\ UNCHANGED object
  /\ \/ /\ object = "MethodCache" /\ Cache!Next
        /\ UNCHANGED <<loadOnly, signalOnly, gvarOnly, endOnly, numberOnly,
                       dumpOnly, writtenOnly>>
     \/ /\ object = "Loading" /\ Load!Next
        /\ UNCHANGED <<cacheOnly, signalOnly, gvarOnly, endOnly, numberOnly,
                       dumpOnly, writtenOnly>>
     \/ /\ object = "Signals" /\ Sig!Next
        /\ UNCHANGED <<cacheOnly, loadOnly, gvarOnly, endOnly, numberOnly,
                       dumpOnly, writtenOnly>>
     \/ /\ object = "GlobalVars" /\ Gvar!Next
        /\ UNCHANGED <<cacheOnly, loadOnly, signalOnly, endOnly, numberOnly,
                       dumpOnly, writtenOnly>>
     \/ /\ object = "EndProcs" /\ Next
        /\ UNCHANGED <<cacheOnly, loadOnly, signalOnly, gvarOnly, numberOnly,
                       dumpOnly, writtenOnly>>
     \/ /\ object = "RubyInteger" /\ Num!Next
        /\ UNCHANGED <<cacheOnly, loadOnly, signalOnly, gvarOnly, endOnly,
                       dumpOnly, writtenOnly>>
     \/ /\ object = "Marshal" /\ Dump!Next
        /\ UNCHANGED <<cacheOnly, loadOnly, signalOnly, gvarOnly, endOnly,
                       numberOnly, writtenOnly>>
     \/ /\ object = "MarshalNumbers" /\ Numbers!Next
        /\ UNCHANGED <<cacheOnly, loadOnly, signalOnly, gvarOnly, endOnly,
                       numberOnly, dumpOnly>>

mcVars == <<object, cacheOnly, loadOnly, signalOnly, gvarOnly, endOnly, numberOnly,
            dumpOnly, writtenOnly>>

MCSpec == MCInit /\ [][MCNext]_mcVars

\* Loaders share their values with Mids, and so do Names and Mids, Cmds and Bodies.
Symmetry == Permutations(Mids) \cup Permutations(Bodies) \cup Permutations(Modules)

-----------------------------------------------------------------------------
(* The properties, where the modules state and explain them.  RequireSound  *)
(* (LoadState), NotedSignalSeen, ImmediateInSystemCall (SignalState),       *)
(* GvarSound (GvarState), MethodsCurrent (MethodTables) and EndProcsRunOnce *)
(* (EndProcs) are checked as they stand.                                    *)

\* Chains are well formed, and an inclusion changes that of one class only
\* (MethodCache).
IncludeLocal ==
  /\ [](object = "MethodCache" => Cache!ChainsNested)
  /\ [][object = "MethodCache" =>
          \A c \in Tables, module \in Modules :
            Cache!IncludedOutside(c, module) = {}]_mcVars

\* Integers are exact and have one representation (RubyInteger).
ArithmeticExact == object = "RubyInteger" => Num!ArithmeticExact

\* What is loaded is a copy of what was dumped, and is yielded once (Marshal,
\* MarshalNumbers).
RoundTrip == /\ object = "Marshal" => Dump!RoundTrip /\ Dump!YieldedOnce
             /\ object = "MarshalNumbers" => Numbers!NumbersRoundTrip
=============================================================================
