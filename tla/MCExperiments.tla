---------------------------- MODULE MCExperiments ----------------------------
(***************************************************************************)
(* The command line experiments, each a program of its own: the driver     *)
(* race, the lease benchmark, the like benchmarks and the URL benchmark.   *)
(* A behaviour runs one of them; the others stay in an initial state.      *)
(***************************************************************************)
EXTENDS Claims, Leases, LikeStore, UrlStore, TLC

VARIABLE program

vars == <<program, claimVars, leaseVars, likeVars, urlVars>>

Programs == {"race", "leases", "likes", "urls"}

(* The initial state of a program that is not run. *)
RaceIdle == strategy = "atomic" /\ driver = ResetDriver("AVAILABLE")
LeasesIdle == backend = "app-lock" /\ mode = "threads"
LikesIdle ==
    /\ likeStore = "row-lock"
    /\ op = [r \in Requests |-> CHOOSE o \in Ops : o.pc = "new" /\ o.delta = 1]
UrlsIdle ==
    /\ method = "memory"
    /\ code = [u \in Urls |-> [n \in Attempts |-> CHOOSE c \in Codes : TRUE]]

Init ==
    /\ program \in Programs
    /\ ClaimInit /\ (program = "race" \/ RaceIdle)
    /\ LeaseInit /\ (program = "leases" \/ LeasesIdle)
    /\ LikeInit /\ (program = "likes" \/ LikesIdle)
    /\ UrlInit /\ (program = "urls" \/ UrlsIdle)

(* Nothing happens to the programs that are not run. *)
RestOf(p) ==
    /\ p = "race" \/ UNCHANGED claimVars
    /\ p = "leases" \/ UNCHANGED leaseVars
    /\ p = "likes" \/ UNCHANGED likeVars
    /\ p = "urls" \/ UNCHANGED urlVars

Next ==
    /\ \/ program = "race" /\ ClaimNext
       \/ program = "leases" /\ LeaseNext
       \/ program = "likes" /\ LikeNext
       \/ program = "urls" /\ UrlNext
    /\ RestOf(program)
    /\ UNCHANGED program

Spec == Init /\ [][Next]_vars /\ (program = "leases" => LeaseFairness)

(* Rows, keys, counters and tables have their types in every program.      *)
ProgramsTypeOK == ClaimTypeOK /\ LeaseTypeOK /\ LikeTypeOK /\ UrlTypeOK
=============================================================================
