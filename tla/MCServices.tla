------------------------------- MODULE MCServices -------------------------------
(***************************************************************************)
(* Small instances, for TLC in one run, of components that share files or  *)
(* a database between processes, or a queue between tasks: MediaCache      *)
(* (three files of one size, two of two), Workers, Availability,           *)
(* UsageWriter, SignupRound, StreamEvents and ImagineSession.  A behaviour *)
(* is one of one component; the others are parked.                         *)
(***************************************************************************)
EXTENDS ImagineSession, UsageWriter, SignupRound, Workers, Availability, StreamEvents,
        MediaCache, TLC

CONSTANTS p1, p2, f1, f2, f3, a1, a2

VARIABLE which

\* f1, with an alias f2 and an alias f3; and an account to a page.
MCBaseOf == f1 :> f1 @@ f2 :> f1 @@ f3 :> f1
MCPageOf == a1 :> 1 @@ a2 :> 2

\* The cache again, with two sizes.
Mixed == INSTANCE MediaCache WITH File <- {f1, f2}, Size <- {2, 6}

ASSUME MixedAssumption == Mixed!CacheAssumption

vars == <<which, cacheVars, workersVars, availabilityVars, writerVars, roundVars, streamVars,
          sessionVars>>

\* A parked component stays in its initial state.
CacheParked  == CacheInit /\ limit[p1] = 0
ServerParked == WorkersInit /\ store.enabled
SourceParked == AvailabilityInit
UsageParked  == WriterInit
SignupParked == RoundInit /\ provider = "worker" /\ profile = "process"
StreamParked == StreamInit /\ api = "build"
SessionParked == SessionInit

MCInit ==
    \/ /\ which \in {"cache", "mixed"} /\ CacheInit
       /\ ServerParked /\ SourceParked /\ UsageParked /\ SignupParked /\ StreamParked
       /\ SessionParked
    \/ /\ which = "server" /\ WorkersInit
       /\ CacheParked /\ SourceParked /\ UsageParked /\ SignupParked /\ StreamParked
       /\ SessionParked
    \/ /\ which = "source" /\ AvailabilityInit
       /\ CacheParked /\ ServerParked /\ UsageParked /\ SignupParked /\ StreamParked
       /\ SessionParked
    \/ /\ which = "usage" /\ WriterInit
       /\ CacheParked /\ ServerParked /\ SourceParked /\ SignupParked /\ StreamParked
       /\ SessionParked
    \/ /\ which = "signup" /\ RoundInit
       /\ CacheParked /\ ServerParked /\ SourceParked /\ UsageParked /\ StreamParked
       /\ SessionParked
    \/ /\ which = "stream" /\ StreamInit
       /\ CacheParked /\ ServerParked /\ SourceParked /\ UsageParked /\ SignupParked
       /\ SessionParked
    \/ /\ which = "session" /\ SessionInit
       /\ CacheParked /\ ServerParked /\ SourceParked /\ UsageParked /\ SignupParked
       /\ StreamParked

MCNext ==
    \/ /\ which = "cache" /\ CacheNext
       /\ UNCHANGED <<which, workersVars, availabilityVars, writerVars, roundVars, streamVars,
                     sessionVars>>
    \/ /\ which = "mixed" /\ Mixed!CacheNext
       /\ UNCHANGED <<which, workersVars, availabilityVars, writerVars, roundVars, streamVars,
                     sessionVars>>
    \/ /\ which = "server" /\ WorkersNext
       /\ UNCHANGED <<which, cacheVars, availabilityVars, writerVars, roundVars, streamVars,
                     sessionVars>>
    \/ /\ which = "source" /\ AvailabilityNext
       /\ UNCHANGED <<which, cacheVars, workersVars, writerVars, roundVars, streamVars,
                     sessionVars>>
    \/ /\ which = "usage" /\ WriterNext
       /\ UNCHANGED <<which, cacheVars, workersVars, availabilityVars, roundVars, streamVars,
                     sessionVars>>
    \/ /\ which = "signup" /\ RoundNext
       /\ UNCHANGED <<which, cacheVars, workersVars, availabilityVars, writerVars, streamVars,
                     sessionVars>>
    \/ /\ which = "stream" /\ StreamNext
       /\ UNCHANGED <<which, cacheVars, workersVars, availabilityVars, writerVars, roundVars,
                     sessionVars>>
    \/ /\ which = "session" /\ SessionNext
       /\ UNCHANGED <<which, cacheVars, workersVars, availabilityVars, writerVars, roundVars,
                     streamVars>>

MCSpec == MCInit /\ [][MCNext]_vars

=============================================================================
