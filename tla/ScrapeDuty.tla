------------------------------ MODULE ScrapeDuty ------------------------------
(***************************************************************************)
(* What a scrape scheduler promises about its targets, without threads, a  *)
(* queue or a lock: every target goes round the phases                     *)
(*                                                                         *)
(*    resting -> due -> claimed -> scraping -> counted -> resting          *)
(*                                                                         *)
(* by itself, and each scrape that ends is counted exactly once, as a      *)
(* success or as a failure.  While the scheduler is open every due target  *)
(* gets its scrape.  One that is claimed when it closes may be abandoned:  *)
(* it is never scraped again, however often the scheduler is reopened.     *)
(***************************************************************************)
EXTENDS Naturals

CONSTANTS
  Targets,
  Prompt,       \* the targets whose scrapes end
  StatModulus

VARIABLES open, phase, successes, failures

dutyVars == <<open, phase, successes, failures>>

Phases == {"resting", "due", "claimed", "scraping", "counted",
           "abandoned"}

DutyInit ==
  /\ open = FALSE
  /\ phase = [t \in Targets |-> "due"]
  /\ successes = 0
  /\ failures = 0

counters == <<successes, failures>>

Open  == ~open /\ open' = TRUE  /\ UNCHANGED <<phase, counters>>
Close == open  /\ open' = FALSE /\ UNCHANGED <<phase, counters>>

Move(t, from, to) ==
  /\ phase[t] = from
  /\ phase' = [phase EXCEPT ![t] = to]
  /\ UNCHANGED open

BecomeDue(t) == Move(t, "resting", "due") /\ UNCHANGED counters

\* The claim may be completed just after the scheduler has closed: the
\* dispatcher reads running_ before it scans.
Claim(S) ==
  /\ \A t \in S : phase[t] = "due"
  /\ phase' = [t \in Targets |-> IF t \in S THEN "claimed" ELSE phase[t]]
  /\ UNCHANGED <<open, counters>>

Abandon(S) ==
  /\ ~open
  /\ \A t \in S : phase[t] = "claimed"
  /\ phase' = [t \in Targets |-> IF t \in S THEN "abandoned" ELSE phase[t]]
  /\ UNCHANGED <<open, counters>>

Begin(t)   == Move(t, "claimed", "scraping") /\ UNCHANGED counters
Count(t)   ==
  /\ Move(t, "scraping", "counted")
  /\ \/ successes' = (successes + 1) % StatModulus /\ UNCHANGED failures
     \/ failures' = (failures + 1) % StatModulus /\ UNCHANGED successes
Release(t) == Move(t, "counted", "resting") /\ UNCHANGED counters

DutyNext ==
  \/ Open \/ Close
  \/ \E S \in SUBSET Targets : Claim(S) \/ Abandon(S)
  \/ \E t \in Targets : BecomeDue(t) \/ Begin(t) \/ Count(t) \/ Release(t)

Spec == DutyInit /\ [][DutyNext]_dutyVars

\* A due target is claimed, and a claimed one scraped, while the scheduler is
\* open; a scrape that has begun is finished even when it is closing.  (Each of
\* these phases is left by one action only, so that this is weak fairness of
\* Claim, Begin, Count and Release.)
DutyFairness ==
  \A t \in Targets :
     /\ []<>~(open /\ phase[t] = "due")
     /\ []<>~(open /\ phase[t] = "claimed")
     /\ t \in Prompt => []<>(phase[t] # "scraping")
     /\ []<>(phase[t] # "counted")

FairSpec == Spec /\ DutyFairness
=============================================================================
