------------------------------ MODULE MemorySample ------------------------------
(***************************************************************************)
(* The memory sample of one request: RequestMemorySampler of               *)
(* src/src/cloud_diagnostics.py, a thread that polls the process's memory  *)
(* while the Forecast page (src/pages/1_Forecast.py) starts it, waits for  *)
(* the forecast, stops it and copies what it has measured.                 *)
(***************************************************************************)
EXTENDS Integers

CONSTANT Rss    (* the sizes the process may have                           *)

ASSUME RssAssumption == Rss \subseteq Nat /\ Rss # {}

VARIABLES
  memory,    (* of the process: its size and its high-water mark             *)
  sampler,   (* the script and the fields of the sampler, _running among     *)
             (* them; whether stop() gave the thread up                      *)
  thread,    (* where _sample is, and the reading it holds                   *)
  sample     (* what went into the request's record                          *)

sampleVars == <<memory, sampler, thread, sample>>

Larger(x, y) == IF x < y THEN y ELSE x
NoSample == [before |-> 0, peak |-> 0, after |-> 0, process |-> 0]

SampleInit ==
  /\ \E rss \in Rss : memory = [rss |-> rss, highWater |-> rss]
  /\ sampler = [at |-> "new", running |-> FALSE, gaveUp |-> FALSE, measured |-> NoSample]
  /\ thread = [at |-> "ended", reading |-> 0]
  /\ sample = NoSample

(* Whatever else the process does.                                          *)
Allocate ==
  /\ \E rss \in Rss \ {memory.rss} :
       memory' = [rss |-> rss, highWater |-> Larger(memory.highWater, rss)]
  /\ UNCHANGED <<sampler, thread, sample>>

(* start()                                                                  *)
StartSampling ==
  /\ sampler.at = "new"
  /\ sampler' = [sampler EXCEPT !.at = "forecasting", !.running = TRUE,
                   !.measured.before = memory.rss, !.measured.peak = memory.rss]
  /\ thread' = [thread EXCEPT !.at = "awake"]
  /\ UNCHANGED <<memory, sample>>

(* _sample(): look at _running, read, compare, sleep.                       *)
Poll ==
  /\ thread.at = "awake"
  /\ thread' = [thread EXCEPT !.at = IF sampler.running THEN "polling" ELSE "ended"]
  /\ UNCHANGED <<memory, sampler, sample>>

ReadRss ==
  /\ thread.at = "polling"
  /\ thread' = [at |-> "reading", reading |-> memory.rss]
  /\ UNCHANGED <<memory, sampler, sample>>

Compare ==
  /\ thread.at = "reading"
  /\ sampler' = [sampler EXCEPT !.measured.peak = Larger(@, thread.reading)]
  /\ thread' = [thread EXCEPT !.at = "awake"]
  /\ UNCHANGED <<memory, sample>>

(* stop(), after the forecast came back or failed.                          *)
StopSampling ==
  /\ sampler.at = "forecasting"
  /\ sampler' = [sampler EXCEPT !.at = "joining", !.running = FALSE]
  /\ UNCHANGED <<memory, thread, sample>>

(* Slip: the thread is told to end, and not waited for.                     *)
Join_NotAtAll ==
  /\ sampler.at = "joining"
  /\ sampler' = [sampler EXCEPT !.at = "joined"]
  /\ UNCHANGED <<memory, thread, sample>>

(* join(timeout=2) returns when the thread has ended, or after two seconds. *)
Join ==
  /\ sampler.at = "joining"
  /\ sampler' = [sampler EXCEPT !.at = "joined", !.gaveUp = thread.at # "ended"]
  /\ UNCHANGED <<memory, thread, sample>>

ReadAfter ==
  /\ sampler.at = "joined"
  /\ sampler' = [sampler EXCEPT !.at = "read", !.measured.after = memory.rss]
  /\ UNCHANGED <<memory, thread, sample>>

ReadProcessPeak ==
  /\ sampler.at = "read"
  /\ sampler' = [sampler EXCEPT !.at = "stopped", !.measured.process = memory.highWater]
  /\ UNCHANGED <<memory, thread, sample>>

(* to_sample()                                                              *)
ToSample ==
  /\ sampler.at = "stopped"
  /\ sample' = sampler.measured
  /\ sampler' = [sampler EXCEPT !.at = "recorded"]
  /\ UNCHANGED <<memory, thread>>

SampleNext ==
  \/ Allocate \/ StartSampling \/ Poll \/ ReadRss \/ Compare
  \/ StopSampling \/ Join \/ ReadAfter \/ ReadProcessPeak \/ ToSample

SampleSpec == SampleInit /\ [][SampleNext]_sampleVars
--------------------------------------------------------------------------------
(* Safety.                                                                  *)

(* The recorded numbers fit each other: the peak of the request is at least *)
(* what it began with, the process's own peak at least what it ended with,  *)
(* and the request's peak is within the process's, unless the thread was    *)
(* still in a reading when stop() gave it up after its two seconds.         *)
SampleIsOfTheRequest ==
  sampler.at = "recorded" =>
    /\ sample.before <= sample.peak
    /\ sample.after <= sample.process
    /\ sample.peak <= sample.process \/ sampler.gaveUp
================================================================================
