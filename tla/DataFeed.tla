------------------------------ MODULE DataFeed ------------------------------
(***************************************************************************)
(* Candles on their way from Gate.io to the tables that backtests and the  *)
(* regime engine read: services/exchange/gateio.py candles,                *)
(* market_data_quality/ (normalise, validate, detect, repair) and          *)
(* market_data/ingestion.py, beside the loader of backtests and            *)
(* walk-forward runs (backtest/engine.py), which writes the same table.    *)
(* One symbol and timeframe; the jobs of two processes, the scheduler and  *)
(* the API.  A bar is its number and its close; closes of different levels *)
(* are further apart than the spike threshold.                             *)
(***************************************************************************)
EXTENDS Integers, Sequences

CONSTANTS
  Levels,       \* the closes of sound bars
  Window,       \* candles a request answers with
  Jobs,         \* the jobs that run, of those below
  MaxBars,      \* bound: bars that close
  SpikeMode,    \* mdq_spike_mode: "flag" or "ignore"
  MaxEvents     \* bound: faults, requests and trades together

Malformed == 0      \* the close of a bar that breaks the OHLC rules
None == -1

ASSUME FeedAssumption ==
  /\ Jobs \subseteq {"ingest", "api_ingest", "revalidate", "load"}
  /\ Levels \subseteq Nat \ {0} /\ Window \in Nat \ {0} /\ MaxBars \in Nat
  /\ SpikeMode \in {"flag", "ignore"} /\ MaxEvents \in Nat

VARIABLES
  closed,     \* the final closes of the bars that have closed
  forming,    \* the close, so far, of the bar that is forming
  clean,      \* market_data_clean: close by bar
  hist,       \* historical_candles: by bar, its close, which job wrote it, and whether the bar
              \* was still forming when the job asked for it
  feed,       \* each job: where it is and the candles it holds
  events      \* events left

feedVars == <<closed, forming, clean, hist, feed>>

Closes == Levels \cup {Malformed}
Bars == 1..(MaxBars + 1)
Ingesting == {"ingest", "api_ingest"}    \* the jobs that store what the pipeline emits
Nothing == [b \in {} |-> None]
IsStore(f) == DOMAIN f \subseteq Bars /\ \A b \in DOMAIN f : f[b] \in Closes

\* Rows are inserted where there are none yet.
Insert(table, rows) ==
  [b \in DOMAIN table \cup DOMAIN rows |-> IF b \in DOMAIN table THEN table[b] ELSE rows[b]]

Idle == [pc |-> "idle", last |-> 0, form |-> None, out |-> Nothing]

-----------------------------------------------------------------------------
(* The quality pipeline *)

\* The candles of a request made when `last` bars had closed, oldest first; `form` is the
\* forming bar's close.
Batch(last, form) ==
  LET from == IF last + 2 - Window > 1 THEN last + 2 - Window ELSE 1
  IN  [i \in 1..(last + 2 - from) |->
         [bar |-> from + i - 1, close |-> IF from + i - 1 > last THEN form ELSE closed[from + i - 1]]]

\* The newest clean row, which the batch's first candle is compared with.
NewestClean ==
  LET b == CHOOSE b \in DOMAIN clean : \A c \in DOMAIN clean : c <= b
  IN  IF clean = Nothing THEN [bar |-> None, close |-> None] ELSE [bar |-> b, close |-> clean[b]]

\* What makes the validator call a candle structurally broken: its values, or the
\* timestamp of the candle before it.
Broken(c, prev) == c.close = Malformed \/ c.bar = prev.bar
\* Further than the threshold from the candle before it.
Spike(c, prev) == prev.close # None /\ c.close # prev.close

\* Mutant: a jump is dropped in every mode.
EmitsNoSpike(c, prev) == ~Broken(c, prev) /\ ~Spike(c, prev)

Emits(c, prev) == ~Broken(c, prev) /\ ~(Spike(c, prev) /\ SpikeMode = "ignore")

\* The result of the pipeline, by bar, with one candle more.
With(out, c) == [b \in {c.bar} \cup DOMAIN out |-> IF b = c.bar THEN c.close ELSE out[b]]

\* Mutant: a candle that is not emitted stays in the result.
JudgeAll(seen, c) ==
  [prev |-> IF Emits(c, seen.prev) THEN c ELSE seen.prev, out |-> With(seen.out, c)]

Judge(seen, c) ==
  IF Emits(c, seen.prev) THEN [prev |-> c, out |-> With(seen.out, c)] ELSE seen

Vet(batch) ==
  LET start == [prev |-> NewestClean, out |-> Nothing]
      seen[i \in 0..Len(batch)] == IF i = 0 THEN start ELSE Judge(seen[i - 1], batch[i])
  IN  seen[Len(batch)].out

-----------------------------------------------------------------------------
(* The jobs *)

At(j, pc) == j \in Jobs /\ feed[j].pc = pc
Spend == events > 0 /\ events' = events - 1

\* client.candles: the bar that is still forming comes too, with its close so far, or garbled.
Fetch(j, form) ==
  /\ At(j, "idle") /\ j # "load"
  /\ feed' = [feed EXCEPT ![j] = [pc |-> "fetched", last |-> Len(closed), form |-> form, out |-> Nothing]]
  /\ UNCHANGED <<closed, forming, clean, hist>>

\* MarketDataQualityEngine.ingest: one transaction inserts the clean rows that are not there.
\* The revalidation of the API ends with it.
Accept(j) ==
  /\ At(j, "fetched")
  /\ LET out == Vet(Batch(feed[j].last, feed[j].form)) IN
       /\ clean' = Insert(clean, out)
       /\ feed' = [feed EXCEPT ![j] =
            IF j \in Ingesting /\ out # Nothing THEN [@ EXCEPT !.pc = "vetted", !.out = out]
            ELSE Idle]
  /\ UNCHANGED <<closed, forming, hist>>

\* HistoricalDataLoader: the candles of Gate.io, the forming one included, or of an uploaded
\* file, whatever it holds, are for the store as they are.
LoadGateio ==
  /\ At("load", "idle")
  /\ feed' = [feed EXCEPT !["load"] =
       [Idle EXCEPT !.pc = "vetted", !.last = Len(closed),
                    !.out = [b \in 1..(Len(closed) + 1) |-> IF b > Len(closed) THEN forming ELSE closed[b]]]]
  /\ UNCHANGED <<closed, forming, clean, hist>>

LoadCsv(b) ==
  /\ At("load", "idle")
  /\ feed' = [feed EXCEPT !["load"] =
       [Idle EXCEPT !.pc = "vetted", !.last = Len(closed), !.out = [x \in {b} |-> Malformed]]]
  /\ UNCHANGED <<closed, forming, clean, hist>>

\* A job inserts the candles it holds that are not there, in a transaction of their own.
Store(j) ==
  /\ At(j, "vetted")
  /\ hist' = Insert(hist, [b \in DOMAIN feed[j].out |->
                [close |-> feed[j].out[b], by |-> j, early |-> b > feed[j].last]])
  /\ feed' = [feed EXCEPT ![j] = Idle]
  /\ UNCHANGED <<closed, forming, clean>>

\* The request fails, the process dies, or the commit loses the unique constraint to the
\* other process: the transaction is rolled back and the job is over.
JobFails(j) ==
  /\ At(j, "fetched") \/ At(j, "vetted")
  /\ feed' = [feed EXCEPT ![j] = Idle]
  /\ UNCHANGED <<closed, forming, clean, hist>>

-----------------------------------------------------------------------------
(* The market *)

Trade ==
  /\ forming' \in Levels \ {forming}
  /\ UNCHANGED <<closed, clean, hist, feed>>

CloseBar ==
  /\ Len(closed) < MaxBars
  /\ closed' = Append(closed, forming)
  /\ forming' \in Levels
  /\ UNCHANGED <<clean, hist, feed>>

-----------------------------------------------------------------------------
FeedInit ==
  /\ closed = <<>> /\ forming \in Levels
  /\ clean = Nothing /\ hist = Nothing
  /\ feed = [j \in Jobs |-> Idle]

\* The ingestion job of the scheduler starts again and again; the rest is an event.
Ingest == (Fetch("ingest", forming) \/ Accept("ingest") \/ Store("ingest")) /\ UNCHANGED events
Garbled == Fetch("ingest", Malformed) /\ Spend
Request(j) == Fetch(j, forming) /\ j # "ingest" /\ Spend
Load == (LoadGateio \/ \E b \in Bars : LoadCsv(b)) /\ Spend
Serve(j) == (Accept(j) \/ Store(j)) /\ j # "ingest" /\ UNCHANGED events
Market == (Trade /\ Spend) \/ (CloseBar /\ UNCHANGED events)
Fault(j) == JobFails(j) /\ Spend

-----------------------------------------------------------------------------
FeedTypeOK ==
  /\ closed \in Seq(Levels) /\ Len(closed) <= MaxBars /\ forming \in Levels
  /\ IsStore(clean) /\ IsStore([b \in DOMAIN hist |-> hist[b].close])
  /\ DOMAIN feed = Jobs
  /\ \A j \in Jobs :
       /\ feed[j].pc \in {"idle", "fetched", "vetted"} /\ feed[j].last \in 0..MaxBars
       /\ feed[j].form \in Closes \cup {None} /\ IsStore(feed[j].out)
  /\ events \in 0..MaxEvents

\* Whatever the two processes, a lost commit or a failed request interleave, an ingested bar
\* was first committed clean, and no ingestion makes a malformed bar historical
\* (ingestion.py:36: "only clean candles are promoted to the historical store").
HistVetted ==
  \A b \in DOMAIN hist :
    hist[b].by \in Ingesting => b \in DOMAIN clean /\ hist[b].close # Malformed

\* What historical_candles says of a closed bar: its final close, or a close of a file.
Final(b) == hist[b].close = closed[b]
Uploaded(b) == hist[b].by = "load" /\ hist[b].close = Malformed

\* Every closed bar that a request still covers is historical, with its final close unless
\* the row was written with the close that the bar had while it was forming, or uploaded.
CaughtUp ==
  \A b \in DOMAIN closed : b > Len(closed) + 1 - Window =>
    b \in DOMAIN hist /\ (Final(b) \/ hist[b].early \/ Uploaded(b))
=============================================================================
