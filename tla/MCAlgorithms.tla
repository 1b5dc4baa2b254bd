----------------------------- MODULE MCAlgorithms -----------------------------
(* The procedures of Algorithms on all small inputs.                       *)
EXTENDS Algorithms

\* Families of up to four p-values, from the least to 1, with ties.
MCPValues == UNION {[1 .. m -> {1, 2, 3, 4, 8, Unit}] : m \in 1 .. 4}

\* Up to four rows of up to three clusters.
MCClusterings == UNION {[1 .. n -> {1, 2, 4}] : n \in 1 .. 4}

\* Up to three replicates at each of -2, 0 and 1.
MCBags == [{-2, 0, 1} -> 0 .. 3]

\* Up to four rows: NULL, zero, a tenth, values that round to the same edge, whole ones.
MCNumericColumns == UNION {[1 .. n -> {{}, {0}, {3}, {10}, {100}, {300}}] : n \in 1 .. 4}

\* Three scenarios, each run at most once in a mode: absent, failed, not measured, of another
\* configuration, without and with a collision.
MCOutcomes == {[there |-> FALSE, status |-> "ok", asked |-> TRUE, v |-> {}],
               [there |-> TRUE, status |-> "load_fail", asked |-> TRUE, v |-> {1}],
               [there |-> TRUE, status |-> "ok", asked |-> FALSE, v |-> {1}],
               [there |-> TRUE, status |-> "ok", asked |-> TRUE, v |-> {}],
               [there |-> TRUE, status |-> "ok", asked |-> TRUE, v |-> {0}],
               [there |-> TRUE, status |-> "ok", asked |-> TRUE, v |-> {1}]}

MCAgentRow(outcome, scenario, mode) ==
  [scenario |-> scenario, mode |-> mode, status |-> outcome.status, asked |-> outcome.asked,
   v |-> outcome.v]

MCAgentRows ==
  LET fates == [Modes -> MCOutcomes]
      plain == {f \in fates : \A m \in Modes : f[m].there /\ f[m].asked /\ f[m].status = "ok" /\ f[m].v # {}}
      table(f) == UNION {{MCAgentRow(f[s][m], s, m) : m \in {m \in Modes : f[s][m].there}} : s \in DOMAIN f}
  IN {table(<<f, g>>) : f \in fates, g \in fates} \cup {table(<<f, g, h>>) : f \in fates, g \in plain, h \in plain}

\* Up to three scenarios: without features, unclassified, straight or left.
MCManeuverRows ==
  LET fates == [features : {{}, {{}}, {{"straight"}}, {{"left"}}}, target : {{}, {0}, {1}}]
  IN UNION {{{[scenario |-> s, features |-> f[s].features, target |-> f[s].target] : s \in DOMAIN f} :
              f \in [1 .. n -> fates]} : n \in 0 .. 3}

\* Up to three configurations, that differ in at most three metrics.
MCMeans ==
  LET values == {{}, {0}, {1}}
      metrics == [mean_ade : {{0}, {1}}, at_fault_rate : values, dav_rate : {{0}}, ttc_frac : {{0}, {1}},
                  comfort_rate : values]
  IN UNION {[1 .. n -> metrics] : n \in 0 .. 2}
       \cup [1 .. 3 -> {m \in metrics : m.ttc_frac = {0} /\ m.mean_ade = {0}}]

\* Up to two rows with every flag, two of the channels in every state.
MCComfortRows ==
  LET fates == {[status |-> st, comfort_violation |-> flag,
                 exceeds |-> [c \in Channels |-> CASE c = "max_abs_a_lon" -> x
                                                   [] c = "max_abs_jerk"  -> y
                                                   [] OTHER               -> {FALSE}]] :
                st \in {"ok", "no_route"}, flag \in {{}, {0}, {1}},
                x \in {{}, {FALSE}, {TRUE}}, y \in {{}, {FALSE}, {TRUE}}}
  IN UNION {{{[scenario |-> s, status |-> f[s].status, comfort_violation |-> f[s].comfort_violation,
               exceeds |-> f[s].exceeds] : s \in DOMAIN f} : f \in [1 .. n -> fates]} : n \in 0 .. 2}

\* Up to three rows, of two machines and of none, some without a cycle.
MCLatencyRows ==
  LET fates == {f \in [status : {"ok", "load_fail"}, hardware : {{}, {"h1"}, {"h2"}}, n_cycles : {0, 2, 3},
                       plan_us_mean : {1, 4}] : f.status = "ok" \/ f.n_cycles # 3}
  IN UNION {{{[scenario |-> s, status |-> f[s].status, hardware |-> f[s].hardware, n_cycles |-> f[s].n_cycles,
               plan_us_mean |-> f[s].plan_us_mean, plan_us_max |-> f[s].plan_us_mean] : s \in DOMAIN f} :
              f \in [1 .. n -> fates]} : n \in 0 .. 2}

\* Three scenarios; the first two fall into different halves.
MCAssigned == <<"discovery", "confirmation", "confirmation">>
MCStored == UNION {[S -> {"discovery", "confirmation"}] : S \in SUBSET {1, 2, 3}}
MCIncoming == UNION {[1 .. n -> {1, 2, 3}] : n \in 0 .. 3}
=============================================================================
