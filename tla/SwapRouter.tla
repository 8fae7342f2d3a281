----------------------------- MODULE SwapRouter -----------------------------
(***************************************************************************)
(* The swap router, src/swap_router.rs: pools whose reserves somebody       *)
(* reports, the search for a route and its quote, and swaps.                *)
(*                                                                          *)
(* Pools are called by nobody: a swap is worked out from the reported       *)
(* reserves and paid out of what the router holds, and the reserves stay as *)
(* they are. The pools are a map in the order of their addresses, here      *)
(* numbers.                                                                 *)
(*                                                                          *)
(* A call that ends in an error is undone, and swap_with_retry answers an   *)
(* error when it has put a swap into its queue: the queue is always empty,  *)
(* and is left out. So are the flag of pause, which no call reads, the      *)
(* default slippage, which only quotes use, price impacts, and the widths:  *)
(* amounts and reserves are far below those of an i128.                     *)
(***************************************************************************)
EXTENDS Integers, Sequences, FiniteSetsExt, Functions, Sums

CONSTANTS
  NumTraded, XLM,     \* how many tokens, and the one the router hops through
  Listings,           \* what the admin may add: [pool, token_a, token_b, fee]
  AddedAtFirst,       \* those of them that have been added, at first
  Reserves,           \* the reserves that are reported
  SwapAmounts, MinOutputs, Paths,   \* what users name in a call
  Divisor,            \* BPS_DIVISOR
  TreasuryBps,        \* PROTOCOL_TREASURY_FEE_BPS
  Funds,              \* what user and router have of each token at first
  MaxCalls            \* bound on calls

Traded == 1..NumTraded

(* Addresses of pools are numbers, fees are u32, reported reserves an i128; *)
(* swap takes amounts above 0 and paths of two tokens and more.             *)
RouterAssumption ==
  /\ NumTraded \in Nat /\ Divisor \in Nat \ {0} /\ TreasuryBps \in 0..Divisor /\ Funds \in Nat
  /\ IsFiniteSet(Listings) /\ AddedAtFirst \subseteq Listings
  /\ Listings \subseteq [pool: Int, token_a: Traded, token_b: Traded, fee: Nat]
  /\ Reserves \subseteq Int /\ SwapAmounts \subseteq Nat \ {0} /\ MinOutputs \subseteq Int
  /\ \A path \in Paths : path \in Seq(Traded) /\ Len(path) >= 2

VARIABLES
  pools,          \* the pools, by their addresses
  oracle_paused,
  wallet, router_held, treasury,    \* the tokens (external)
  total_swaps, total_volume, total_fees,
  last_swap,      \* history: what was asked for and paid by the last swap
  calls

routerVars == <<pools, oracle_paused, wallet, router_held, treasury, total_swaps, total_volume,
                total_fees, last_swap, calls>>

NoSwap == [min_output |-> 0, net_output |-> 0]

(* A pool as add_pool lists it.                                             *)
Listed(l) == [token_a |-> l.token_a, token_b |-> l.token_b, fee |-> l.fee,
              reserve_a |-> 0, reserve_b |-> 0]

Init ==
  /\ pools = [p \in {l.pool : l \in AddedAtFirst} |->
                Listed(CHOOSE l \in AddedAtFirst : l.pool = p)]
  /\ oracle_paused = FALSE
  /\ wallet = [t \in Traded |-> Funds] /\ router_held = [t \in Traded |-> Funds]
  /\ treasury = [t \in Traded |-> 0]
  /\ total_swaps = 0 /\ total_volume = 0 /\ total_fees = 0
  /\ last_swap = NoSwap /\ calls = 0

-----------------------------------------------------------------------------
(* Quotes.                                                                  *)

Joins(pool, from, to) == {pool.token_a, pool.token_b} = {from, to} /\ from # to

(* What a pool gives for an amount, 0 where the code has no quote or a      *)
(* quote of 0: neither is ever chosen, and both are worth nothing.          *)
Output(pool, from, amount) ==
  LET in  == IF pool.token_a = from THEN pool.reserve_a ELSE pool.reserve_b
      out == IF pool.token_a = from THEN pool.reserve_b ELSE pool.reserve_a
      with_fee == amount * (Divisor - pool.fee)
  IN IF amount <= 0 \/ in <= 0 \/ out <= 0 \/ pool.token_a = pool.token_b \/ pool.fee >= Divisor
     THEN 0
     ELSE (with_fee * out) \div (in * Divisor + with_fee)

isqrt(n) == CHOOSE r \in 0..n : r * r <= n /\ n < (r + 1) * (r + 1)

depth_score(pool) ==
  IF pool.reserve_a <= 0 \/ pool.reserve_b <= 0 \/ pool.fee >= Divisor THEN 0
  ELSE isqrt(pool.reserve_a * pool.reserve_b)

(* The deeper pool comes first, of two that are equal the first in the map. *)
Deeper(p, q) ==
  \/ depth_score(pools[p]) > depth_score(pools[q])
  \/ depth_score(pools[p]) = depth_score(pools[q]) /\ p < q

Deepest(candidates) ==
  CHOOSE p \in candidates : \A q \in candidates \ {p} : Deeper(p, q)

(* The pools find_direct_path chooses from.                                 *)
Direct(from, to, amount) ==
  {p \in DOMAIN pools : /\ Joins(pools[p], from, to)
                        /\ depth_score(pools[p]) > 0
                        /\ Output(pools[p], from, amount) > 0}

(* A route has the tokens it passes, the pools between them, and what is    *)
(* left of the amount. It grows by the pools that lead to a token it has    *)
(* not passed and give something for what is left.                          *)
Last(r) == r.tokens[Len(r.tokens)]

Legs(r) ==
  {p \in DOMAIN pools : \E to \in Traded \ Range(r.tokens) :
     Joins(pools[p], Last(r), to) /\ Output(pools[p], Last(r), r.output) > 0}

OtherToken(pool, token) == IF pool.token_a = token THEN pool.token_b ELSE pool.token_a

Longer(r, p) == [tokens |-> Append(r.tokens, OtherToken(pools[p], Last(r))),
                 pools  |-> Append(r.pools, p),
                 output |-> Output(pools[p], Last(r), r.output)]

Start(from, amount) == [tokens |-> <<from>>, pools |-> <<>>, output |-> amount]

(* The routes that go on from some that have not arrived.                   *)
Grown(routes, to) == UNION {{Longer(r, p) : p \in Legs(r)} : r \in {s \in routes : Last(s) # to}}

(* The routes the search may end with, of up to MAX_PATH_LENGTH pools.      *)
Viable(from, to, amount) ==
  LET one == Grown({Start(from, amount)}, to)
      two == Grown(one, to)
  IN {r \in one \cup two \cup Grown(two, to) : Last(r) = to}

(* Where two routes part, the search tries the deeper pool first.           *)
Earlier(r, s) ==
  \E n \in DOMAIN r.pools \cap DOMAIN s.pools :
    /\ \A k \in 1..(n - 1) : r.pools[k] = s.pools[k]
    /\ r.pools[n] # s.pools[n] /\ Deeper(r.pools[n], s.pools[n])

First(routes) == CHOOSE r \in routes : \A s \in routes \ {r} : Earlier(r, s)

NoRoute == [tokens |-> <<>>, pools |-> <<>>, output |-> 0]

FirstOf(routes) == IF routes = {} THEN NoRoute ELSE First(routes)

(* Mutant: a deep pool that leads nowhere hides the others.                 *)
SearchOfDeepest(from, to, amount) ==
  FirstOf({r \in Viable(from, to, amount) : r.pools[1] = Deepest(Legs(Start(from, amount)))})

(* Depth first, turning back where nothing is left.                         *)
find_multi_hop_path(from, to, amount) == FirstOf(Viable(from, to, amount))

DirectRoute(r, to) ==
  LET candidates == Direct(Last(r), to, r.output)
  IN IF candidates = {} THEN NoRoute ELSE Longer(r, Deepest(candidates))

(* The deepest pool of either leg.                                          *)
find_xlm_hop_path(from, to, amount) ==
  LET half == DirectRoute(Start(from, amount), XLM)
  IN IF XLM \in {from, to} \/ half = NoRoute THEN NoRoute ELSE DirectRoute(half, to)

find_best_path(from, to, amount) ==
  LET direct == DirectRoute(Start(from, amount), to)
      xlm    == find_xlm_hop_path(from, to, amount)
  IN IF direct # NoRoute THEN direct
     ELSE IF xlm # NoRoute THEN xlm
     ELSE find_multi_hop_path(from, to, amount)

-----------------------------------------------------------------------------
(* Pools.                                                                   *)

Called == calls < MaxCalls /\ calls' = calls + 1

tokenVars == <<wallet, router_held, treasury, total_swaps, total_volume, total_fees, last_swap>>

(* Nothing looks at the fee or the tokens.                                  *)
AddPool(l) ==
  /\ Called
  /\ l.pool \notin DOMAIN pools
  /\ pools' = [p \in DOMAIN pools \cup {l.pool} |->
                 IF p = l.pool THEN Listed(l) ELSE pools[p]]
  /\ UNCHANGED <<oracle_paused, tokenVars>>

RemovePool(p) ==
  /\ Called
  /\ pools' = Restrict(pools, DOMAIN pools \ {p})
  /\ UNCHANGED <<oracle_paused, tokenVars>>

WithReserves(pool, a, b) == [pool EXCEPT !.reserve_a = a, !.reserve_b = b]

UpdatePoolReserves(p, a, b) ==
  /\ Called
  /\ ~oracle_paused
  /\ pools' = [pools EXCEPT ![p] = WithReserves(@, a, b)]
  /\ UNCHANGED <<oracle_paused, tokenVars>>

SetOraclePaused(b) ==
  /\ Called
  /\ oracle_paused' = b
  /\ UNCHANGED <<pools, tokenVars>>

-----------------------------------------------------------------------------
(* Swaps.                                                                   *)

(* calculate_single_swap_output: the first pool of the map that has both    *)
(* tokens, whichever a quote has chosen.                                    *)
SingleOutput(from, to, amount) ==
  LET joining == {p \in DOMAIN pools : Joins(pools[p], from, to)}
  IN IF joining = {} THEN 0 ELSE Output(pools[Min(joining)], from, amount)

PathOutput(path, amount) ==
  LET left[n \in 1..Len(path)] ==
        IF n = 1 THEN amount ELSE SingleOutput(path[n - 1], path[n], left[n - 1])
  IN left[Len(path)]

scale_bps(amount, bps) ==
  (amount \div Divisor) * bps + ((amount % Divisor) * bps) \div Divisor

(* Mutant: the minimum is not looked at.                                    *)
IgnoresMinimum(output, min_output) == min_output > 0

(* The minimum is compared with the output before the fee.                  *)
Acceptable(output, min_output) == min_output > 0 /\ output >= min_output

(* Nothing compares the ends of the path with the tokens that are paid.     *)
Swap(input, output, amount, min_output, path) ==
  LET expected == PathOutput(path, amount)
      fee      == scale_bps(expected, TreasuryBps)
      left     == [wallet EXCEPT ![input] = @ - amount]
      paid_in  == [router_held EXCEPT ![input] = @ + amount]
  IN /\ Called
     /\ Acceptable(expected, min_output)
     /\ wallet[input] >= amount
     /\ paid_in[output] >= expected
     /\ wallet' = [left EXCEPT ![output] = @ + (expected - fee)]
     /\ router_held' = [paid_in EXCEPT ![output] = @ - expected]
     /\ treasury' = [treasury EXCEPT ![output] = @ + fee]
     /\ total_swaps' = total_swaps + 1
     /\ total_volume' = total_volume + amount
     /\ total_fees' = total_fees + fee
     /\ last_swap' = [min_output |-> min_output, net_output |-> expected - fee]
     /\ UNCHANGED <<pools, oracle_paused>>

(* try_swap finds its own path. Where it does not succeed the whole call is *)
(* undone, the entry of the queue included.                                 *)
SwapWithRetry(input, output, amount, min_output) ==
  LET route == find_best_path(input, output, amount)
  IN route # NoRoute /\ Swap(input, output, amount, min_output, route.tokens)

-----------------------------------------------------------------------------
Next ==
  \/ \E l \in Listings : AddPool(l)
  \/ \E p \in DOMAIN pools : RemovePool(p) \/ \E a, b \in Reserves : UpdatePoolReserves(p, a, b)
  \/ \E b \in BOOLEAN : SetOraclePaused(b)
  \/ \E input, output \in Traded, amount \in SwapAmounts, min_output \in MinOutputs :
       \/ \E path \in Paths : Swap(input, output, amount, min_output, path)
       \/ input # output /\ SwapWithRetry(input, output, amount, min_output)

Spec == Init /\ [][Next]_routerVars

-----------------------------------------------------------------------------
(* Properties.                                                             *)

(* find_best_path finds a route wherever there is one, however deep the     *)
(* pools that lead nowhere ("a bad candidate must not hide a viable sibling *)
(* route", 938), and what it finds leads from the input to the output.     *)
RouteIsFound ==
  \A from \in Traded : \A to \in Traded \ {from} : \A amount \in SwapAmounts :
    LET route == find_best_path(from, to, amount)
    IN IF route = NoRoute THEN Viable(from, to, amount) = {}
       ELSE route \in Viable(from, to, amount)

(* However paths, reserves and pools change between the quote and the swap, *)
(* a user gets at least his minimum less the fee on it (the minimum itself, *)
(* which docs/SLIPPAGE_POLICY.md 16 promises, is not always received), and  *)
(* the statistics know every fee the treasury got.                          *)
SwapsAreFair ==
  /\ last_swap.net_output >= last_swap.min_output - scale_bps(last_swap.min_output, TreasuryBps)
  /\ total_fees = SumTo(treasury, NumTraded)
  /\ \A t \in Traded : wallet[t] + router_held[t] + treasury[t] = 2 * Funds

RouterKeepsItsWord == RouteIsFound /\ SwapsAreFair
=============================================================================
