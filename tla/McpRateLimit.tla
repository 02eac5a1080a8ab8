---------------------------- MODULE McpRateLimit ----------------------------
(***************************************************************************)
(* packages/ai/src/mcp/rateLimit.ts: the sliding window of a tenant, which *)
(* the MCP transport checks on every request, and the one of an IP address *)
(* with its block.  Both run in one process; the clock is in ticks.        *)
(*                                                                         *)
(* A list of timestamps is the set of its entries <<t, n>>: the n-th of    *)
(* those with the timestamp t.                                             *)
(***************************************************************************)
EXTENDS Integers, FiniteSets

CONSTANTS
  TenantLimit,   \* rpm + burst
  IpLimit,       \* ipRpm
  SlidingWindow, \* WINDOW_MS
  BlockTime,     \* the block of an address, 5 minutes
  MaxMcpTime     \* bound: the clock

ASSUME McpAssumption ==
  /\ TenantLimit \in Nat /\ IpLimit \in Nat /\ MaxMcpTime \in Nat
  /\ SlidingWindow \in Nat \ {0} /\ BlockTime \in Nat

VARIABLES
  tick,
  tenantStamps, ipStamps,  \* timestamps of the two buckets
  blockedUntil,            \* 0 when the address is not blocked
  passed, ipPassed,        \* history: the requests let through, as entries
  lastBlock                \* history: when the address was last blocked, -1 for never

mcpVars == <<tick, tenantStamps, ipStamps, blockedUntil, passed, ipPassed, lastBlock>>

McpTimes == 0..MaxMcpTime

\* The entries with a time from..to.
Between(entries, from, to) == {e \in entries : from <= e[1] /\ e[1] <= to}
\* The entry of a request that passes now.
Stamp(entries) == <<tick, Cardinality(Between(entries, tick, tick)) + 1>>
Stamped(entries) == entries \cup {Stamp(entries)}

\* Mutant: entries leave the window one tick too early.
TrimmedEarly(entries) == {e \in entries : e[1] > tick - SlidingWindow + 1}

\* Entries outside the window are dropped on every check.
Trimmed(entries) == {e \in entries : e[1] > tick - SlidingWindow}

-----------------------------------------------------------------------------
McpInit ==
  /\ tick = 0
  /\ tenantStamps = {} /\ ipStamps = {} /\ blockedUntil = 0
  /\ passed = {} /\ ipPassed = {} /\ lastBlock = -1

\* SlidingWindowRateLimiter.check
TenantCheck ==
  /\ IF Cardinality(Trimmed(tenantStamps)) >= TenantLimit
     THEN tenantStamps' = Trimmed(tenantStamps) /\ UNCHANGED passed
     ELSE tenantStamps' = Stamped(Trimmed(tenantStamps)) /\ passed' = Stamped(passed)
  /\ UNCHANGED <<tick, ipStamps, blockedUntil, ipPassed, lastBlock>>

\* IpRateLimiter.check of an address that is not blocked, or no longer.
IpPasses ==
  /\ tick >= blockedUntil
  /\ Cardinality(Trimmed(ipStamps)) < IpLimit
  /\ ipStamps' = Stamped(Trimmed(ipStamps))
  /\ blockedUntil' = 0
  /\ ipPassed' = Stamped(ipPassed)
  /\ UNCHANGED <<tick, tenantStamps, passed, lastBlock>>

\* It is over the limit: it is blocked.
IpBlocks ==
  /\ tick >= blockedUntil
  /\ Cardinality(Trimmed(ipStamps)) >= IpLimit
  /\ ipStamps' = Trimmed(ipStamps)
  /\ blockedUntil' = tick + BlockTime
  /\ lastBlock' = tick
  /\ UNCHANGED <<tick, tenantStamps, passed, ipPassed>>

\* reset of a tenant's bucket.
TenantReset ==
  /\ tenantStamps # {}
  /\ tenantStamps' = {}
  /\ passed' = {}
  /\ UNCHANGED <<tick, ipStamps, blockedUntil, ipPassed, lastBlock>>

\* IpRateLimiter.isBlocked, also from getStatus: a block that is over is removed.
IpUnblocks ==
  /\ blockedUntil # 0 /\ tick >= blockedUntil
  /\ blockedUntil' = 0
  /\ UNCHANGED <<tick, tenantStamps, ipStamps, passed, ipPassed, lastBlock>>

\* IpRateLimiter.reset drops the block with the timestamps.
IpReset ==
  /\ ipStamps # {} \/ blockedUntil # 0
  /\ ipStamps' = {} /\ blockedUntil' = 0
  /\ ipPassed' = {} /\ lastBlock' = -1
  /\ UNCHANGED <<tick, tenantStamps, passed>>

McpTick ==
  /\ tick < MaxMcpTime
  /\ tick' = tick + 1
  /\ UNCHANGED <<tenantStamps, ipStamps, blockedUntil, passed, ipPassed, lastBlock>>

McpNext ==
  \/ TenantCheck \/ TenantReset
  \/ IpPasses \/ IpBlocks \/ IpUnblocks \/ IpReset
  \/ McpTick

McpSpec == McpInit /\ [][McpNext]_mcpVars

-----------------------------------------------------------------------------
McpEntries == McpTimes \X (Nat \ {0})

\* The type invariant: the buckets never hold more than their limits.
McpTypeOK ==
  /\ tick \in McpTimes
  /\ tenantStamps \subseteq McpEntries /\ Cardinality(tenantStamps) <= TenantLimit
  /\ ipStamps \subseteq McpEntries /\ Cardinality(ipStamps) <= IpLimit
  /\ blockedUntil \in 0..(MaxMcpTime + BlockTime)

\* The window slides: in every stretch of time as long as the window, wherever
\* it starts, at most the limit is let through, by tenant and by address.
EveryWindowHolds ==
  \A t \in 0..tick :
    /\ Cardinality(Between(passed, t, t + SlidingWindow - 1)) <= TenantLimit
    /\ Cardinality(Between(ipPassed, t, t + SlidingWindow - 1)) <= IpLimit

\* A block lasts: nothing of the address passes within BlockTime of its block.
BlockLasts ==
  lastBlock >= 0 => Between(ipPassed, lastBlock + 1, lastBlock + BlockTime - 1) = {}

\* What holds of the two limiters in every state: types, the limit in every
\* window, and the length of a block.
McpInvariant == McpTypeOK /\ EveryWindowHolds /\ BlockLasts
=============================================================================
