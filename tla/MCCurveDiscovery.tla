--------------------------- MODULE MCCurveDiscovery ---------------------------
(* Pools for TLC: b, the plain base pool of a reserve r, and m, its          *)
(* metapool of the IOU i, both built by Clear's deployer d; s, a stranger's  *)
(* plain pool that shares a coin with b; and o, an unresolvable one.         *)
EXTENDS CurveDiscovery

CONSTANTS b, m, s, o, r, d, x, y, i, stranger, h1, h2

MCTruth ==
  (b :> [meta |-> FALSE, reserve |-> r, basePool |-> b, coin |-> NoAddr, deployer |-> d,
         coins |-> <<x, y>>]) @@
  (m :> [meta |-> TRUE, reserve |-> r, basePool |-> b, coin |-> i, deployer |-> d,
         coins |-> <<i, b>>]) @@
  (s :> [meta |-> FALSE, reserve |-> NoAddr, basePool |-> NoAddr, coin |-> NoAddr,
         deployer |-> stranger, coins |-> <<y>>]) @@
  (o :> [meta |-> FALSE, reserve |-> NoAddr, basePool |-> NoAddr, coin |-> NoAddr,
         deployer |-> stranger, coins |-> <<x>>])

Curve(p, n) == [event |-> "CurvePoolDeployed", pool |-> p, block |-> n]
Clear(p, n) == [event |-> "PoolDeployed", pool |-> p, block |-> n]
Swap(p, n)  == [event |-> "TokenExchange", pool |-> p, block |-> n]
Under(p, n) == [event |-> "TokenExchangeUnderlying", pool |-> p, block |-> n]
Lp(p, n, from, to, v) ==
  [event |-> "Transfer", pool |-> p, block |-> n, from |-> from, to |-> to, value |-> v]
Liquidity(e, p, n, v) == [event |-> e, pool |-> p, block |-> n, supply |-> v]

\* A constructor's Transfer, before the pool is announced.
Built(p, n) == Lp(p, n, NoAddr, CurveFactory, 0)

\* Each order of the two deployment events, pools deployed in one block, a swap
\* in the deployment's own block, and pools that Clear did not deploy.  A pool
\* mints or burns its LP token before it announces the liquidity event.
MCStreams == {
  <<Built(b, 1), Curve(b, 1), Clear(b, 1),
    Lp(b, 1, NoAddr, h1, 4), Liquidity("AddLiquidity", b, 1, 4), Curve(m, 1), Clear(m, 1),
    Under(m, 1), Lp(b, 2, h1, h2, 1), Lp(b, 2, h2, NoAddr, 1),
    Liquidity("RemoveLiquidity", b, 2, 3)>>,
  <<Clear(b, 1), Clear(m, 1), Curve(b, 1), Swap(b, 1), Curve(m, 2),
    Lp(m, 2, NoAddr, h2, 2), Liquidity("AddLiquidity", m, 2, 2),
    Lp(m, 3, h2, NoAddr, 2), Liquidity("RemoveLiquidityOne", m, 3, 0)>>,
  <<Curve(o, 1), Lp(o, 1, NoAddr, h1, 1), Curve(s, 1),
    Lp(s, 1, NoAddr, h1, 3), Liquidity("AddLiquidity", s, 1, 3), Curve(b, 2),
    Lp(s, 3, h1, NoAddr, 2), Liquidity("RemoveLiquidityImbalance", s, 3, 1), Swap(s, 3),
    Clear(b, 3)>>}
=============================================================================
