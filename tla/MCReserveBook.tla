---------------------------- MODULE MCReserveBook ----------------------------
(* A base reserve of two assets and a meta reserve on it, for TLC.           *)
EXTENDS ReserveBook

CONSTANTS x, y  \* the base reserve's assets

MCBaseAssets == <<x, y>>
MCBaskets    == {<<1, 2>>}

\* Units with 17 decimals for y, so that one is worth ten.
MCScale == [a \in Tokens |-> IF a = y THEN 10 ELSE 1]

Deployment(first, second, indexed) == [legs |-> <<first, second>>, indexed |-> indexed]

\* Everything indexed; the factory not indexed and the base LP listed first;
\* the base reserve not indexed, with and without the factory.
MCSetups == {
  Deployment(Native, Base, {Base, Meta, Factory, Oracle}),
  Deployment(Base, Native, {Base, Meta}),
  Deployment(Native, Base, {Meta}),
  Deployment(Base, Native, {Meta, Factory})}

AllIndexed == {Deployment(Native, Base, {Base, Meta, Factory, Oracle})}
=============================================================================
