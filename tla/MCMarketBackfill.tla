-------------------------- MODULE MCMarketBackfill --------------------------
EXTENDS MarketBackfill

\* Binance has every minute, or none between the first and the last.
MCListings == {1 .. 4, {1, 4}}
=============================================================================
