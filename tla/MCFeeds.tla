------------------------------- MODULE MCFeeds -------------------------------
(* Every kind of feed, and those whose promises two runs refute.           *)
EXTENDS Feeds

MCKinds == {"rooms", "online", "tournaments", "entries", "roster", "home"}
MCEntries == {"entries"}
MCOnline == {"online"}
=============================================================================
