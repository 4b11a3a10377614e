---------------------------- MODULE MCRoundRobin ----------------------------
(* An instance of RoundRobin for TLC: two agents, ann before bob.          *)
EXTENDS RoundRobin, TLC

CONSTANTS ann, bob

MCRoster == <<ann, bob>>

(* Savers are interchangeable, and pollers are.                            *)
WorkerSymmetry == Permutations(Savers) \cup Permutations(Pollers)
=============================================================================
