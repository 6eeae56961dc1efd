---------------------------- MODULE MinerRegistry ----------------------------
(***************************************************************************)
(* The models the pool knows (minerRegistry.js): the difficulty a machine  *)
(* starts with and the floor below which VarDiff may not take it.  An      *)
(* agent stands for every user-agent string whose first matching pattern   *)
(* is that of the model of this name, or for the strings that match none;  *)
(* the memo of identify, a pure function, is left out.                     *)
(***************************************************************************)
EXTENDS Integers

Model(agent, optimal, floor) ==
    [name |-> agent, optimalDifficulty |-> optimal, vardiffFloor |-> floor]

BitmainModels == {
    Model("antminer-l9", 131072, 65536),
    Model("antminer-l11-pro", 524288, 262144),
    Model("antminer-l11-hydro", 524288, 524288),
    Model("antminer-l11", 524288, 262144),
    Model("antminer-u2l9h", 524288, 262144),
    Model("antminer-l7-pro", 131072, 65536) }

OlderBitmainModels == {
    Model("antminer-l7", 131072, 32768),
    Model("antminer-l3plus", 512, 256) }

ElphapexModels == {
    Model("elphapex-dg2plus", 524288, 262144),
    Model("elphapex-dg2", 524288, 131072),
    Model("elphapex-dg-hydro1", 524288, 131072),
    Model("elphapex-dg1plus", 131072, 65536),
    Model("elphapex-dg1", 65536, 32768),
    Model("elphapex-dg-home1", 32768, 8192) }

VolcminerModels == {
    Model("volcminer-d1-hydro", 524288, 524288),
    Model("volcminer-d3", 524288, 131072),
    Model("volcminer-d1", 32768, 8192) }

GoldshellModels == {
    Model("goldshell-lt6", 32768, 16384),
    Model("goldshell-lt5pro", 32768, 8192),
    Model("goldshell-lt5", 32768, 8192),
    Model("goldshell-lt-lite", 8192, 2048),
    Model("goldshell-edg1m", 8192, 1024) }

OtherModels == {
    Model("bitdeer-sealminer-dl1", 131072, 32768),
    Model("fluminer-l1", 32768, 8192) }

Models == BitmainModels \cup OlderBitmainModels \cup ElphapexModels
            \cup VolcminerModels \cup GoldshellModels \cup OtherModels

UNKNOWN_DEFAULTS == Model("unknown", 32768, 8192)

\* identify returns null for a user-agent that no pattern matches.
Identified(agent) == \E m \in Models : m.name = agent
Profile(agent) ==
    IF Identified(agent) THEN CHOOSE m \in Models : m.name = agent ELSE UNKNOWN_DEFAULTS
getOptimalDifficulty(agent) == Profile(agent).optimalDifficulty
getVardiffFloor(agent) == Profile(agent).vardiffFloor
=============================================================================
