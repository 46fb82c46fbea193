------------------------------- MODULE MC_Node -------------------------------
(* Small instances of Node for TLC.                                        *)
EXTENDS Node

(* A source, a sink and the importer: a repeatable type that the shutdown *)
(* sequence names, one it leaves to the end, and a singleton.             *)
MCCommands == {<<"source", "csv">>, <<"sink", "json">>, <<"importer", "">>}

(* A source only, spawned and crashed repeatedly.                          *)
MCSourceCommands == {<<"source", "csv">>}

(* The importer only.                                                      *)
MCImporterCommands == {<<"importer", "">>}

(* No status invocation.                                                   *)
MCNoStatus == {}

MCNoPut == {}

MCPutTypes == {"importer"}

(* Components announced by `put` as sinks.                                 *)
MCSinkPut == {"sink"}

MCNoExplicitLabels == {}

(* A caller-chosen label for a singleton.                                  *)
MCExplicitLabels == {Label("my-importer", 0)}

(* A caller-chosen label that no generated label can equal.               *)
MCSinkLabel == {Label("my-sink", 0)}
==============================================================================
