--------------------------- MODULE MCStateStore ---------------------------
(***************************************************************************)
(* Small instances of StateStore: two stores and one import (or two), two  *)
(* incidents of which the legacy database has one, in its old revision.    *)
(***************************************************************************)
EXTENDS StateStore, TLC

CONSTANTS gateway, cron, import, again, k1, k2

LegacyOne == {<<k1, 1>>}
=============================================================================
