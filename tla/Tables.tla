------------------------------- MODULE Tables --------------------------------
(***************************************************************************)
(* The tables that copy what Proxmox shows: the inventory of VMs and the    *)
(* catalogue of templates and ISO files.  They have no row in common; what  *)
(* is said of both is put together here.                                    *)
(***************************************************************************)
EXTENDS Inventory, Catalog

(* What the tables may hold (inventory_service.py; background_sync.py).      *)
TablesTypeOK == InvTypeOK /\ CatTypeOK

(* Rows and assignments that go (inventory_service.py; sync.py).             *)
RowsGo == PassKeepsNamed /\ OrphansAreGone
=============================================================================
