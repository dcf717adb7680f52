---------------------------- MODULE MCRepairSheet ----------------------------
EXTENDS RepairSheet
=============================================================================
