-------------------------- MODULE MCWriteHandlers --------------------------
(* RequestSession with the handlers of the program.                         *)
EXTENDS RequestSession, WriteHandlers

MCHandlers == DOMAIN Catalogue
MCDurable  == DOMAIN Committing
MCSaved    == DOMAIN SavedAtClose
MCFlushing == DOMAIN Forgetful
\* Who publishes before its commit: the last six commit, the others never do.
MCEarly ==
    {"create_labor_rate", "create_machine_rate", "create_overhead_rate",
     "create_tenant", "bulk_set", "rollback", "reset_to_default", "set_key",
     "import_snapshot", "mold_scan_alerts", "recompute_health",
     "generate_schedule", "calculate_mrp", "calculate_payroll",
     "record_productivity", "create_rework", "resolve_reconciliation",
     "adjust_stock",
     "start_operation", "complete_operation", "create_daily_allocation",
     "rollback_action", "promote_adapter", "rollback_adapter"}

=============================================================================
