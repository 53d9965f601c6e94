---------------------------- MODULE WriteHandlers ----------------------------
(***************************************************************************)
(* The scripts of the handlers that write, for RequestSession: which steps *)
(* touch the session, in the order of the code.  A loop is one turn of it, *)
(* rows that are written only under a condition are written, and reads are *)
(* left out.  First the services, then the endpoints with a unit of work   *)
(* of their own, then the routers, then who relies on which commit.        *)
(***************************************************************************)
EXTENDS Sequences, TLC

Check   == <<"check">>
Added   == <<"write", "flush">>
Changed == <<"check", "write", "flush">>    \* found, changed or deleted
Audit   == <<"write">>      \* audit_change adds a row and leaves the flush
Outbox  == <<"write">>      \* _emit_outbox
Event   == <<"publish">>
Commit  == <<"commit">>

\* Master data.
CreateProduct == Added \o Audit
UpdateProduct == Changed \o Audit
DeleteProduct == Changed \o Audit
CreateMachine == Added
UpdateMachine == Changed
DeleteMachine == Changed
CreateEmployee == Added
UpdateEmployee == Changed
DeleteEmployee == Changed
CreateOperation == Added
UpdateOperation == Changed
DeleteOperation == Changed
CreateCustomer == Added
UpdateCustomer == Changed
DeleteCustomer == Changed
CreateSupplier == Added
UpdateSupplier == Changed
DeleteSupplier == Changed
AddBomItem == Added
RemoveBomItem == Changed

\* Tenants.
CreateTenant == Added \o Event
ActivateTenant == Changed
SuspendTenant == Changed
UpdateSubscription == Changed
UpdateTenant == Changed

\* Rates.
SetLaborRate == Added \o Event
SetMachineRate == Added \o Event
SetOverheadRate == Added \o Event

\* Tenant configuration: the old version is closed, the new one added.
SetKey == <<"check", "write", "write", "flush", "publish">>
BulkSet == SetKey \o SetKey
RollbackConfig == Check \o SetKey
ImportSnapshot == SetKey \o SetKey

\* Moulds.
CreateMold == <<"check", "write">> \o Audit \o Added
RecomputeHealth == <<"write">> \o Audit \o <<"flush", "publish">>
PlanMaintenance == <<"write">> \o Audit \o <<"flush">>
StartMaintenance == Changed
CompleteMaintenance == Changed
EmitMaintenanceAlerts == <<"settled", "write", "publish", "flush">>

\* Planning runs.
RunMrp == <<"write">> \o Audit \o <<"flush", "publish", "publish">>
GenerateSchedule == <<"write">> \o Audit \o <<"flush", "publish">>
UpdateStatus == Changed \o Event
StartLive == Changed \o Audit
CompleteLive == Changed \o Audit

\* Transport batches.
CreateBatch == <<"write">> \o Audit \o <<"flush">>
AssignOrder == <<"write">> \o Audit \o <<"flush">>
RemoveOrder == Changed
RefreshFromOrders == <<"settled">> \o CreateBatch \o AssignOrder
FreezeBatch == Changed
DispatchBatch == Changed

\* Phases and routings.
UpsertPhaseConfig == <<"check", "write">> \o Audit \o <<"flush">>
UpdatePhaseSequence == Changed \o Audit
SetFlexible == Changed \o Audit

\* People.
\* An operation is made for the phase, with its audit row.
CreateAllocation ==
    <<"check", "write", "write", "flush", "write", "publish", "flush">>
CalculatePayroll == Added \o Event
RecordProductivity == Added \o Event

\* Quality.
RecordRework == Added \o Event
ResolveRework == Changed
ApproveRunbook == <<"check", "write">>

\* Supply.
RecordMovement == Changed
CreateMaterial == Changed
UpdateMinStock == Changed
AdjustStock == Check \o RecordMovement \o Event
CreateReconciliation == Added
ResolveReconciliation ==
    <<"check", "settled">> \o AdjustStock \o Added \o Event
RecomputeRop == <<"settled">> \o Added

\* Cancellations: the last row is the event of the outbox.
CancelWorkOrder == Changed \o Audit \o Outbox
CancelEncomenda == Changed \o Audit \o Outbox
RetireBoat == Changed \o Audit \o Outbox
DeactivateEmployee == Changed \o Audit \o Outbox

\* The governance ledger: its event of the outbox is the last row.
ProposeRun == <<"check", "write">> \o Audit \o <<"flush">> \o Outbox

\* YAML policies: each change with its revision.
ProposeRule == Changed \o Audit \o <<"write">>
ApproveRule == <<"check", "write", "write">>
RejectRule == <<"check", "write", "write">>
SuspendRule == <<"check", "write", "write">>
RollbackRule == <<"check", "write", "write">>

\* Learned preferences.
ConfirmPreference == Changed
RejectPreference == Changed
EditPreference == Changed

\* Sandbox, twin, suggestions: these services commit themselves.
CreateSandbox == Added \o Commit
ApplySuggestion == <<"check", "write", "commit">>
\* Two compare-and-swap statements.
SimulateSandbox == <<"check", "sql", "commit", "sql", "commit">>
CreateScenario == Added \o <<"write", "commit">>
DeleteScenario == <<"check", "write", "commit">>
ApplyDelta == <<"check", "write", "write", "commit">>
SimulateScenario == <<"check", "write", "commit", "write", "commit">>
ApproveSuggestion == <<"check", "write", "commit">>
RejectSuggestion == <<"check", "write", "commit">>
GenerateSuggestions == <<"settled">> \o Added \o Commit

\* Copilot.
StoreCopilotAudit == Added
IngestDocument == Added

\* Models.
PromoteModel == <<"check", "sql", "write", "flush">>

\* Plans.
RecordDecision == Changed
ApplyManualReorder == Changed \o Audit \o <<"commit", "publish">>
ApplyMove == Changed \o Audit \o Commit

\* Master data and plan inputs.
CreateBomItem == <<"check", "check">> \o AddBomItem \o Added \o Audit
UpdateBomItem == Changed \o Audit
DeleteBomItem == Check \o RemoveBomItem \o <<"flush">> \o Audit
UpsertOrderBoost == Added \o Audit
UpsertTransportDateOverride == Added \o Audit
UpsertBoatBoost == Added \o Audit
ExcludeBoat == Added \o Audit
ReincludeBoat == <<"settled", "sql", "flush">> \o Audit
PutPreferredOperators == <<"sql", "sql">> \o Audit
UpdatePhaseGap == Changed
CreateRevenueTarget == Added \o Audit
UpsertClientPriority == Added \o Audit
CreateUserInput == Added \o Audit
PatchUserInput == Changed \o Audit

\* Copilot, reports, people, learning.
CreateDecisionPr == <<"check", "settled">> \o Added \o Audit
RollbackAction == Changed \o <<"publish", "commit">>
CreateConversation == <<"write", "commit">>
SendMessage == Changed \o StoreCopilotAudit \o <<"write", "write", "commit">>
RenameConversation == <<"check", "write", "commit">>
ArchiveConversation == <<"check", "write", "commit">>
SubmitUserFeedback == <<"check", "write", "commit">>
AcknowledgeAlert == Changed
ResolveAlert == Changed
ScheduleReport == Added \o Audit \o Commit
EmailReport == Added \o <<"write">> \o Audit \o Commit
OverrideQualityScore == Added \o Audit \o Added \o Commit
ToggleSkill == Added \o Audit \o Added \o Commit
SetSectorLevel == Check \o Added \o Audit \o Added \o Commit
SoftDelete == <<"check", "settled">> \o Added \o Commit
PromoteAdapter == Check \o SetKey \o SetKey \o Commit
RollbackAdapter == Check \o SetKey \o Commit
UpdateRuleFiringOutcome == <<"check", "sql", "commit">>
SetProductPricing == Added

\* Decisions and plans.
ProposeDecision == <<"write", "flush">> \o Audit \o <<"flush">>
ApproveDecision ==
    <<"check", "write", "write", "flush", "write">> \o Audit
    \o <<"flush", "commit", "publish">>
BulkActDecisions == <<"write", "write">> \o Audit \o <<"flush", "commit">>
ModifyDecisionPayload == <<"check", "write">> \o Audit \o <<"flush", "commit">>
ExecuteDecision == <<"check", "write", "commit", "publish">>
RollbackDecision == <<"check", "write">> \o Audit \o <<"commit", "publish">>
ActivateKillSwitch ==
    ProposeRun \o <<"write", "write">> \o Audit \o <<"flush">>
DecideOnCommit == Check \o RecordDecision
ApproveCommit == <<"check", "write">> \o Audit \o Commit
ApproveScheduleJob == <<"check", "write">> \o Audit \o Commit

-----------------------------------------------------------------------------
\* The routers: what an endpoint adds to its service.
MachinesApi ==
    [create_machine |-> CreateMachine, update_machine |-> UpdateMachine,
     delete_machine |-> DeleteMachine]
EmployeesApi ==
    [create_employee |-> CreateEmployee, update_employee |-> UpdateEmployee,
     delete_employee |-> DeleteEmployee]
OperationsApi ==
    [create_operation |-> CreateOperation,
     update_operation |-> UpdateOperation,
     delete_operation |-> DeleteOperation]
CustomersApi ==
    [create_customer |-> CreateCustomer, update_customer |-> UpdateCustomer,
     delete_customer |-> DeleteCustomer]
SuppliersApi ==
    [create_supplier |-> CreateSupplier, update_supplier |-> UpdateSupplier,
     delete_supplier |-> DeleteSupplier]
RatesApi ==
    [create_labor_rate |-> SetLaborRate,
     create_machine_rate |-> SetMachineRate,
     create_overhead_rate |-> SetOverheadRate]
TenantsApi ==
    [create_tenant |-> CreateTenant, update_tenant |-> UpdateTenant,
     activate_tenant |-> ActivateTenant, suspend_tenant |-> SuspendTenant,
     update_subscription |-> UpdateSubscription]
TenantConfigApi ==
    [bulk_set |-> BulkSet, rollback |-> RollbackConfig,
     reset_to_default |-> Check \o SetKey, import_snapshot |-> ImportSnapshot,
     set_key |-> SetKey]
MoldsApi ==
    [create_mold |-> CreateMold, mold_scan_alerts |-> EmitMaintenanceAlerts,
     mold_propose_preventive |-> <<"settled">> \o PlanMaintenance,
     recompute_health |-> Check \o RecomputeHealth,
     plan_mold_maintenance |-> Check \o PlanMaintenance,
     start_mold_maintenance |-> StartMaintenance,
     complete_mold_maintenance |-> CompleteMaintenance]
PlanningApi == [generate_schedule |-> GenerateSchedule]
MrpApi == [calculate_mrp |-> RunMrp]
PhaseConfigApi == [put_phase_config |-> UpsertPhaseConfig]
PayrollApi == [calculate_payroll |-> CalculatePayroll]
ProductivityApi == [record_productivity |-> RecordProductivity]
ReworkApi == [create_rework |-> RecordRework, resolve_rework |-> ResolveRework]
MaterialsApi ==
    [create_material |-> CreateMaterial, patch_min_stock |-> UpdateMinStock]
PurchasingApi ==
    [create_reconciliation |-> CreateReconciliation,
     resolve_reconciliation |-> ResolveReconciliation]
StockApi == [adjust_stock |-> AdjustStock]
PreferencesApi ==
    [confirm_preference_rule |-> ConfirmPreference,
     reject_preference_rule |-> RejectPreference,
     patch_preference_rule |-> EditPreference]
ModelsApi == [promote_version |-> PromoteModel]
CopilotAskApi == [ask_copilot |-> StoreCopilotAudit]
RagApi == [ingest_rag_document |-> IngestDocument]
ProductsApi ==
    [create_product |-> CreateProduct, update_product |-> UpdateProduct,
     delete_product |-> DeleteProduct]
RoutingsApi ==
    [update_template_sequence |-> UpdatePhaseSequence,
     set_phase_flexible |-> SetFlexible]
GovernanceApi == [propose_governance_decision |-> ProposeRun]
TransportApi ==
    [create_batch |-> CreateBatch \o Commit,
     refresh_batches_from_orders |-> RefreshFromOrders \o Commit,
     assign_order |-> Check \o AssignOrder \o Commit,
     remove_order |-> Check \o RemoveOrder \o Commit,
     freeze_batch |-> FreezeBatch \o Commit,
     dispatch_batch |-> DispatchBatch \o Commit]
ExecutionApi ==
    [start_operation |-> UpdateStatus \o Commit,
     complete_operation |-> UpdateStatus \o Commit,
     start_live_operation |-> StartLive \o Commit,
     complete_live_operation |-> CompleteLive \o Commit]
AllocationsApi == [create_daily_allocation |-> CreateAllocation \o Commit]
MovementsApi == [record_inventory_movement |-> RecordMovement \o Commit]
RopApi == [trigger_rop_recompute |-> RecomputeRop \o Commit]
CancelApi ==
    [cancel_work_order |-> CancelWorkOrder \o Commit,
     cancel_encomenda |-> CancelEncomenda \o Commit,
     retire_boat |-> RetireBoat \o Commit,
     deactivate_employee |-> DeactivateEmployee \o Commit]
PoliciesApi ==
    [propose_rule |-> Check \o ProposeRule \o Commit,
     approve_rule |-> ApproveRule \o Commit,
     reject_rule |-> RejectRule \o Commit,
     suspend_rule |-> SuspendRule \o Commit,
     rollback_rule |-> RollbackRule \o Commit]
RunbooksApi == [approve_runbook |-> ApproveRunbook \o Commit]
SandboxApi ==
    [create_sandbox |-> CreateSandbox,
     apply_suggestion_to_sandbox |-> ApplySuggestion,
     simulate_sandbox |-> SimulateSandbox]
TwinApi ==
    [create_scenario |-> CreateScenario, delete_scenario |-> DeleteScenario,
     apply_delta |-> ApplyDelta, simulate_scenario |-> SimulateScenario]
ImproveApi ==
    [generate_suggestions |-> GenerateSuggestions,
     approve_suggestion |-> ApproveSuggestion,
     reject_suggestion |-> RejectSuggestion]
ReorderApi == [reorder_operation |-> ApplyManualReorder]
PreviewApi == [apply_move |-> ApplyMove]

-----------------------------------------------------------------------------
\* Handlers whose last step is a flush: nobody commits.
OwnForgetful ==
    [update_phase_gap |-> UpdatePhaseGap,
     acknowledge_alert |-> AcknowledgeAlert, resolve_alert |-> ResolveAlert,
     set_product_pricing |-> SetProductPricing,
     propose_decision |-> ProposeDecision,
     activate_kill_switch |-> ActivateKillSwitch,
     decide_on_commit |-> DecideOnCommit]
Forgetful ==
    MachinesApi @@ EmployeesApi @@ OperationsApi @@ CustomersApi @@
    SuppliersApi @@ RatesApi @@ TenantsApi @@ TenantConfigApi @@ MoldsApi @@
    PlanningApi @@ MrpApi @@ PhaseConfigApi @@ PayrollApi @@ ProductivityApi
    @@ ReworkApi @@ MaterialsApi @@ PurchasingApi @@ StockApi @@
    PreferencesApi @@ ModelsApi @@ CopilotAskApi @@ RagApi @@ OwnForgetful

\* Handlers with something unflushed at the end, mostly an audit row.
OwnSaved ==
    [create_bom_item |-> CreateBomItem, update_bom_item |-> UpdateBomItem,
     delete_bom_item |-> DeleteBomItem,
     upsert_order_boost |-> UpsertOrderBoost,
     upsert_transport_date_override |-> UpsertTransportDateOverride,
     upsert_boat_boost |-> UpsertBoatBoost, exclude_boat |-> ExcludeBoat,
     reinclude_boat |-> ReincludeBoat,
     put_preferred_operators |-> PutPreferredOperators,
     create_revenue_target |-> CreateRevenueTarget,
     upsert_client_priority |-> UpsertClientPriority,
     create_user_input |-> CreateUserInput,
     patch_user_input |-> PatchUserInput,
     create_decision_pr |-> CreateDecisionPr]
SavedAtClose ==
    ProductsApi @@ RoutingsApi @@ GovernanceApi @@ OwnSaved

\* Handlers that commit before they answer.
OwnCommitting ==
    [rollback_action |-> RollbackAction,
     create_conversation |-> CreateConversation, send_message |-> SendMessage,
     rename_conversation |-> RenameConversation,
     archive_conversation |-> ArchiveConversation,
     submit_user_feedback |-> SubmitUserFeedback,
     schedule_report |-> ScheduleReport, email_report |-> EmailReport,
     override_quality_score |-> OverrideQualityScore,
     toggle_skill |-> ToggleSkill, set_sector_level |-> SetSectorLevel,
     soft_delete |-> SoftDelete, promote_adapter |-> PromoteAdapter,
     rollback_adapter |-> RollbackAdapter,
     update_rule_firing_outcome |-> UpdateRuleFiringOutcome,
     approve_decision |-> ApproveDecision,
     bulk_act_decisions |-> BulkActDecisions,
     modify_decision_payload |-> ModifyDecisionPayload,
     execute_decision |-> ExecuteDecision,
     rollback_decision |-> RollbackDecision, approve_commit |-> ApproveCommit,
     approve_schedule_job |-> ApproveScheduleJob]
Committing ==
    TransportApi @@ ExecutionApi @@ AllocationsApi @@ MovementsApi @@ RopApi
    @@ CancelApi @@ PoliciesApi @@ RunbooksApi @@ SandboxApi @@ TwinApi @@
    ImproveApi @@ ReorderApi @@ PreviewApi @@ OwnCommitting

Catalogue == Forgetful @@ SavedAtClose @@ Committing
=============================================================================
