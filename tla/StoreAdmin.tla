------------------------------ MODULE StoreAdmin ------------------------------
(***************************************************************************)
(* The slices of the store behind the administration pages: tenants and    *)
(* their users, user groups, API keys, custom fields, and the user's own   *)
(* work queues.  See Effects for the vocabulary.                           *)
(***************************************************************************)
EXTENDS Effects

(* ---- adminSlice: one flag and one error for the whole console ---- *)
AdminCalls ==
    [fetchTenants |-> "all", createTenant |-> "new", disableTenant |-> "write",
     fetchTenantUsers |-> "of", createTenantUser |-> "write",
     updateTenantUser |-> "write", setTenantUserRole |-> "write",
     deactivateTenantUser |-> "write", reactivateTenantUser |-> "write",
     resetUserPassword |-> "write", signInAsTenant |-> "write"]

AdminCases ==
    LET Busy(effects) == Spins("loading", "error", effects)
    IN  [fetchTenants |-> Busy({Put("tenants")}),
         createTenant |-> Busy({Add("tenants")}),
         disableTenant |-> Busy({Merge("tenants")}),
         fetchTenantUsers |-> Busy({Put("tenantUsers")}),
         createTenantUser |-> Busy({Add("tenantUsers")}),
         updateTenantUser |-> Busy({Merge("tenantUsers")}),
         setTenantUserRole |-> Busy({Merge("tenantUsers")}),
         deactivateTenantUser |-> Busy({Merge("tenantUsers")}),
         reactivateTenantUser |-> Busy({Merge("tenantUsers")}),
         resetUserPassword |-> Busy({}),
         signInAsTenant |-> Busy({})]

(* ---- tenantAdminSlice: three writes lower a flag they never raised ---- *)
TenantAdminCalls ==
    [fetchTenantSettings |-> "all", updateTenantSettings |-> "new",
     fetchUsers |-> "all", createUser |-> "new", updateUser |-> "write",
     setUserRole |-> "write", deactivateUser |-> "write",
     reactivateUser |-> "write"]

TenantAdminCases ==
    LET Busy(effects) == Spins("loading", "error", effects)
        Lowers == Settles({Merge("users"), Down("loading")})
    IN  [fetchTenantSettings |-> Busy({Put("settings")}),
         updateTenantSettings |-> Busy({Put("settings")}),
         fetchUsers |-> Busy({Put("users")}),
         createUser |-> Busy({Add("users")}),
         updateUser |-> Busy({Merge("users")}),
         setUserRole |-> Lowers, deactivateUser |-> Lowers,
         reactivateUser |-> Lowers]

(* ---- userGroupSlice ---- *)
UserGroupCalls ==
    [fetchUserGroups |-> "query", fetchUserGroup |-> "id",
     createUserGroup |-> "new", updateUserGroup |-> "write",
     deleteUserGroup |-> "write", fetchGroupMembers |-> "of",
     addGroupMember |-> "write", removeGroupMember |-> "write"]

UserGroupCases ==
    LET Read(f) == Case({}, {Put(f), NoErr("error")}, {Err("error")})
    IN  [fetchUserGroups |-> Spins("loading", "error", {Put("groups")}),
         fetchUserGroup |-> Read("currentGroup"),
         createUserGroup |-> Unseen, updateUserGroup |-> Unseen,
         deleteUserGroup |-> Unseen,
         fetchGroupMembers |-> Read("members"),
         addGroupMember |-> Settles({Add("members")}),
         removeGroupMember |-> Settles({Merge("members")})]

(* ---- apiKeySlice ---- *)
ApiKeyCalls ==
    [fetchApiKeys |-> "all", createApiKey |-> "new", revokeApiKey |-> "write"]

ApiKeyCases ==
    [fetchApiKeys |-> Spins("loading", "error", {Put("items")}),
     createApiKey |-> Settles({Put("justCreated"), Add("items")}),
     revokeApiKey |-> Settles({Merge("items")})]

ApiKeyReducers == [clearJustCreated |-> {Wipe("justCreated")}]

(* ---- customFieldSlice: definitions are kept per entity type ---- *)
CustomFieldCalls ==
    [fetchDefinitions |-> "of", createDefinition |-> "write",
     updateDefinition |-> "write", deleteDefinition |-> "write"]

CustomFieldCases ==
    [fetchDefinitions |-> Spins("loading", "error", {PutAt("definitions")}),
     createDefinition |-> Settles({AddAt("definitions")}),
     updateDefinition |-> Settles({MergeAt("definitions")}),
     deleteDefinition |-> Case({}, {MergeAt("definitions")}, {Err("error")})]

(* ---- myWorkSlice ---- *)
MyWorkCalls == [fetchMyWork |-> "all"]

MyWorkCases == [fetchMyWork |-> Spins("loading", "error", {Put("data")})]

AdminStore ==
    [admin |-> Slice(AdminCalls, AdminCases, NoReducers),
     tenantAdmin |-> Slice(TenantAdminCalls, TenantAdminCases, NoReducers),
     userGroup |-> Slice(UserGroupCalls, UserGroupCases, NoReducers),
     apiKey |-> Slice(ApiKeyCalls, ApiKeyCases, ApiKeyReducers),
     customField |-> Slice(CustomFieldCalls, CustomFieldCases, NoReducers),
     myWork |-> Slice(MyWorkCalls, MyWorkCases, NoReducers)]
=============================================================================
