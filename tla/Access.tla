------------------------------- MODULE Access -------------------------------
(***************************************************************************)
(* Who may call what: the permissions of a role (ROLE_PERMISSIONS) and the *)
(* guards of the HTTP controllers (JwtAuthGuard, then PermissionsGuard).   *)
(* The role a guard judges by is the one in the access token, written when *)
(* the token was signed; users.role is not read again.                     *)
(***************************************************************************)

\* The permissions the modelled controllers ask for, by area.
CatalogPermissions ==
    {"ORGANIZER_CREATE", "ORGANIZER_UPDATE_OWN", "ORGANIZER_SUBMIT_OWN",
     "EVENT_CREATE_OWN", "EVENT_UPDATE_OWN", "EVENT_PUBLISH_OWN", "EVENT_CANCEL_OWN",
     "PAYMENT_INITIATE_OWN"}

SupportPermissions ==
    {"ADMIN_SUPPORT_READ_USERS", "ADMIN_SUPPORT_READ_ORGANIZERS",
     "ADMIN_SUPPORT_READ_EVENTS", "ADMIN_SUPPORT_READ_PAYMENTS",
     "ADMIN_SUPPORT_READ_TICKETS", "ADMIN_SUPPORT_READ_ADMISSIONS",
     "ADMIN_SUPPORT_READ_AUDIT_LOGS"}

ROLE_PERMISSIONS ==
    [CUSTOMER   |-> CatalogPermissions,
     ORGANIZER  |-> CatalogPermissions,
     GATE_STAFF |-> {},
     ADMIN      |-> CatalogPermissions \cup SupportPermissions]

AppRoles == DOMAIN ROLE_PERMISSIONS

\* PermissionsGuard.canActivate: every required permission is granted.
Permitted(role, required) == required \subseteq ROLE_PERMISSIONS[role]
=============================================================================
