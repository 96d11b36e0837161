---------------------------- MODULE ReturnCodes ----------------------------
(***************************************************************************)
(* The exit codes of fs-updater: one record per enum class of              *)
(* fs_updater_error.h, with the enumerators as fields.                     *)
(***************************************************************************)
EXTENDS Naturals

FIRMWARE_STATE == [UPDATE_SUCCESSFUL |-> 0, UPDATE_PROGRESS_ERROR |-> 1,
                   UPDATE_INTERNAL_ERROR |-> 2, UPDATE_SYSTEM_ERROR |-> 3]

APPLICATION_STATE == [UPDATE_SUCCESSFUL |-> 4, UPDATE_PROGRESS_ERROR |-> 5,
                      UPDATE_INTERNAL_ERROR |-> 6, UPDATE_SYSTEM_ERROR |-> 7]

FIRMWARE_AND_APPLICATION_STATE ==
    [UPDATE_SUCCESSFUL |-> 8, UPDATE_PROGRESS_ERROR |-> 9,
     UPDATE_INTERNAL_ERROR |-> 10, UPDATE_SYSTEM_ERROR |-> 11]

UPDATE_ROLLBACK_STATE == [SUCCESSFUL |-> 12, PROGRESS_ERROR |-> 13,
                          INTERNAL_ERROR |-> 14, SYSTEM_ERROR |-> 15]

COMMIT_STATE == [COMMIT_SUCCESSFUL |-> 16, NOT_NEEDED |-> 17,
                 NOT_ALLOWED_UBOOT_STATE |-> 18, SYSTEM_ERROR |-> 19]

\* The field names are also the names of the U-Boot states they report.
UPDATE_REBOOT_STATE ==
    [FAILED_APP_UPDATE |-> 20, FAILED_FW_UPDATE |-> 21,
     FW_UPDATE_REBOOT_FAILED |-> 22,
     INCOMPLETE_FW_UPDATE |-> 23, INCOMPLETE_APP_UPDATE |-> 24,
     INCOMPLETE_APP_FW_UPDATE |-> 25,
     UPDATE_REBOOT_PENDING |-> 26, NO_UPDATE_REBOOT_PENDING |-> 27,
     ROLLBACK_FW_REBOOT_PENDING |-> 28, ROLLBACK_APP_REBOOT_PENDING |-> 29,
     ROLLBACK_APP_FW_REBOOT_PENDING |-> 30,
     INCOMPLETE_FW_ROLLBACK |-> 31, INCOMPLETE_APP_ROLLBACK |-> 32,
     INCOMPLETE_APP_FW_ROLLBACK |-> 33]

IS_UPDATE_AVAILABLE_STATE ==
    [NO_UPDATE_AVAILABLE |-> 34, FIRMWARE_UPDATE_AVAILABLE |-> 35,
     APPLICATION_UPDATE_AVAILABLE |-> 36,
     FIRMWARE_AND_APPLICATION_UPDATE_AVAILABLE |-> 37]

DOWNLOAD_UPDATE_STATE == [NO_DOWNLOAD_QUEUED |-> 38, STARTED |-> 39,
                          STARTED_BEFORE |-> 40, FAILED |-> 41]

DOWNLOAD_PROGRESS_STATE ==
    [NO_DOWNLOAD_STARTED |-> 42, WAITING_TO_START |-> 43,
     IN_PROGRESS |-> 44, FINISHED |-> 45]

\* Mutant: a value of the next enum is used a second time.
INSTALL_UPDATE_STATE_CLASH ==
    [NO_INSTALLATION_QUEUED |-> 46, IN_PROGRESS |-> 47,
     FINISHED |-> 48, FAILED |-> 52]

INSTALL_UPDATE_STATE ==
    [NO_INSTALLATION_QUEUED |-> 46, IN_PROGRESS |-> 47,
     FINISHED |-> 48, FAILED |-> 49]

APPLY_UPDATE_STATE == [APPLY_SUCCESSFUL |-> 50, APPLY_FAILED |-> 51]

SETGET_UPDATE_STATE == [GETSET_STATE_SUCCESSFUL |-> 52,
                        PASSING_PARAM_UPDATE_STATE_WRONG |-> 53,
                        UPDATE_STATE_BAD |-> 54]

CLI_VALIDATION == [INVALID_UPDATE_TYPE |-> 60, UPDATE_FILE_NOT_FOUND |-> 61,
                   MISSING_ENV_UPDATE_STICK |-> 62,
                   MISSING_ENV_UPDATE_FILE |-> 63,
                   UPDATE_TYPE_WITHOUT_FILE |-> 64,
                   INCOMPATIBLE_ARG_COMBO |-> 65]

\* Mutant: an exit code out of the POSIX range.
REBOOT_FAILED_UNMASKED == 255

REBOOT_FAILED == 70

UNHANDLED_EXCEPTION == 124
=============================================================================
