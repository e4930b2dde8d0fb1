SPECIFICATION Spec
CONSTANTS
    Calls <- MCCalls
    MemoryFails = FALSE
    Misread = {"email_clear_result_of_search_mail_on_server"}
    Untold = {"email_clear_result_of_search_mail_on_server", "email_download_body",
              "email_download_attachment", "email_restore_accounts_from_secure_storage",
              "email_set_mailbox_type", "email_update_account_with_validation",
              "email_verify_signature", "email_verify_certificate",
              "email_sync_imap_mailbox_list", "email_show_user_message"}
    Unfilled = {"email_download_body", "email_download_attachment",
                "email_sync_imap_mailbox_list", "email_sync_header_for_all_account"}
INVARIANTS
    ArgumentsArrive ResultTells OutputsAreFilled
PROPERTIES
    CallsReturn
