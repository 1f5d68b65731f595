----------------------------- MODULE ShimCalls -----------------------------
(***************************************************************************)
(* What each exported function of the shim can do to the record of the     *)
(* last error (bindings/rust/idax-sys/shim/idax_shim.cpp), one table for   *)
(* each group of functions, in the order of the file.  A function is       *)
(* idax_<prefix>_<name>.                                                   *)
(*                                                                         *)
(*   plain      does not clear the record                                  *)
(*   checks     may refuse its arguments before it calls idax: a null      *)
(*              pointer, a number that is no enumerator (Validation)       *)
(*   fails      hands on the error of the C++ function it calls            *)
(*   allocates  returns an error (Internal) if it has no memory for its    *)
(*              result                                                     *)
(*   copies     reports success with a null string if it has no memory for *)
(*              the copy                                                   *)
(*   closure    is given a boxed closure, which the wrapper drops if the   *)
(*              call fails, before it reads the error                      *)
(***************************************************************************)

Calls(prefix, traits, names) ==
  {[prefix |-> prefix, name |-> name, traits |-> traits] : name \in names}

LastErrorCalls ==
  Calls("last_error", {"plain"}, {"category", "code", "message"}) \cup
  Calls("free", {"plain"}, {"string", "bytes", "addresses"})

DatabaseLifecycleCalls ==
  Calls("database", {"fails"},
    {"open", "save", "close", "file_to_database", "memory_to_database"}) \cup
  Calls("database", {"checks", "fails"},
    {"init", "open_binary", "open_non_binary"})

DatabaseMetadataCalls ==
  Calls("database", {"plain"},
    {"compiler_info_free", "import_modules_free", "snapshots_free"}) \cup
  Calls("database", {"fails", "allocates"},
    {"compiler_info", "import_modules", "snapshots"}) \cup
  Calls("database", {"fails"},
    {"set_snapshot_description", "is_snapshot_database"})

DatabaseInfoCalls ==
  Calls("database", {"fails"},
    {"image_base", "min_address", "max_address", "processor_id",
     "address_bitness", "set_address_bitness", "is_big_endian",
     "address_span"}) \cup
  Calls("database", {"fails", "copies"},
    {"input_file_path", "idb_path", "file_type_name", "loader_format_name",
     "input_md5", "processor_name", "abi_name"}) \cup
  Calls("path", {"checks", "allocates"}, {"basename", "dirname"}) \cup
  Calls("path", {"checks"}, {"is_directory"})

AddressCalls ==
  Calls("address", {"fails"},
    {"item_start", "item_end", "item_size", "next_head", "prev_head",
     "next_not_tail", "prev_not_tail", "next_mapped", "prev_mapped"}) \cup
  Calls("address", {"plain"},
    {"is_mapped", "is_loaded", "is_code", "is_data", "is_unknown",
     "is_head", "is_tail"}) \cup
  Calls("address", {"checks", "fails"}, {"find_first", "find_next"})

SegmentCalls ==
  Calls("segment", {"fails"},
    {"count", "create", "remove", "set_name", "set_class", "set_type",
     "set_permissions", "set_bitness", "set_comment", "resize", "move",
     "set_default_segment_register", "set_default_segment_register_for_all"}) \cup
  Calls("segment", {"fails", "copies"},
    {"at", "by_name", "by_index", "comment", "next", "prev"}) \cup
  Calls("segment", {"plain"}, {"free"})

FunctionCalls ==
  Calls("function", {"fails"},
    {"count", "remove", "set_start", "set_end", "update", "reanalyze",
     "set_comment", "is_outlined", "set_outlined", "chunk_count",
     "add_tail", "remove_tail"}) \cup
  Calls("function", {"fails", "copies"},
    {"at", "by_index", "create", "name_at", "comment"}) \cup
  Calls("function", {"fails", "allocates"},
    {"callers", "callees", "chunks"}) \cup
  Calls("function", {"plain"}, {"free"})

FrameCalls ==
  Calls("function", {"fails"}, {"sp_delta_at", "apply_decl"}) \cup
  Calls("function", {"fails", "allocates"},
    {"frame_variable_by_name", "frame_variable_by_offset"}) \cup
  Calls("function", {"checks", "fails"},
    {"define_stack_variable", "set_prototype"}) \cup
  Calls("frame_variable", {"plain"}, {"free"}) \cup
  Calls("register_variable", {"plain"}, {"free"}) \cup
  Calls("register_variables", {"plain"}, {"free"}) \cup
  Calls("stack_frame", {"plain"}, {"free"}) \cup
  Calls("function", {"fails", "allocates", "copies"}, {"frame"})

RegisterVariableCalls ==
  Calls("function", {"fails"},
    {"add_register_variable", "remove_register_variable",
     "rename_register_variable", "has_register_variables"}) \cup
  Calls("function", {"fails", "allocates"},
    {"find_register_variable", "register_variables", "item_addresses",
     "code_addresses"})

OperandFormatCalls ==
  Calls("instruction", {"fails"},
    {"set_operand_hex", "set_operand_decimal", "set_operand_octal",
     "set_operand_binary", "set_operand_character", "set_operand_float",
     "set_operand_format", "set_operand_offset",
     "set_operand_struct_offset_by_name", "set_operand_struct_offset_by_id",
     "set_operand_based_struct_offset"}) \cup
  Calls("instruction", {"fails", "copies"}, {"decode", "create", "text"}) \cup
  Calls("instruction", {"fails", "allocates"},
    {"operand_struct_offset_path", "operand_struct_offset_path_names"}) \cup
  Calls("instruction", {"plain"}, {"free"})

InstructionCalls ==
  Calls("instruction", {"fails"},
    {"set_operand_stack_variable", "clear_operand_representation",
     "set_forced_operand", "operand_byte_width",
     "operand_register_category", "toggle_operand_sign",
     "toggle_operand_negate"}) \cup
  Calls("instruction", {"plain"},
    {"string_array_free", "has_fall_through", "is_call", "is_return",
     "is_jump", "is_conditional_jump"}) \cup
  Calls("instruction", {"fails", "copies"},
    {"get_forced_operand", "operand_text", "operand_register_name", "next",
     "prev"}) \cup
  Calls("instruction", {"fails", "allocates"},
    {"code_refs_from", "data_refs_from", "call_targets", "jump_targets"})

DataReadCalls ==
  Calls("data", {"fails"},
    {"read_byte", "read_word", "read_dword", "read_qword", "write_byte",
     "write_word", "write_dword", "write_qword", "write_bytes"}) \cup
  Calls("data", {"fails", "allocates"}, {"read_bytes"}) \cup
  Calls("data", {"fails", "copies"}, {"read_string"}) \cup
  Calls("data", {"checks", "fails", "allocates"}, {"read_typed"}) \cup
  Calls("data", {"checks", "fails"}, {"write_typed"}) \cup
  Calls("data", {"plain"}, {"typed_value_free"})

DataPatchCalls ==
  Calls("data", {"fails"},
    {"patch_byte", "patch_word", "patch_dword", "patch_qword",
     "patch_bytes", "revert_patch", "revert_patches", "original_byte",
     "original_word", "original_dword", "original_qword", "define_byte",
     "define_word", "define_dword", "define_qword", "define_oword",
     "define_tbyte", "define_float", "define_double", "define_string",
     "define_struct", "undefine", "find_binary_pattern"})

NameCalls ==
  Calls("name", {"fails"},
    {"set", "force_set", "remove", "resolve", "is_valid_identifier",
     "set_public", "set_weak"}) \cup
  Calls("name", {"plain"},
    {"entries_free", "is_public", "is_weak", "is_user_defined",
     "is_auto_generated"}) \cup
  Calls("name", {"fails", "copies"},
    {"get", "demangled", "sanitize_identifier"}) \cup
  Calls("name", {"fails", "allocates"}, {"all_user_defined"})

XrefCalls ==
  Calls("xref", {"fails"},
    {"refs_from", "refs_to", "refs_from_range", "refs_to_range", "add_code",
     "add_data", "remove_code", "remove_data"}) \cup
  Calls("xref", {"fails", "allocates"},
    {"code_refs_from", "code_refs_to", "data_refs_from", "data_refs_to",
     "code_refs_from_range", "code_refs_to_range", "data_refs_from_range",
     "data_refs_to_range"})

CommentCalls ==
  Calls("comment", {"fails"},
    {"set", "append", "remove", "add_anterior", "add_posterior",
     "set_anterior", "set_posterior", "clear_anterior", "clear_posterior",
     "remove_anterior_line", "remove_posterior_line"}) \cup
  Calls("comment", {"fails", "copies"},
    {"get", "get_anterior", "get_posterior", "render"}) \cup
  Calls("comment", {"checks", "fails"},
    {"set_anterior_lines", "set_posterior_lines"}) \cup
  Calls("comment", {"fails", "allocates"},
    {"anterior_lines", "posterior_lines"}) \cup
  Calls("comment", {"plain"}, {"lines_free"})

SearchCalls ==
  Calls("search", {"fails"},
    {"text", "binary_pattern", "immediate", "next_code", "next_data",
     "next_unknown", "next_error", "next_defined"})

AnalysisCalls ==
  Calls("analysis", {"fails"},
    {"set_enabled", "wait", "wait_range", "schedule", "schedule_range",
     "schedule_code", "schedule_function", "schedule_reanalysis",
     "schedule_reanalysis_range", "cancel", "revert_decisions"}) \cup
  Calls("analysis", {"plain"}, {"is_enabled", "is_idle"})

TypeFactoryCalls ==
  Calls("type", {"plain"},
    {"void", "int8", "int16", "int32", "int64", "uint8", "uint16", "uint32",
     "uint64", "float32", "float64", "pointer_to", "array_of",
     "create_struct", "create_union", "free"}) \cup
  Calls("type", {"checks", "fails"}, {"function_type", "enum_type"}) \cup
  Calls("type", {"checks"}, {"clone"})

TypeQueryCalls ==
  Calls("type", {"plain"},
    {"is_void", "is_integer", "is_floating_point", "is_pointer", "is_array",
     "is_function", "is_struct", "is_union", "is_enum", "is_typedef"}) \cup
  Calls("type", {"fails"},
    {"size", "pointee_type", "array_element_type", "array_length",
     "resolve_typedef", "function_return_type", "calling_convention",
     "is_variadic_function"}) \cup
  Calls("type", {"fails", "copies"}, {"to_string"}) \cup
  Calls("type", {"fails", "allocates"}, {"function_argument_types"})

TypeLookupCalls ==
  Calls("type", {"fails"},
    {"by_name", "from_declaration", "apply", "save_as", "retrieve",
     "retrieve_operand", "remove", "member_count"}) \cup
  Calls("type", {"fails", "allocates"},
    {"enum_members", "members", "member_by_name"})

TypeLibraryCalls ==
  Calls("type", {"fails"},
    {"add_member", "load_library", "unload_library", "local_type_count",
     "import", "apply_named"}) \cup
  Calls("type", {"plain"},
    {"handle_array_free", "enum_members_free", "member_free", "members_free"}) \cup
  Calls("type", {"fails", "allocates"}, {"member_by_offset"}) \cup
  Calls("type", {"fails", "copies"}, {"local_type_name"}) \cup
  Calls("type", {"checks", "fails"}, {"parse_declarations"})

EntryCalls ==
  Calls("entry", {"fails"},
    {"count", "add", "rename", "set_forwarder", "clear_forwarder"}) \cup
  Calls("entry", {"fails", "copies"},
    {"by_index", "by_ordinal", "forwarder"}) \cup
  Calls("entry", {"plain"}, {"free"})

FixupCalls ==
  Calls("fixup", {"fails"},
    {"at", "set", "remove", "first", "next", "prev", "unregister_custom",
     "find_custom"}) \cup
  Calls("fixup", {"plain"}, {"exists", "contains"}) \cup
  Calls("fixup", {"fails", "allocates"}, {"in_range"}) \cup
  Calls("fixup", {"checks", "fails"}, {"register_custom"})

EventCalls ==
  Calls("event", {"checks", "fails", "closure"},
    {"on_segment_added", "on_segment_deleted", "on_function_added",
     "on_function_deleted", "on_renamed", "on_byte_patched",
     "on_comment_changed", "on_event"}) \cup
  Calls("event", {"checks", "fails"}, {"subscribe"})

EventFilterCalls ==
  Calls("event", {"checks", "fails", "closure"}, {"on_event_filtered"}) \cup
  Calls("event", {"fails"}, {"unsubscribe"})

ActionCalls ==
  Calls("plugin", {"fails"},
    {"unregister_action", "attach_to_menu", "attach_to_toolbar",
     "attach_to_popup", "detach_from_menu", "detach_from_toolbar",
     "detach_from_popup"}) \cup
  Calls("plugin", {"checks", "fails"}, {"register_action"}) \cup
  Calls("plugin", {"checks", "fails", "closure"}, {"register_action_ex"})

ActionContextCalls ==
  Calls("plugin_action_context", {"checks", "fails"},
    {"widget_host", "with_widget_host", "decompiler_view_host",
     "with_decompiler_view_host"})

LoaderInfoCalls ==
  Calls("loader", {"checks", "fails"},
    {"input_size", "input_tell", "input_seek"}) \cup
  Calls("loader", {"checks"}, {"decode_load_flags", "encode_load_flags"}) \cup
  Calls("loader", {"fails"}, {"file_to_database", "memory_to_database"}) \cup
  Calls("loader", {"plain"}, {"abort_load"})

LoaderInputCalls ==
  Calls("loader", {"checks", "fails", "allocates"},
    {"input_read_bytes", "input_read_bytes_at", "input_read_string",
     "input_filename"}) \cup
  Calls("loader", {"fails"}, {"set_processor", "create_filename_comment"})

DebuggerBackendCalls ==
  Calls("debugger", {"fails"},
    {"load_backend", "start", "attach", "request_start", "request_attach",
     "detach", "terminate", "suspend", "resume", "step_into", "step_over",
     "step_out", "run_to"}) \cup
  Calls("debugger", {"plain"},
    {"register_info_free", "appcall_value_free", "appcall_result_free"}) \cup
  Calls("thread", {"plain"}, {"info_free"}) \cup
  Calls("backend", {"plain"}, {"info_free"}) \cup
  Calls("debugger", {"fails", "allocates", "copies"},
    {"available_backends"}) \cup
  Calls("debugger", {"fails", "copies"}, {"current_backend"})

DebuggerStateCalls ==
  Calls("debugger", {"fails"},
    {"state", "instruction_pointer", "stack_pointer", "register_value",
     "set_register", "add_breakpoint", "remove_breakpoint",
     "has_breakpoint", "write_memory", "run_requests", "request_suspend",
     "request_resume", "request_step_into", "request_step_over",
     "request_step_out", "request_run_to", "thread_count", "thread_id_at",
     "current_thread_id", "select_thread"}) \cup
  Calls("debugger", {"fails", "allocates"}, {"read_memory"}) \cup
  Calls("debugger", {"plain"}, {"is_request_running"}) \cup
  Calls("debugger", {"fails", "copies"}, {"thread_name_at"})

DebuggerThreadCalls ==
  Calls("debugger", {"fails"},
    {"request_select_thread", "suspend_thread", "request_suspend_thread",
     "resume_thread", "request_resume_thread", "is_integer_register",
     "is_floating_register", "is_custom_register"}) \cup
  Calls("debugger", {"fails", "allocates", "copies"}, {"threads"}) \cup
  Calls("debugger", {"fails", "copies"}, {"register_info"})

AppcallCalls ==
  Calls("debugger", {"checks", "fails", "allocates"},
    {"appcall", "appcall_with_executor"}) \cup
  Calls("debugger", {"fails"}, {"cleanup_appcall", "unregister_executor"}) \cup
  Calls("debugger", {"fails", "closure"}, {"register_executor"})

DebuggerEventCalls ==
  Calls("debugger_on", {"fails", "closure"},
    {"process_started", "process_exited", "process_suspended",
     "breakpoint_hit", "trace", "exception", "thread_started"})

DebuggerModuleCalls ==
  Calls("debugger", {"fails", "closure"},
    {"on_thread_exited", "on_library_loaded", "on_library_unloaded",
     "on_breakpoint_changed"}) \cup
  Calls("debugger", {"fails"}, {"unsubscribe"})

DecompilerSessionCalls ==
  Calls("decompiler", {"fails"}, {"available", "decompile"}) \cup
  Calls("decompiler", {"checks", "fails"}, {"initialize", "session_close"}) \cup
  Calls("decompiler", {"checks"}, {"session_valid"}) \cup
  Calls("decompiler", {"plain"}, {"session_free"}) \cup
  Calls("decompiled", {"plain"}, {"free"})

DecompilerEventCalls ==
  Calls("decompiler", {"checks", "fails", "closure"},
    {"on_maturity_changed", "on_func_printed", "on_refresh_pseudocode",
     "on_curpos_changed", "on_create_hint", "on_populating_popup"}) \cup
  Calls("decompiler", {"fails"}, {"unsubscribe"})

PseudocodeCalls ==
  Calls("decompiled", {"fails", "copies"},
    {"pseudocode", "microcode", "declaration"}) \cup
  Calls("decompiled", {"fails", "allocates"}, {"lines", "raw_lines"}) \cup
  Calls("decompiled", {"plain"}, {"lines_free", "entry_address"}) \cup
  Calls("decompiled", {"fails"}, {"set_raw_line", "header_line_count"})

LvarCalls ==
  Calls("decompiled", {"checks", "fails"},
    {"capture_user_lvar_settings", "restore_user_lvar_settings",
     "set_variable_comment_by_name", "set_variable_comment_by_index"}) \cup
  Calls("decompiled", {"fails"}, {"variable_count", "rename_variable"}) \cup
  Calls("lvar_snapshot", {"checks"}, {"empty", "saved_variable_count"}) \cup
  Calls("local_variable", {"plain"}, {"free"}) \cup
  Calls("decompiled", {"plain"}, {"variables_free"}) \cup
  Calls("decompiled", {"fails", "allocates", "copies"}, {"variables"}) \cup
  Calls("decompiled", {"checks", "fails", "copies"}, {"variable"}) \cup
  Calls("lvar_snapshot", {"plain"}, {"free"})

DecompilerViewCalls ==
  Calls("decompiler", {"fails"},
    {"mark_dirty", "mark_dirty_with_callers", "view_from_host",
     "view_for_function", "current_view", "set_pseudocode_line",
     "pseudocode_header_line_count", "item_at_position"}) \cup
  Calls("decompiled", {"fails"},
    {"set_comment", "save_comments", "line_to_address"}) \cup
  Calls("decompiled", {"fails", "copies"}, {"get_comment"}) \cup
  Calls("decompiler", {"fails", "allocates"}, {"raw_pseudocode_lines"}) \cup
  Calls("decompiler", {"plain"}, {"pseudocode_lines_free"}) \cup
  Calls("decompiler", {"allocates"}, {"item_type_name"})

CtreeCalls ==
  Calls("decompiler", {"checks", "fails"},
    {"for_each_expression", "for_each_item"})

MicrocodeCalls ==
  Calls("decompiler", {"checks", "fails"},
    {"microcode_context_block_instruction_count",
     "microcode_context_has_instruction_at_index",
     "microcode_context_has_last_emitted_instruction"}) \cup
  Calls("decompiler", {"checks"},
    {"microcode_context_address", "microcode_context_instruction_type"}) \cup
  Calls("decompiler", {"checks", "fails", "allocates"},
    {"microcode_context_instruction_at_index",
     "microcode_context_last_emitted_instruction"}) \cup
  Calls("microcode_instruction", {"plain"}, {"free"}) \cup
  Calls("decompiler", {"fails", "closure"}, {"register_microcode_filter"}) \cup
  Calls("decompiler", {"fails"}, {"unregister_microcode_filter"}) \cup
  Calls("decompiler", {"checks", "fails", "copies"},
    {"microcode_context_instruction"})

StorageCalls ==
  Calls("storage_node", {"fails"},
    {"open", "open_by_id", "id", "alt_get", "alt_set", "alt_remove",
     "sup_set", "hash_set", "blob_set", "blob_remove", "blob_size"}) \cup
  Calls("storage_node", {"fails", "copies"},
    {"name", "hash_get", "blob_string"}) \cup
  Calls("storage_node", {"fails", "allocates"}, {"sup_get", "blob_get"}) \cup
  Calls("storage_node", {"plain"}, {"free"})

GraphCalls ==
  Calls("graph", {"plain"},
    {"create", "free", "add_node", "total_node_count", "visible_node_count",
     "node_exists", "clear", "path_exists"}) \cup
  Calls("graph", {"fails"},
    {"remove_node", "add_edge", "add_edge_with_info", "remove_edge",
     "replace_edge"}) \cup
  Calls("graph", {"fails", "allocates"}, {"successors", "predecessors"}) \cup
  Calls("graph", {"allocates"}, {"visible_nodes", "edges"}) \cup
  Calls("graph", {"checks", "fails"}, {"create_group"})

GroupCalls ==
  Calls("graph", {"checks", "fails"},
    {"show_graph", "refresh_graph", "has_graph_viewer",
     "is_graph_viewer_visible", "activate_graph_viewer",
     "close_graph_viewer"}) \cup
  Calls("graph", {"fails"},
    {"delete_group", "set_group_expanded", "set_layout", "redo_layout"}) \cup
  Calls("graph", {"plain"}, {"is_group", "is_collapsed", "current_layout"}) \cup
  Calls("graph", {"fails", "allocates"}, {"group_members"})

FlowchartCalls ==
  Calls("graph", {"plain"},
    {"free_node_ids", "free_edges", "flowchart_free"}) \cup
  Calls("basic_block", {"plain"}, {"free"}) \cup
  Calls("graph", {"fails", "allocates"}, {"flowchart"}) \cup
  Calls("graph", {"checks", "fails", "allocates"}, {"flowchart_for_ranges"})

DialogCalls ==
  Calls("ui", {"plain"},
    {"message", "warning", "info", "wait_box_dismiss", "wait_box_free"}) \cup
  Calls("ui", {"checks", "fails"},
    {"ask_yn", "wait_box_update", "ask_form", "ask_form_sval_bitset"}) \cup
  Calls("ui", {"checks"},
    {"wait_box_create", "wait_box_cancelled", "wait_box_active"}) \cup
  Calls("ui", {"fails", "copies"}, {"ask_string", "ask_file"}) \cup
  Calls("ui", {"fails"}, {"ask_address", "ask_long"})

FormCalls ==
  Calls("ui_ask", {"checks", "fails", "allocates"},
    {"form_sval_path_bitset", "form_path_bitset",
     "form_radio_sval_path_bitset", "form_three_svals_path_two_bitsets"})

ClipboardCalls ==
  Calls("ui", {"fails"},
    {"copy_to_clipboard", "jump_to", "screen_address", "selection"}) \cup
  Calls("ui", {"fails", "copies"}, {"read_clipboard", "user_directory"}) \cup
  Calls("ui", {"plain"}, {"clipboard_backend", "refresh_all_views"}) \cup
  Calls("ui", {"checks", "fails", "allocates"}, {"ask_text"})

WidgetCalls ==
  Calls("ui", {"checks", "fails"},
    {"create_widget", "show_widget", "show_widget_ex", "activate_widget",
     "widget_host", "with_widget_host"}) \cup
  Calls("ui", {"checks"}, {"find_widget", "widget_id"}) \cup
  Calls("ui", {"plain"}, {"is_widget_visible", "widget_type"}) \cup
  Calls("ui", {"plain", "checks", "fails"}, {"close_widget"}) \cup
  Calls("ui", {"checks", "allocates"}, {"widget_title"})

ViewerCalls ==
  Calls("ui", {"checks", "fails"},
    {"create_custom_viewer", "set_custom_viewer_lines",
     "custom_viewer_line_count", "custom_viewer_jump_to_line",
     "refresh_custom_viewer", "close_custom_viewer"}) \cup
  Calls("ui", {"checks", "fails", "allocates"},
    {"custom_viewer_current_line"})

TimerCalls ==
  Calls("ui", {"checks", "fails"}, {"register_timer", "subscribe"}) \cup
  Calls("ui", {"checks", "fails", "closure"},
    {"register_timer_with_callback"}) \cup
  Calls("ui", {"fails"}, {"unregister_timer"})

UiEventCalls ==
  Calls("ui_on", {"checks", "fails", "closure"},
    {"database_closed", "database_inited", "ready_to_run",
     "screen_ea_changed", "current_widget_changed"})

WidgetEventCalls ==
  Calls("ui_on", {"checks", "fails", "closure"},
    {"widget_visible", "widget_invisible", "widget_closing",
     "widget_visible_for_widget", "widget_invisible_for_widget",
     "widget_closing_for_widget"})

ViewEventCalls ==
  Calls("ui_on", {"checks", "fails", "closure"},
    {"cursor_changed", "view_activated", "view_deactivated", "view_created",
     "view_closed", "event", "event_filtered"})

RenderingCalls ==
  Calls("ui", {"checks", "fails", "closure"},
    {"on_popup_ready", "attach_dynamic_action", "on_rendering_info"}) \cup
  Calls("ui", {"plain"}, {"rendering_event_add_entry"}) \cup
  Calls("ui", {"fails"}, {"unsubscribe"})

LinesCalls ==
  Calls("lines", {"copies"}, {"colstr", "tag_remove", "make_addr_tag"}) \cup
  Calls("lines", {"plain"},
    {"tag_advance", "tag_strlen", "decode_addr_tag"})

DiagnosticsCalls ==
  Calls("diagnostics", {"plain"},
    {"log_level", "log", "reset_performance_counters"}) \cup
  Calls("diagnostics", {"fails"}, {"set_log_level"}) \cup
  Calls("diagnostics", {}, {"performance_counters"})

LuminaCalls ==
  Calls("lumina", {"fails"},
    {"has_connection", "close_connection", "close_all_connections", "pull",
     "push"})
-----------------------------------------------------------------------------
ExportedCalls ==
  UNION {LastErrorCalls, DatabaseLifecycleCalls, DatabaseMetadataCalls,
         DatabaseInfoCalls, AddressCalls, SegmentCalls, FunctionCalls,
         FrameCalls, RegisterVariableCalls, OperandFormatCalls,
         InstructionCalls, DataReadCalls, DataPatchCalls, NameCalls,
         XrefCalls, CommentCalls, SearchCalls, AnalysisCalls,
         TypeFactoryCalls, TypeQueryCalls, TypeLookupCalls, TypeLibraryCalls,
         EntryCalls, FixupCalls, EventCalls, EventFilterCalls, ActionCalls,
         ActionContextCalls, LoaderInfoCalls, LoaderInputCalls,
         DebuggerBackendCalls, DebuggerStateCalls, DebuggerThreadCalls,
         AppcallCalls, DebuggerEventCalls, DebuggerModuleCalls,
         DecompilerSessionCalls, DecompilerEventCalls, PseudocodeCalls,
         LvarCalls, DecompilerViewCalls, CtreeCalls, MicrocodeCalls,
         StorageCalls, GraphCalls, GroupCalls, FlowchartCalls, DialogCalls,
         FormCalls, ClipboardCalls, WidgetCalls, ViewerCalls, TimerCalls,
         UiEventCalls, WidgetEventCalls, ViewEventCalls, RenderingCalls,
         LinesCalls, DiagnosticsCalls, LuminaCalls}
=============================================================================
