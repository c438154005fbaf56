CONSTANTS
    CodePoints = {65, 233, 128512}
    MaxChars = 2
    Jvms = {"hotspot", "art"}
SPECIFICATION Spec
INVARIANT TextIsString
